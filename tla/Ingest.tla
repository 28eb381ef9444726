-------------------------------- MODULE Ingest --------------------------------
(***************************************************************************)
(* Connection management: the ingest manager (internal/ingest/manager.go),  *)
(* the goroutines it starts (Run and RunDemo, internal/ingest/ingest.go),   *)
(* the callbacks of their receiver sessions, and the connection fields of   *)
(* the snapshot they share (internal/store/store.go).                       *)
(*                                                                          *)
(* The manager's mutex lets one request run at a time, but cancelling a     *)
(* goroutine does not wait for it: goroutines of earlier connections go on  *)
(* writing the store and publishing while the next request and the next     *)
(* goroutine do the same.  Every call that takes the store's lock is a step *)
(* and so is every publication, because the snapshot published is the copy  *)
(* the store call returned, however old it has become.                      *)
(*                                                                          *)
(* Publications are seen by one observer that misses none, view; the hub's  *)
(* queues are in module Hub.  Receiver data and its counters are left out:  *)
(* ApplyRAW and IncPacket do not touch the fields kept here.  No action's   *)
(* guard reads dialled: it is a history variable of OneDialAfterCancel.     *)
(***************************************************************************)
EXTENDS Naturals, FiniteSets

CONSTANTS
  Runs,       \* slots for ingest goroutines; bounds how many exist at once
  Ports,      \* receiver URIs that pass validation
  NoPort,     \* the empty port string
  None,       \* no cancel function
  Starts      \* command lines: "hosted", "port" (-port), "demo" (-demo)

ASSUME IngestAssumption ==
  /\ NoPort \notin Ports
  /\ None \notin Runs
  /\ Starts \subseteq {"hosted", "port", "demo"}

VARIABLES
  fixed, mode, port, cur,  \* Manager: fixed, mode, port; the run cancel stops
  op,         \* where the request that holds the manager's mutex is
  opHeld,     \* the snapshot that request is about to publish
  live,       \* runs whose context is not cancelled
  rootDone,   \* the process received SIGINT or SIGTERM
  store,      \* connection fields of Store.snap
  view,       \* the snapshot published last
  pc,         \* where each ingest goroutine is; "free" when there is none
  uri,        \* Options.Port of each goroutine
  fault,      \* the error runOnce returned
  held,       \* the snapshot each goroutine is about to publish
  session,    \* each run's receiver session: its reader and callbacks
  cbHeld,     \* the snapshot a callback is about to publish
  dialled     \* history: the runs that called conn.Open since they were cancelled

manager == <<fixed, mode, port, cur, op, opHeld>>
runner == <<pc, uri, fault, held>>
callback == <<session, cbHeld>>
vars == <<manager, live, rootDone, store, view, runner, callback, dialled>>

Op == {"boot", "free", "setPort", "clearPort", "clearConnected", "announce"}
PortPC == {"top", "dial", "opening", "linkUp", "announce", "linked", "failed", "report",
           "backoff"}
DemoPC == {"demoStart", "demoAnnounce", "demoLoop", "demoPublish"}
Session == {"off", "reading", "inRaw", "ended", "orphan"}
Error == {"none", "open failed", "context canceled", "connection closed"}
Snapshot == [connected : BOOLEAN, port : Ports \cup {NoPort}, lastError : Error]

Blank == [connected |-> FALSE, port |-> NoPort, lastError |-> "none"]

\* The values of the -port flag; main refuses it together with -demo.
FlagPorts ==
  (IF "port" \in Starts THEN Ports ELSE {})
    \cup (IF Starts \subseteq {"port"} THEN {} ELSE {NoPort})

\* main: store.New(*port), NewManager; no goroutine yet
Init ==
  /\ fixed = FALSE /\ mode = "" /\ port = NoPort /\ cur = None
  /\ op = "boot" /\ opHeld = Blank
  /\ live = {} /\ rootDone = FALSE /\ dialled = {}
  /\ \E u \in FlagPorts : store = [Blank EXCEPT !.port = u]
  /\ view = Blank
  /\ pc = [r \in Runs |-> "free"]
  /\ uri = [r \in Runs |-> NoPort]
  /\ fault = [r \in Runs |-> "none"]
  /\ held = [r \in Runs |-> Blank]
  /\ session = [r \in Runs |-> "off"]
  /\ cbHeld = [r \in Runs |-> Blank]

-----------------------------------------------------------------------------
(* The manager.                                                             *)

\* Mutant: the previous goroutine is not cancelled.
StoppedNothing == live

\* stopLocked: the contexts left alive
Stopped == live \ {cur}

\* A slot with neither a goroutine nor a callback of one.
Unused(r) == pc[r] = "free" /\ session[r] = "off"

\* startPortLocked, startDemoLocked up to SetPort: a context under the root's
StartLocked(r, m, u) ==
  /\ Unused(r)
  /\ cur' = r
  /\ live' = Stopped \cup (IF rootDone THEN {} ELSE {r})
  /\ mode' = m
  /\ port' = u
  /\ op' = "setPort"
  /\ UNCHANGED <<opHeld, rootDone, dialled, store, view, runner, callback>>

\* main, before the HTTP server listens: without -port or -demo nothing is started
BootHosted ==
  /\ op = "boot" /\ "hosted" \in Starts /\ store.port = NoPort
  /\ op' = "free"
  /\ UNCHANGED <<fixed, mode, port, cur, opHeld, live, rootDone, dialled, store, view,
                 runner, callback>>

\* StartFixedPort(*port), with the flag's value that store.New put in the store
StartFixedPort ==
  /\ op = "boot" /\ store.port # NoPort
  /\ fixed' = TRUE
  /\ \E r \in Runs : StartLocked(r, "port", store.port)

StartFixedDemo ==
  /\ op = "boot" /\ "demo" \in Starts /\ store.port = NoPort
  /\ fixed' = TRUE
  /\ \E r \in Runs : StartLocked(r, "demo", NoPort)

\* Mutant: requests are served although the connection is fixed.
Unguarded == op = "free"

\* m.mu.Lock(); a request under a fixed connection returns an error
MayServe == op = "free" /\ ~fixed

\* connectURI, for a URI that ConnectBrowser or ConnectBrowserURI validated
Connect(u) ==
  /\ MayServe
  /\ \E r \in Runs : StartLocked(r, "port", u)
  /\ UNCHANGED fixed

\* Mutant: startDemoLocked keeps the port of the connection it replaces.
DemoKeepsPort == port

DemoPort == NoPort

StartDemo ==
  /\ MayServe
  /\ \E r \in Runs : StartLocked(r, "demo", DemoPort)
  /\ UNCHANGED fixed

\* m.st.SetPort(uri); go Run(...) or go RunDemo(...)
Spawn ==
  /\ op = "setPort"
  /\ store' = [store EXCEPT !.port = port]
  /\ pc' = [pc EXCEPT ![cur] = IF mode = "port" THEN "top" ELSE "demoStart"]
  /\ uri' = [uri EXCEPT ![cur] = port]
  /\ op' = "free"
  /\ UNCHANGED <<fixed, mode, port, cur, opHeld, live, rootDone, dialled, view,
                 fault, held, callback>>

\* Disconnect: stopLocked, mode and port
Disconnect ==
  /\ MayServe
  /\ live' = Stopped
  /\ cur' = None
  /\ mode' = ""
  /\ port' = NoPort
  /\ op' = "clearPort"
  /\ UNCHANGED <<fixed, opHeld, rootDone, dialled, store, view, runner, callback>>

\* Mutant: Disconnect leaves the store's port alone.
PortKept == store

PortCleared == [store EXCEPT !.port = NoPort]

\* m.st.SetPort("")
DisconnectPort ==
  /\ op = "clearPort"
  /\ store' = PortCleared
  /\ op' = "clearConnected"
  /\ UNCHANGED <<fixed, mode, port, cur, opHeld, live, rootDone, dialled, view,
                 runner, callback>>

\* snap := m.st.SetConnected(false); snap.LastError = ""
DisconnectStore ==
  /\ op = "clearConnected"
  /\ store' = [store EXCEPT !.connected = FALSE]
  /\ opHeld' = [store EXCEPT !.connected = FALSE, !.lastError = "none"]
  /\ op' = "announce"
  /\ UNCHANGED <<fixed, mode, port, cur, live, rootDone, dialled, view, runner, callback>>

\* m.h.PublishSnapshot(snap); m.mu.Unlock()
DisconnectPublish ==
  /\ op = "announce"
  /\ view' = opHeld
  /\ opHeld' = Blank
  /\ op' = "free"
  /\ UNCHANGED <<fixed, mode, port, cur, live, rootDone, dialled, store, runner, callback>>

\* The root context of main is cancelled, and every context under it.
Interrupt ==
  /\ ~rootDone
  /\ rootDone' = TRUE
  /\ live' = {}
  /\ UNCHANGED <<manager, dialled, store, view, runner, callback>>

-----------------------------------------------------------------------------
(* Run: the reconnect loop around runOnce.                                  *)

Goto(r, l) == pc' = [pc EXCEPT ![r] = l]

\* Mutant: the loop does not look at its context.
Retry(r) == TRUE

\* ctx.Err() == nil at the top of the loop
MayOpen(r) == r \in live

Top(r) ==
  /\ pc[r] = "top"
  /\ Goto(r, IF MayOpen(r) THEN "dial" ELSE "free")
  /\ dialled' = IF MayOpen(r) THEN dialled ELSE dialled \ {r}
  /\ UNCHANGED <<manager, live, rootDone, store, view, uri, fault, held, callback>>

\* runOnce calls conn.Open; nothing looks at the context in between
Dial(r) ==
  /\ pc[r] = "dial"
  /\ Goto(r, "opening")
  /\ dialled' = IF r \in live THEN dialled ELSE dialled \cup {r}
  /\ UNCHANGED <<manager, live, rootDone, store, view, uri, fault, held, callback>>

\* conn.Open fails: refused, timed out, or its context was cancelled
OpenFails(r) ==
  /\ pc[r] = "opening"
  /\ fault' = [fault EXCEPT ![r] = "open failed"]
  /\ Goto(r, "failed")
  /\ UNCHANGED <<manager, live, rootDone, dialled, store, view, uri, held, callback>>

\* conn.Open succeeds, even if the context was cancelled meanwhile; session.Dial
\* starts reading
OpenSucceeds(r) ==
  /\ pc[r] = "opening"
  /\ session' = [session EXCEPT ![r] = "reading"]
  /\ Goto(r, "linkUp")
  /\ UNCHANGED <<manager, live, rootDone, dialled, store, view, uri, fault, held, cbHeld>>

\* snap := st.SetConnected(true); snap.LastError = ""
LinkUp(r) ==
  /\ pc[r] = "linkUp"
  /\ store' = [store EXCEPT !.connected = TRUE]
  /\ held' = [held EXCEPT ![r] = [store EXCEPT !.connected = TRUE, !.lastError = "none"]]
  /\ Goto(r, "announce")
  /\ UNCHANGED <<manager, live, rootDone, dialled, view, uri, fault, callback>>

\* h.PublishSnapshot(snap), then the rest of the goroutine at l
PublishHeld(r, l) ==
  /\ view' = held[r]
  /\ held' = [held EXCEPT ![r] = Blank]
  /\ Goto(r, l)
  /\ UNCHANGED <<manager, live, rootDone, dialled, store, uri, fault, callback>>

Announce(r) == pc[r] = "announce" /\ PublishHeld(r, "linked")

\* The deferred client.Close and link.Close.  runOnce does not wait for a
\* callback that is running: it becomes an orphan and still publishes.
CloseSession(r) ==
  session' = [session EXCEPT ![r] = IF @ = "inRaw" THEN "orphan" ELSE "off"]

Leave(r, err) ==
  /\ fault' = [fault EXCEPT ![r] = err]
  /\ CloseSession(r)
  /\ Goto(r, "failed")
  /\ UNCHANGED <<manager, live, rootDone, dialled, store, view, uri, held, cbHeld>>

\* Mutant: runOnce waits for the connection to end only.
LinkedForever(r) == FALSE /\ UNCHANGED vars

\* case <-ctx.Done(): return ctx.Err()
LinkedCancelled(r) == pc[r] = "linked" /\ r \notin live /\ Leave(r, "context canceled")

\* case <-done: WaitIdle returned because the connection ended
LinkedEnded(r) ==
  pc[r] = "linked" /\ session[r] = "ended" /\ Leave(r, "connection closed")

\* Mutant: Run publishes what SetError returned.
FaultAsStored(s) == s

\* snap.Connected = false, in the copy that Run publishes
FaultSnapshot(s) == [s EXCEPT !.connected = FALSE]

\* snap := st.SetError(err.Error()); snap.Connected = false
Failed(r) ==
  /\ pc[r] = "failed"
  /\ store' = [store EXCEPT !.lastError = fault[r]]
  /\ held' = [held EXCEPT ![r] = FaultSnapshot([store EXCEPT !.lastError = fault[r]])]
  /\ fault' = [fault EXCEPT ![r] = "none"]
  /\ Goto(r, "report")
  /\ UNCHANGED <<manager, live, rootDone, dialled, view, uri, callback>>

\* Mutant: Run gives up after the first error.
GiveUp == "free"

AfterReport == "backoff"

Report(r) == pc[r] = "report" /\ PublishHeld(r, AfterReport)

\* case <-time.After(2 * time.Second)
BackoffElapses(r) ==
  /\ pc[r] = "backoff"
  /\ Goto(r, "top")
  /\ UNCHANGED <<manager, live, rootDone, dialled, store, view, uri, fault, held, callback>>

\* case <-ctx.Done(), in the back-off of Run or the ticker loop of RunDemo
Return(r) ==
  /\ pc[r] \in {"backoff", "demoLoop"}
  /\ r \notin live
  /\ Goto(r, "free")
  /\ dialled' = dialled \ {r}
  /\ UNCHANGED <<manager, live, rootDone, store, view, uri, fault, held, callback>>

-----------------------------------------------------------------------------
(* The session's callbacks, on its own goroutine.                           *)

\* OnRAWDATA: snap := st.ApplyRAW(msg); snap.Connected = true; snap.LastError = ""
Raw(r) ==
  /\ session[r] = "reading"
  /\ session' = [session EXCEPT ![r] = "inRaw"]
  /\ cbHeld' = [cbHeld EXCEPT ![r] = [store EXCEPT !.connected = TRUE, !.lastError = "none"]]
  /\ UNCHANGED <<manager, live, rootDone, dialled, store, view, runner>>

\* h.PublishSnapshot(snap)
RawPublish(r) ==
  /\ session[r] \in {"inRaw", "orphan"}
  /\ view' = cbHeld[r]
  /\ cbHeld' = [cbHeld EXCEPT ![r] = Blank]
  /\ session' = [session EXCEPT ![r] = IF @ = "inRaw" THEN "reading" ELSE "off"]
  /\ UNCHANGED <<manager, live, rootDone, dialled, store, runner>>

\* The receiver closes the connection or the link fails.
LinkEnds(r) ==
  /\ session[r] = "reading"
  /\ session' = [session EXCEPT ![r] = "ended"]
  /\ UNCHANGED <<manager, live, rootDone, dialled, store, view, runner, cbHeld>>

-----------------------------------------------------------------------------
(* RunDemo: unlike Run it publishes LastError as the store has it.          *)

\* snap := st.SetConnected(true)
DemoStart(r) ==
  /\ pc[r] = "demoStart"
  /\ store' = [store EXCEPT !.connected = TRUE]
  /\ held' = [held EXCEPT ![r] = [store EXCEPT !.connected = TRUE]]
  /\ Goto(r, "demoAnnounce")
  /\ UNCHANGED <<manager, live, rootDone, dialled, view, uri, fault, callback>>

DemoAnnounce(r) == pc[r] = "demoAnnounce" /\ PublishHeld(r, "demoLoop")

\* case <-tick.C: ApplyRAW twice; snap.Connected = true.  select may prefer a
\* tick that is due to a context that is done.
DemoTick(r) ==
  /\ pc[r] = "demoLoop"
  /\ held' = [held EXCEPT ![r] = [store EXCEPT !.connected = TRUE]]
  /\ Goto(r, "demoPublish")
  /\ UNCHANGED <<manager, live, rootDone, dialled, store, view, uri, fault, callback>>

DemoPublish(r) == pc[r] = "demoPublish" /\ PublishHeld(r, "demoLoop")

-----------------------------------------------------------------------------

Request == (\E u \in Ports : Connect(u)) \/ StartDemo \/ Disconnect

Serve ==
  \/ BootHosted \/ StartFixedPort \/ StartFixedDemo
  \/ Spawn \/ DisconnectPort \/ DisconnectStore \/ DisconnectPublish

RunStep(r) ==
  \/ Top(r) \/ Dial(r) \/ OpenFails(r) \/ OpenSucceeds(r) \/ LinkUp(r) \/ Announce(r)
  \/ LinkedCancelled(r) \/ LinkedEnded(r)
  \/ Failed(r) \/ Report(r) \/ BackoffElapses(r) \/ Return(r)
  \/ DemoStart(r) \/ DemoAnnounce(r) \/ DemoTick(r) \/ DemoPublish(r)

Next ==
  \/ Request \/ Serve \/ Interrupt
  \/ \E r \in Runs : RunStep(r) \/ Raw(r) \/ RawPublish(r) \/ LinkEnds(r)

Spec == Init /\ [][Next]_vars

(***************************************************************************)
(* A goroutine that can go on does: opening a link ends in success or in    *)
(* failure, a callback returns, the back-off elapses.  Go's select chooses  *)
(* at random among the cases that are ready, so a demo loop cannot prefer   *)
(* its ticker to a context that is done for ever: strong fairness.  Nothing *)
(* makes a browser send a request, a receiver send data or a link end.      *)
(***************************************************************************)
Fairness ==
  /\ WF_vars(Serve)
  /\ \A r \in Runs :
       /\ WF_vars(RunStep(r))
       /\ WF_vars(RawPublish(r))
       /\ SF_vars(Return(r))

FairSpec == Spec /\ Fairness

-----------------------------------------------------------------------------
(* Properties.                                                              *)

\* Types; the manager has a port exactly in mode "port".
TypeOK ==
  /\ fixed \in BOOLEAN
  /\ mode \in {"", "port", "demo"}
  /\ port \in IF mode = "port" THEN Ports ELSE {NoPort}
  /\ cur \in Runs \cup {None}
  /\ op \in Op
  /\ opHeld \in Snapshot
  /\ live \subseteq Runs
  /\ rootDone \in BOOLEAN
  /\ dialled \subseteq Runs
  /\ store \in Snapshot
  /\ view \in Snapshot
  /\ pc \in [Runs -> PortPC \cup DemoPC \cup {"free"}]
  /\ uri \in [Runs -> Ports \cup {NoPort}]
  /\ fault \in [Runs -> Error]
  /\ held \in [Runs -> Snapshot]
  /\ session \in [Runs -> Session]
  /\ cbHeld \in [Runs -> Snapshot]

(***************************************************************************)
(* However requests, goroutines and the signal interleave, at most one      *)
(* ingest goroutine is not cancelled, and it is the one the manager's       *)
(* cancel function stops: no connection is ever left behind that Disconnect *)
(* could not end.                                                           *)
(***************************************************************************)
OneLiveRun == live \subseteq {cur}

(***************************************************************************)
(* What GET /api/config reports between two requests is what is running:    *)
(* while a goroutine is not cancelled there is a mode, the goroutine is of  *)
(* that kind (or is about to be started), and it dials the reported port.   *)
(***************************************************************************)
ConfigMatchesRun ==
  op = "free" => \A r \in live :
    /\ mode # ""
    /\ uri[r] = port
    /\ pc[r] \in IF mode = "port" THEN PortPC ELSE DemoPC

(***************************************************************************)
(* The manager and the store keep the port under different locks; between   *)
(* two requests they agree, so /api/config and /api/snapshot name the same  *)
(* receiver, whatever goroutines of earlier connections still do.           *)
(***************************************************************************)
PortAgreement == op = "free" => store.port = port

(***************************************************************************)
(* A connection fixed on the command line cannot be ended or replaced by a  *)
(* request: until the process is told to stop its goroutine goes on trying. *)
(***************************************************************************)
FixedRunStays ==
  fixed /\ ~rootDone /\ op = "free" =>
    cur \in live /\ pc[cur] \in (IF mode = "port" THEN PortPC ELSE DemoPC)

(***************************************************************************)
(* With a port fixed on the command line the observer never sees an error   *)
(* and a connection at once, although the store keeps Connected = true      *)
(* after the link is lost and LastError after it is back: every publisher   *)
(* corrects its copy.                                                       *)
(***************************************************************************)
ErrorMeansDisconnected ==
  fixed /\ mode = "port" /\ view.lastError # "none" => ~view.connected

(***************************************************************************)
(* A cancelled goroutine calls conn.Open at most once more.  It can be past *)
(* the check of its context when Disconnect, a new connection or the signal *)
(* cancels it (ingest.go:29, :47), and then that call is still made; once   *)
(* it has been made since the cancellation, no way through success, failure,*)
(* report and back-off leads the goroutine to a second one.                 *)
(***************************************************************************)
OneDialAfterCancel == \A r \in dialled : pc[r] # "dial"

(***************************************************************************)
(* Every cancelled goroutine returns, wherever the cancellation finds it:   *)
(* dialling, linked, reporting or waiting to retry.                         *)
(***************************************************************************)
CancelledRunReturns ==
  \A r \in Runs : pc[r] # "free" /\ r \notin live ~> pc[r] = "free"

(***************************************************************************)
(* After every failure a goroutine that is not cancelled dials again.       *)
(***************************************************************************)
RetriesForever ==
  \A r \in Runs : pc[r] = "failed" /\ r \in live ~> pc[r] = "opening" \/ r \notin live

(***************************************************************************)
(* Losing the link reaches the browser, although the store never learns of  *)
(* it: after it an observer of the events sees Connected = false.           *)
(***************************************************************************)
LinkLossShown == \A r \in Runs : session[r] = "ended" ~> ~view.connected

(***************************************************************************)
(* "POST /api/disconnect - stop ingest (hosted mode)" (README.md:106) and   *)
(* "Disconnect stops ingest" (manager.go:130): with no connection chosen,   *)
(* the store does not say that a receiver is connected.  The code breaks    *)
(* it: Disconnect does not wait for the goroutine it cancels.  A RunDemo    *)
(* that was started and has not run yet makes its first SetConnected(true)  *)
(* (ingest.go:114) after Disconnect has returned, without looking at its    *)
(* context; Run has the same window between conn.Open and ingest.go:75.     *)
(***************************************************************************)
DisconnectStopsIngest == mode = "" /\ op = "free" => ~store.connected
=============================================================================
