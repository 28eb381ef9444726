----------------------------- MODULE IngestProofs -----------------------------
(***************************************************************************)
(* Proofs that the safety properties of Ingest hold for any number of       *)
(* goroutines and receivers.  IInv is the inductive invariant: each part    *)
(* says what is true while a request is half done, which is what the        *)
(* properties, stated between two requests, leave out.                      *)
(***************************************************************************)
EXTENDS Ingest, TLAPS

\* What the port fields are at each point of a request.
PortInv ==
  /\ op \in {"free", "clearConnected", "announce"} => store.port = port
  /\ op \in {"boot", "clearPort"} => port = NoPort

\* What is running at each point of a request.
RunInv ==
  /\ op = "setPort" => cur \in Runs /\ pc[cur] = "free" /\ mode # ""
  /\ op \in {"boot", "clearPort", "clearConnected", "announce"} => live = {}
  /\ ConfigMatchesRun

\* A fixed connection admits no request, so its goroutine stays the current one.
FixedInv ==
  fixed =>
    /\ op \in {"setPort", "free"}
    /\ mode # ""
    /\ ~rootDone => cur \in live

Clean(s) == s.lastError # "none" => ~s.connected

FixedPort == fixed /\ mode = "port"

\* What every publisher of a fixed port is about to publish.
ErrorInv ==
  /\ op = "boot" => view = Blank
                    /\ \A r \in Runs : pc[r] = "free" /\ held[r] = Blank
                                     /\ session[r] = "off"
  /\ Clean(opHeld)
  /\ \A r \in Runs : Clean(cbHeld[r])
  /\ FixedPort =>
       /\ Clean(view)
       /\ \A r \in Runs : pc[r] \notin DemoPC /\ Clean(held[r])

\* A run that dialled after its cancellation is past the dial, and stays cancelled
\* until its goroutine is gone.
DialInv == \A r \in dialled : r \notin live /\ pc[r] \in PortPC \ {"dial"}

IInv == TypeOK /\ OneLiveRun /\ PortInv /\ RunInv /\ FixedInv /\ ErrorInv /\ DialInv

-----------------------------------------------------------------------------

\* The writes of store.go and the corrections of ingest.go yield snapshots.
LEMMA SnapshotUpdates ==
  ASSUME NEW s \in Snapshot, NEW b \in BOOLEAN,
         NEW u \in Ports \cup {NoPort}, NEW e \in Error
  PROVE  /\ Blank \in Snapshot
         /\ [s EXCEPT !.connected = b] \in Snapshot
         /\ [s EXCEPT !.port = u] \in Snapshot
         /\ [s EXCEPT !.lastError = e] \in Snapshot
         /\ [s EXCEPT !.connected = b, !.lastError = e] \in Snapshot
  BY DEF Snapshot, Blank, Error

LEMMA NoError == "none" \in Error
  BY DEF Error

LEMMA TypeCorrectInit == Init => TypeOK
<1>1. FlagPorts \subseteq Ports \cup {NoPort}
  BY DEF FlagPorts
<1>2. Blank \in Snapshot
  BY DEF Blank, Snapshot, Error
<1>3. ASSUME NEW u \in FlagPorts PROVE [Blank EXCEPT !.port = u] \in Snapshot
  BY <1>1, <1>2, SnapshotUpdates, NoError
<1> SUFFICES ASSUME Init PROVE TypeOK
  OBVIOUS
<1>4. store \in Snapshot
  BY <1>3 DEF Init
<1>5. pc \in [Runs -> PortPC \cup DemoPC \cup {"free"}] /\ session \in [Runs -> Session]
  BY DEF Init, Session
<1>6. held \in [Runs -> Snapshot] /\ cbHeld \in [Runs -> Snapshot]
  BY <1>2 DEF Init
<1>7. fault \in [Runs -> Error] /\ uri \in [Runs -> Ports \cup {NoPort}]
  BY NoError DEF Init
<1> QED BY <1>2, <1>4, <1>5, <1>6, <1>7 DEF Init, TypeOK, Op

\* Type correctness: the type invariant is inductive.
THEOREM TypeCorrect == Spec => []TypeOK
<1>1. TypeOK /\ [Next]_vars => TypeOK'
  <2> SUFFICES ASSUME TypeOK, [Next]_vars PROVE TypeOK'
    OBVIOUS
  <2>0. Blank \in Snapshot
    BY DEF Blank, Snapshot, Error
  <2> USE DEF TypeOK
  <2>1. CASE Request
    BY <2>1 DEF Request, Connect, StartDemo, Disconnect, StartLocked, Stopped, DemoPort,
                runner, callback, Op
  <2>2. CASE BootHosted \/ StartFixedPort \/ StartFixedDemo
    <3>1. store.port \in Ports \cup {NoPort}
      BY DEF Snapshot
    <3> QED BY <2>2, <3>1 DEF BootHosted, StartFixedPort, StartFixedDemo, StartLocked,
                Stopped, runner, callback, Op
  <2>3. CASE Spawn
    <3>1. [store EXCEPT !.port = port] \in Snapshot
      BY SnapshotUpdates, NoError
    <3> QED BY <2>3, <3>1 DEF Spawn, callback, Op, PortPC, DemoPC
  <2>4. CASE DisconnectPort \/ DisconnectStore \/ DisconnectPublish
    <3>1. /\ [store EXCEPT !.port = NoPort] \in Snapshot
          /\ [store EXCEPT !.connected = FALSE] \in Snapshot
          /\ [store EXCEPT !.connected = FALSE, !.lastError = "none"] \in Snapshot
      BY SnapshotUpdates, NoError
    <3> QED BY <2>4, <2>0, <3>1 DEF DisconnectPort, DisconnectStore, DisconnectPublish,
                PortCleared, runner, callback, Op
  <2>5. CASE Interrupt
    BY <2>5 DEF Interrupt, manager, runner, callback
  <2>6. ASSUME NEW r \in Runs, RunStep(r) PROVE TypeOK'
    <3>0. [store EXCEPT !.connected = TRUE] \in Snapshot
      BY SnapshotUpdates, NoError
    <3>1. CASE Top(r) \/ Dial(r) \/ OpenFails(r) \/ OpenSucceeds(r) \/ BackoffElapses(r) \/ Return(r)
      BY <3>1 DEF Top, Dial, OpenFails, OpenSucceeds, BackoffElapses, Return, Goto,
                  manager, callback, PortPC, DemoPC, Error, Session
    <3>2. CASE Announce(r) \/ Report(r) \/ DemoAnnounce(r) \/ DemoPublish(r)
      <4>1. PICK l \in PortPC \cup DemoPC : PublishHeld(r, l)
        BY <3>2 DEF Announce, Report, DemoAnnounce, DemoPublish, AfterReport, PortPC, DemoPC
      <4>2. held' \in [Runs -> Snapshot] /\ view' \in Snapshot
        BY <4>1, <2>0 DEF PublishHeld
      <4>3. pc' \in [Runs -> PortPC \cup DemoPC \cup {"free"}]
        BY <4>1 DEF PublishHeld, Goto
      <4> QED BY <4>1, <4>2, <4>3 DEF PublishHeld, manager, callback
    <3>3. CASE LinkedCancelled(r) \/ LinkedEnded(r)
      BY <3>3 DEF LinkedCancelled, LinkedEnded, Leave, CloseSession, Goto, manager,
                  PortPC, Session, Error
    <3>4. CASE LinkUp(r)
      <4>1. [store EXCEPT !.connected = TRUE, !.lastError = "none"] \in Snapshot
        BY SnapshotUpdates, NoError
      <4> QED BY <3>4, <3>0, <4>1 DEF LinkUp, Goto, manager, callback, PortPC
    <3>5. CASE DemoStart(r) \/ DemoTick(r)
      BY <3>5, <3>0 DEF DemoStart, DemoTick, Goto, manager, callback, DemoPC
    <3>6. CASE Failed(r)
      <4>1. [store EXCEPT !.lastError = fault[r]] \in Snapshot
        BY SnapshotUpdates
      <4>2. FaultSnapshot([store EXCEPT !.lastError = fault[r]]) \in Snapshot
        BY <4>1, SnapshotUpdates, NoError DEF FaultSnapshot
      <4> QED BY <3>6, <4>1, <4>2, NoError DEF Failed, Goto, manager, callback, PortPC
    <3> QED BY <2>6, <3>1, <3>2, <3>3, <3>4, <3>5, <3>6 DEF RunStep
  <2>7. ASSUME NEW r \in Runs, Raw(r) \/ RawPublish(r) \/ LinkEnds(r) PROVE TypeOK'
    <3>1. [store EXCEPT !.connected = TRUE, !.lastError = "none"] \in Snapshot
      BY SnapshotUpdates, NoError
    <3>2. CASE Raw(r)
      BY <3>1, <3>2 DEF Raw, manager, runner, Session
    <3>3. CASE RawPublish(r)
      <4>1. cbHeld' \in [Runs -> Snapshot] /\ view' \in Snapshot
        BY <3>3, <2>0 DEF RawPublish
      <4> QED BY <3>3, <4>1 DEF RawPublish, manager, runner, Session
    <3>4. CASE LinkEnds(r)
      BY <3>4 DEF LinkEnds, manager, runner, Session
    <3> QED BY <2>7, <3>2, <3>3, <3>4
  <2>8. CASE UNCHANGED vars
    BY <2>8 DEF vars, manager, runner, callback
  <2> QED BY <2>1, <2>2, <2>3, <2>4, <2>5, <2>6, <2>7, <2>8 DEF Next, Serve
<1> QED BY TypeCorrectInit, <1>1, PTL DEF Spec

-----------------------------------------------------------------------------
(* What the actions have in common.                                         *)

\* The actions of goroutines and of their sessions.
GoroutineStep == \E r \in Runs : RunStep(r) \/ Raw(r) \/ RawPublish(r) \/ LinkEnds(r)

StartStep ==
  \E r \in Runs, m \in {"port", "demo"}, u \in Ports \cup {NoPort} : StartLocked(r, m, u)

\* A goroutine touches neither the manager nor the contexts nor the store's port.
LEMMA GoroutineFrame ==
  ASSUME TypeOK, GoroutineStep
  PROVE  /\ UNCHANGED <<fixed, mode, port, cur, op, opHeld, live, rootDone>>
         /\ store'.port = store.port
<1>1. PICK r \in Runs : RunStep(r) \/ Raw(r) \/ RawPublish(r) \/ LinkEnds(r)
  BY DEF GoroutineStep
<1>2. CASE RunStep(r)
  <2>1. CASE LinkUp(r) \/ DemoStart(r) \/ Failed(r)
    BY <2>1 DEF TypeOK, Snapshot, LinkUp, DemoStart, Failed, manager
  <2>2. CASE Top(r) \/ Dial(r) \/ OpenFails(r) \/ OpenSucceeds(r) \/ BackoffElapses(r) \/ Return(r)
             \/ DemoTick(r)
    BY <2>2 DEF Top, Dial, OpenFails, OpenSucceeds, BackoffElapses, Return, DemoTick, manager
  <2>3. CASE Announce(r) \/ Report(r) \/ DemoAnnounce(r) \/ DemoPublish(r)
    BY <2>3 DEF Announce, Report, DemoAnnounce, DemoPublish, PublishHeld, manager
  <2>4. CASE LinkedCancelled(r) \/ LinkedEnded(r)
    BY <2>4 DEF LinkedCancelled, LinkedEnded, Leave, manager
  <2> QED BY <1>2, <2>1, <2>2, <2>3, <2>4 DEF RunStep
<1>3. CASE Raw(r) \/ RawPublish(r) \/ LinkEnds(r)
  BY <1>3 DEF Raw, RawPublish, LinkEnds, manager
<1> QED BY <1>1, <1>2, <1>3

\* Where a goroutine's step leaves it: unused slots stay unused, an ingest goroutine
\* stays of its kind, and only a cancelled one returns.
LEMMA GoroutineControl ==
  ASSUME TypeOK, GoroutineStep, NEW q \in Runs
  PROVE  /\ pc[q] = "free" => pc'[q] = "free"
         /\ pc[q] \in PortPC => pc'[q] \in PortPC \cup {"free"}
         /\ pc[q] \in DemoPC => pc'[q] \in DemoPC \cup {"free"}
         /\ q \in live /\ pc[q] # "free" => pc'[q] # "free"
         /\ uri'[q] = uri[q]
<1>1. PICK r \in Runs : RunStep(r) \/ Raw(r) \/ RawPublish(r) \/ LinkEnds(r)
  BY DEF GoroutineStep
<1>2. CASE RunStep(r)
  <2> USE DEF TypeOK, PortPC, DemoPC, Goto
  <2>1. CASE LinkUp(r) \/ DemoStart(r) \/ DemoTick(r) \/ Failed(r)
    BY <2>1 DEF LinkUp, DemoStart, DemoTick, Failed
  <2>2. CASE Top(r) \/ Dial(r) \/ OpenFails(r) \/ OpenSucceeds(r) \/ BackoffElapses(r) \/ Return(r)
    BY <2>2 DEF Top, MayOpen, Dial, OpenFails, OpenSucceeds, BackoffElapses, Return
  <2>3. CASE Announce(r) \/ Report(r) \/ DemoAnnounce(r) \/ DemoPublish(r)
    BY <2>3 DEF Announce, Report, DemoAnnounce, DemoPublish, PublishHeld, AfterReport
  <2>4. CASE LinkedCancelled(r) \/ LinkedEnded(r)
    BY <2>4 DEF LinkedCancelled, LinkedEnded, Leave
  <2> QED BY <1>2, <2>1, <2>2, <2>3, <2>4 DEF RunStep
<1>3. CASE Raw(r) \/ RawPublish(r) \/ LinkEnds(r)
  BY <1>3 DEF Raw, RawPublish, LinkEnds, runner
<1> QED BY <1>1, <1>2, <1>3

\* The steps of the whole program, grouped as the proofs below split them.
LEMMA Steps ==
  ASSUME TypeOK, [Next]_vars
  PROVE  \/ op = "free" /\ ~fixed /\ UNCHANGED fixed /\ StartStep
         \/ op = "boot" /\ fixed' /\ StartStep
         \/ BootHosted \/ Spawn \/ Disconnect
         \/ DisconnectPort \/ DisconnectStore \/ DisconnectPublish
         \/ Interrupt \/ GoroutineStep \/ UNCHANGED vars
<1>1. CASE Request
  BY <1>1 DEF Request, Connect, StartDemo, MayServe, DemoPort, StartStep
<1>2. CASE Serve
  <2>1. CASE StartFixedPort
    BY <2>1 DEF TypeOK, Snapshot, StartFixedPort, StartStep
  <2>2. CASE StartFixedDemo
    BY <2>2 DEF StartFixedDemo, StartStep
  <2> QED BY <1>2, <2>1, <2>2 DEF Serve
<1> QED BY <1>1, <1>2 DEF Next, GoroutineStep

-----------------------------------------------------------------------------
(* The parts of the invariant, one lemma each.                              *)

LEMMA OneLiveRunStep ==
  ASSUME TypeOK, OneLiveRun, [Next]_vars
  PROVE  OneLiveRun'
<1> USE DEF OneLiveRun
<1>1. CASE StartStep
  BY <1>1 DEF StartStep, StartLocked, Stopped
<1>2. CASE BootHosted \/ Spawn \/ DisconnectPort \/ DisconnectStore \/ DisconnectPublish
           \/ Interrupt \/ UNCHANGED vars
  BY <1>2 DEF BootHosted, Spawn, DisconnectPort, DisconnectStore, DisconnectPublish,
              Interrupt, vars, manager
<1>3. CASE Disconnect
  BY <1>3 DEF Disconnect, Stopped
<1>4. CASE GoroutineStep
  BY <1>4, GoroutineFrame
<1> QED BY <1>1, <1>2, <1>3, <1>4, Steps

LEMMA PortStep ==
  ASSUME TypeOK, PortInv, [Next]_vars
  PROVE  PortInv'
<1> USE DEF PortInv
<1>1. CASE StartStep
  BY <1>1 DEF StartStep, StartLocked
<1>2. CASE BootHosted \/ Disconnect \/ Interrupt \/ UNCHANGED vars
  BY <1>2 DEF BootHosted, Disconnect, Interrupt, vars, manager
<1>3. CASE Spawn \/ DisconnectPort \/ DisconnectStore
  <2>1. ASSUME NEW u \in Ports \cup {NoPort}
        PROVE  [store EXCEPT !.port = u].port = u
    BY DEF TypeOK, Snapshot
  <2>2. [store EXCEPT !.connected = FALSE].port = store.port
    BY DEF TypeOK, Snapshot
  <2> QED BY <1>3, <2>1, <2>2 DEF TypeOK, Spawn, DisconnectPort, DisconnectStore, PortCleared
<1>4. CASE DisconnectPublish
  BY <1>4 DEF DisconnectPublish
<1>5. CASE GoroutineStep
  BY <1>5, GoroutineFrame
<1> QED BY <1>1, <1>2, <1>3, <1>4, <1>5, Steps

LEMMA RunInvStep ==
  ASSUME TypeOK, OneLiveRun, RunInv, [Next]_vars
  PROVE  RunInv'
<1> USE DEF RunInv, ConfigMatchesRun
<1>1. CASE StartStep
  BY <1>1 DEF TypeOK, StartStep, StartLocked, Unused, runner
<1>2. CASE Spawn
  <2>1. /\ op' = "free" /\ live' = live /\ mode' = mode /\ port' = port
        /\ op = "setPort"
    BY <1>2 DEF Spawn
  <2>2. ASSUME NEW r \in live'
        PROVE  /\ uri'[r] = port
               /\ pc'[r] = IF mode = "port" THEN "top" ELSE "demoStart"
    <3>1. r = cur /\ r \in Runs
      BY <2>1, <2>2 DEF OneLiveRun, TypeOK
    <3> QED BY <1>2, <3>1 DEF Spawn, TypeOK
  <2> QED BY <2>1, <2>2 DEF TypeOK, PortPC, DemoPC
<1>3. CASE BootHosted \/ DisconnectPort \/ DisconnectStore \/ DisconnectPublish
           \/ UNCHANGED vars
  BY <1>3 DEF TypeOK, BootHosted, DisconnectPort, DisconnectStore, DisconnectPublish,
              vars, manager, runner
<1>4. CASE Disconnect
  BY <1>4 DEF Disconnect, Stopped, OneLiveRun
<1>5. CASE Interrupt
  BY <1>5 DEF Interrupt, manager, runner
<1>6. CASE GoroutineStep
  <2>1. UNCHANGED <<mode, port, cur, op, live>>
    BY <1>6, GoroutineFrame
  <2>2. ASSUME op = "setPort" PROVE pc'[cur] = "free"
    BY <1>6, <2>2, GoroutineControl
  <2>3. ASSUME op = "free", NEW r \in live
        PROVE  /\ uri'[r] = port
               /\ pc'[r] \in IF mode = "port" THEN PortPC ELSE DemoPC
    <3>1. pc[r] # "free" /\ r \in Runs
      BY <2>3 DEF TypeOK, PortPC, DemoPC
    <3> QED BY <1>6, <2>3, <3>1, GoroutineControl
  <2> QED BY <2>1, <2>2, <2>3
<1> QED BY <1>1, <1>2, <1>3, <1>4, <1>5, <1>6, Steps

LEMMA FixedStep ==
  ASSUME TypeOK, OneLiveRun, FixedInv, [Next]_vars
  PROVE  FixedInv'
<1>1. CASE StartStep
  <2>1. /\ op' = "setPort" /\ mode' # ""
        /\ rootDone' = rootDone
        /\ rootDone = FALSE => cur' \in live'
    BY <1>1 DEF StartStep, StartLocked
  <2> QED BY <2>1, Zenon DEF FixedInv, TypeOK
<1>2. CASE BootHosted \/ DisconnectPort \/ DisconnectStore \/ DisconnectPublish
  <2>1. fixed' = fixed /\ op \notin {"setPort", "free"}
    BY <1>2 DEF BootHosted, DisconnectPort, DisconnectStore, DisconnectPublish
  <2> QED BY <2>1, Zenon DEF FixedInv
<1>3. CASE Disconnect
  <2>1. fixed' = fixed
    BY <1>3 DEF Disconnect
  <2>2. ~fixed
    BY <1>3 DEF Disconnect, MayServe
  <2> QED BY <2>1, <2>2, Zenon DEF FixedInv
<1>4. CASE Spawn \/ GoroutineStep \/ UNCHANGED vars
  <2>1. /\ fixed' = fixed /\ mode' = mode /\ cur' = cur
        /\ live' = live /\ rootDone' = rootDone
        /\ op' = op \/ op' = "free"
    BY <1>4, GoroutineFrame DEF Spawn, vars, manager
  <2> QED BY <2>1, Zenon DEF FixedInv
<1>5. CASE Interrupt
  <2>1. fixed' = fixed /\ mode' = mode /\ op' = op /\ rootDone' = TRUE
    BY <1>5 DEF Interrupt, manager
  <2> QED BY <2>1, Zenon DEF FixedInv
<1> QED BY <1>1, <1>2, <1>3, <1>4, <1>5, Steps

\* What a goroutine or a callback may publish next, and what a port's goroutine does.
LEMMA GoroutinePublications ==
  ASSUME TypeOK, ErrorInv, GoroutineStep
  PROVE  /\ \A q \in Runs : Clean(cbHeld'[q])
         /\ (\A q \in Runs : pc[q] \notin DemoPC /\ Clean(held[q])) /\ Clean(view) =>
               Clean(view') /\ \A q \in Runs : Clean(held'[q])
         /\ op # "boot"
<1>1. PICK r \in Runs : RunStep(r) \/ Raw(r) \/ RawPublish(r) \/ LinkEnds(r)
  BY DEF GoroutineStep
<1>2. Clean(Blank) /\ \A q \in Runs : Clean(cbHeld[q])
  BY DEF ErrorInv, Clean, Blank
<1>3. op # "boot"
  BY <1>1 DEF ErrorInv, RunStep, Top, Dial, OpenFails, OpenSucceeds, LinkUp, Announce,
     LinkedCancelled, LinkedEnded, Failed, Report, BackoffElapses, Return,
     DemoStart, DemoAnnounce, DemoTick, DemoPublish, Raw, RawPublish, LinkEnds
<1>4. CASE Raw(r) \/ RawPublish(r) \/ LinkEnds(r)
  <2>1. Clean([store EXCEPT !.connected = TRUE, !.lastError = "none"])
    BY DEF Clean, TypeOK, Snapshot
  <2> QED BY <1>2, <1>3, <1>4, <2>1 DEF TypeOK, Raw, RawPublish, LinkEnds, runner
<1>5. CASE RunStep(r)
  <2>1. UNCHANGED cbHeld
    BY <1>5 DEF RunStep, Top, Dial, OpenFails, OpenSucceeds, LinkUp, Announce, PublishHeld,
       LinkedCancelled, LinkedEnded, Leave, Failed, Report, BackoffElapses, Return,
       DemoStart, DemoAnnounce, DemoTick, DemoPublish, callback
  <2> SUFFICES ASSUME \A q \in Runs : pc[q] \notin DemoPC /\ Clean(held[q]), Clean(view)
               PROVE  Clean(view') /\ \A q \in Runs : Clean(held'[q])
    BY <1>2, <1>3, <2>1
  <2>2. CASE LinkUp(r)
    <3>1. Clean([store EXCEPT !.connected = TRUE, !.lastError = "none"])
      BY DEF Clean, TypeOK, Snapshot
    <3> QED BY <2>2, <3>1 DEF TypeOK, LinkUp
  <2>3. CASE Failed(r)
    <3>1. Clean(FaultSnapshot([store EXCEPT !.lastError = fault[r]]))
      BY DEF Clean, FaultSnapshot, TypeOK, Snapshot
    <3> QED BY <2>3, <3>1 DEF TypeOK, Failed
  <2>4. CASE Announce(r) \/ Report(r) \/ DemoAnnounce(r) \/ DemoPublish(r)
    BY <1>2, <2>4 DEF TypeOK, Announce, Report, DemoAnnounce, DemoPublish, PublishHeld
  <2>5. CASE DemoStart(r) \/ DemoTick(r)
    BY <2>5 DEF DemoStart, DemoTick, DemoPC
  <2>6. CASE Top(r) \/ Dial(r) \/ OpenFails(r) \/ OpenSucceeds(r) \/ BackoffElapses(r) \/ Return(r)
             \/ LinkedCancelled(r) \/ LinkedEnded(r)
    BY <2>6 DEF Top, Dial, OpenFails, OpenSucceeds, BackoffElapses, Return, LinkedCancelled,
                LinkedEnded, Leave
  <2> QED BY <1>5, <2>2, <2>3, <2>4, <2>5, <2>6 DEF RunStep
<1> QED BY <1>1, <1>4, <1>5

LEMMA ErrorStep ==
  ASSUME TypeOK, RunInv, FixedInv, ErrorInv, [Next]_vars
  PROVE  ErrorInv'
<1> USE DEF ErrorInv
<1>1. Clean(Blank)
  BY DEF Clean, Blank
<1>2. CASE StartStep /\ (op = "boot" \/ (~fixed /\ UNCHANGED fixed))
  <2>1. op' = "setPort" /\ UNCHANGED <<opHeld, view, pc, held, session, cbHeld>>
    BY <1>2 DEF StartStep, StartLocked, runner, callback
  <2>2. CASE op = "boot"
    BY <2>1, <2>2, <1>1 DEF DemoPC
  <2>3. CASE ~fixed /\ UNCHANGED fixed
    <3>1. ~FixedPort'
      BY <2>3, Zenon DEF FixedPort
    <3> QED BY <2>1, <3>1
  <2> QED BY <1>2, <2>2, <2>3
<1>3. CASE Disconnect \/ DisconnectPort \/ DisconnectStore \/ DisconnectPublish
  <2>1. fixed' = fixed /\ op' # "boot" /\ cbHeld' = cbHeld
    BY <1>3 DEF Disconnect, DisconnectPort, DisconnectStore, DisconnectPublish, callback
  <2>2. CASE Disconnect
    <3>1. ~FixedPort'
      BY <2>1, <2>2, Zenon DEF Disconnect, MayServe, FixedPort
    <3> QED BY <2>1, <2>2, <3>1 DEF Disconnect
  <2>3. CASE DisconnectPort \/ DisconnectStore \/ DisconnectPublish
    <3>1. op \notin {"setPort", "free"}
      BY <2>3 DEF DisconnectPort, DisconnectStore, DisconnectPublish
    <3>2. ~FixedPort'
      BY <2>1, <3>1, Zenon DEF FixedInv, FixedPort
    <3>3. Clean([store EXCEPT !.connected = FALSE, !.lastError = "none"])
      BY DEF Clean, TypeOK, Snapshot
    <3> QED BY <1>1, <2>1, <2>3, <3>2, <3>3 DEF DisconnectPort, DisconnectStore,
               DisconnectPublish
  <2> QED BY <1>3, <2>2, <2>3
<1>4. CASE BootHosted \/ Interrupt \/ UNCHANGED vars
  <2>1. /\ op' = op \/ op' = "free"
        /\ UNCHANGED <<fixed, mode, opHeld, view, pc, held, session, cbHeld>>
    BY <1>4 DEF BootHosted, Interrupt, vars, manager, runner, callback
  <2>2. FixedPort' = FixedPort
    BY <2>1 DEF FixedPort
  <2> QED BY <2>1, <2>2
<1>5. CASE Spawn
  <2>1. /\ op = "setPort" /\ op' = "free"
        /\ UNCHANGED <<fixed, mode, opHeld, view, held, cbHeld>>
        /\ pc' = [pc EXCEPT ![cur] = IF mode = "port" THEN "top" ELSE "demoStart"]
    BY <1>5 DEF Spawn, callback
  <2>2. FixedPort' => FixedPort /\ mode = "port"
    BY <2>1, Zenon DEF FixedPort
  <2>3. mode = "port" => \A r \in Runs : pc[r] \notin DemoPC => pc'[r] \notin DemoPC
    BY <2>1 DEF TypeOK, DemoPC
  <2> QED BY <2>1, <2>2, <2>3
<1>6. CASE GoroutineStep
  <2>1. UNCHANGED <<fixed, mode, op, opHeld>> /\ op # "boot"
    BY <1>6, GoroutineFrame, GoroutinePublications
  <2>2. FixedPort' = FixedPort
    BY <2>1 DEF FixedPort
  <2>3. \A r \in Runs : pc[r] \notin DemoPC => pc'[r] \notin DemoPC
    BY <1>6, GoroutineControl DEF TypeOK, PortPC, DemoPC
  <2> QED BY <1>6, <2>1, <2>2, <2>3, GoroutinePublications
<1> QED BY <1>2, <1>3, <1>4, <1>5, <1>6, Steps

LEMMA DialStep ==
  ASSUME TypeOK, RunInv, DialInv, [Next]_vars
  PROVE  DialInv'
<1> USE DEF DialInv
<1>1. CASE StartStep
  BY <1>1 DEF StartStep, StartLocked, Stopped, Unused, PortPC, runner
<1>2. CASE Spawn
  <2>1. pc[cur] = "free" /\ UNCHANGED <<live, dialled>>
    BY <1>2 DEF Spawn, RunInv
  <2>2. \A r \in dialled : r # cur /\ pc'[r] = pc[r]
    BY <1>2, <2>1 DEF Spawn, TypeOK, PortPC
  <2> QED BY <2>1, <2>2
<1>3. CASE BootHosted \/ DisconnectPort \/ DisconnectStore \/ DisconnectPublish
           \/ UNCHANGED vars
  BY <1>3 DEF BootHosted, DisconnectPort, DisconnectStore, DisconnectPublish, vars, runner
<1>4. CASE Disconnect \/ Interrupt
  BY <1>4 DEF Disconnect, Interrupt, Stopped, runner
<1>5. CASE GoroutineStep
  <2>0. UNCHANGED live
    BY <1>5, GoroutineFrame
  <2>1. PICK r \in Runs : RunStep(r) \/ Raw(r) \/ RawPublish(r) \/ LinkEnds(r)
    BY <1>5 DEF GoroutineStep
  <2>2. CASE Raw(r) \/ RawPublish(r) \/ LinkEnds(r)
    BY <2>0, <2>2 DEF Raw, RawPublish, LinkEnds, runner
  <2>3. CASE Top(r)
    BY <2>0, <2>3 DEF TypeOK, Top, MayOpen, Goto
  <2>4. CASE Dial(r)
    BY <2>0, <2>4 DEF TypeOK, Dial, Goto, PortPC
  <2>5. CASE Return(r)
    BY <2>0, <2>5 DEF TypeOK, Return, Goto
  <2>6. CASE Announce(r) \/ Report(r) \/ DemoAnnounce(r) \/ DemoPublish(r)
    BY <2>0, <2>6 DEF TypeOK, Announce, Report, DemoAnnounce, DemoPublish, PublishHeld,
                Goto, AfterReport, PortPC
  <2>7. CASE OpenFails(r) \/ OpenSucceeds(r) \/ LinkUp(r) \/ LinkedCancelled(r)
             \/ LinkedEnded(r) \/ Failed(r) \/ BackoffElapses(r)
    BY <2>0, <2>7 DEF TypeOK, OpenFails, OpenSucceeds, LinkUp, LinkedCancelled,
                LinkedEnded, Leave, Failed, BackoffElapses, Goto, PortPC
  <2>8. CASE DemoStart(r) \/ DemoTick(r)
    BY <2>0, <2>8 DEF TypeOK, DemoStart, DemoTick, Goto, PortPC
  <2> QED BY <2>1, <2>2, <2>3, <2>4, <2>5, <2>6, <2>7, <2>8 DEF RunStep
<1> QED BY <1>1, <1>2, <1>3, <1>4, <1>5, Steps

-----------------------------------------------------------------------------
(* The theorems.                                                            *)

\* The parts together are inductive.
THEOREM Inductive == Spec => []IInv
<1>1. Init => IInv
  <2> SUFFICES ASSUME Init PROVE TypeOK => IInv
    BY TypeCorrectInit
  <2>1. OneLiveRun /\ PortInv /\ RunInv
    BY DEF Init, OneLiveRun, PortInv, RunInv, ConfigMatchesRun
  <2>2. FixedInv
    BY Zenon DEF Init, FixedInv
  <2>3. ~FixedPort
    BY Zenon DEF Init, FixedPort
  <2>4. ErrorInv
    BY <2>3 DEF Init, ErrorInv, Clean, Blank
  <2>5. DialInv
    BY DEF Init, DialInv
  <2> QED BY <2>1, <2>2, <2>4, <2>5 DEF IInv
<1>2. TypeOK /\ IInv /\ [Next]_vars /\ TypeOK' => IInv'
  BY OneLiveRunStep, PortStep, RunInvStep, FixedStep, ErrorStep, DialStep DEF IInv
<1> QED BY <1>1, <1>2, TypeCorrect, PTL DEF Spec

\* At most one goroutine is not cancelled, the one the manager's cancel stops: the
\* mutex of manager.go is enough although stopLocked does not wait.
THEOREM AtMostOneLiveRun == Spec => []OneLiveRun
BY Inductive, PTL DEF IInv

\* GET /api/config tells the truth about what is running.
THEOREM ConfigTruthful == Spec => []ConfigMatchesRun
<1>1. IInv => ConfigMatchesRun
  BY DEF IInv, RunInv
<1> QED BY Inductive, <1>1, PTL

\* The manager's port and the store's are the same between requests.
THEOREM PortsAgree == Spec => []PortAgreement
<1>1. IInv => PortAgreement
  BY DEF IInv, PortInv, PortAgreement
<1> QED BY Inductive, <1>1, PTL

\* No request ends a connection fixed on the command line.
THEOREM FixedIsFixed == Spec => []FixedRunStays
<1>1. ASSUME TypeOK, FixedInv, ConfigMatchesRun PROVE FixedRunStays
  <2> SUFFICES ASSUME fixed, ~rootDone, op = "free"
               PROVE  cur \in live /\ pc[cur] \in (IF mode = "port" THEN PortPC ELSE DemoPC)
    BY Zenon DEF FixedRunStays
  <2>1. cur \in live
    BY <1>1, Zenon DEF FixedInv
  <2> QED BY <2>1, <1>1 DEF ConfigMatchesRun
<1>2. IInv => FixedRunStays
  BY <1>1 DEF IInv, RunInv
<1> QED BY Inductive, <1>2, PTL

\* With a port fixed, no error is published together with a connection.
THEOREM NoErrorWhileConnected == Spec => []ErrorMeansDisconnected
<1>1. IInv => ErrorMeansDisconnected
  BY Zenon DEF IInv, ErrorInv, ErrorMeansDisconnected, FixedPort, Clean
<1> QED BY Inductive, <1>1, PTL

\* A cancelled goroutine dials once more at most, however it leaves that dial.
THEOREM CancelledDialsOnce == Spec => []OneDialAfterCancel
<1>1. IInv => OneDialAfterCancel
  BY DEF IInv, DialInv, OneDialAfterCancel
<1> QED BY Inductive, <1>1, PTL

=============================================================================
