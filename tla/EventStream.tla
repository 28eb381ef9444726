----------------------------- MODULE EventStream -----------------------------
(***************************************************************************)
(* What one browser shows: the store's snapshot, the publishers that hold a *)
(* copy of it, the channel of the browser's event stream, the handler of    *)
(* GET /api/events (internal/server/server.go) and the page's three ways to *)
(* get a snapshot (internal/server/web/app.js): the initial fetch of        *)
(* /api/snapshot, the first event of a stream and the events after it.      *)
(*                                                                          *)
(* A snapshot is abstracted to the version of the store it copies; changes  *)
(* that no caller publishes (IncPacket, SetPort) make no version.  A        *)
(* snapshot with a NaN or infinite number has no JSON text: Publish drops   *)
(* it, and the first event and the fetch's answer are empty, which the page *)
(* ignores.  The hub's lock and the other subscribers are in module Hub:    *)
(* here a publication to this subscriber is one step.                       *)
(***************************************************************************)
EXTENDS Naturals, Sequences

CONSTANTS
  Publishers,   \* goroutines that change the store and publish what it returns
  Cap,          \* capacity of the channel; 8 in Subscribe
  WireCap,      \* events the connection buffers before a write blocks
  MaxVersion,   \* bound on the changes of the store
  MaxStreams    \* bound on the EventSources the page opens

ASSUME EventStreamAssumption ==
  /\ Cap \in Nat \ {0} /\ WireCap \in Nat \ {0}
  /\ MaxVersion \in Nat \ {0} /\ MaxStreams \in Nat \ {0}

VARIABLES
  store,      \* version of the store's snapshot
  held,       \* the copy each publisher is about to publish, 0 if none
  handler,    \* "off", "joined" (subscribed), "first" or "serving"
  first,      \* the snapshot it sends first, 0 when it has none
  queue,      \* the handler's channel
  wire,       \* events written and not yet delivered
  open,       \* the page has an EventSource; if not, its retry timer runs
  streams,    \* EventSources opened so far
  page,       \* version the page shows, 0 before the first
  fetched,    \* version in the answer to the initial fetch
  fetching,   \* the initial fetch: "asked", "answered" or "done"
  bad,        \* the versions that json.Marshal rejects
  raced,      \* history: the latest change was made while another publisher
              \* still held an older copy
  dropped,    \* history: this stream lost an event to a full channel
  late        \* history: the page shows the fetch's answer, which came in after
              \* an event of a stream

vars == <<store, held, handler, first, queue, wire, open, streams, page, fetched, fetching,
          bad, raced, dropped, late>>

changes == <<store, bad, raced>>

Version == 1 .. MaxVersion

NoData == 0

\* The page was just loaded: its fetch is on the way and connectSSE was called.
Init ==
  /\ store = 1
  /\ held = [p \in Publishers |-> 0]
  /\ handler = "off" /\ first = 0 /\ queue = <<>> /\ wire = <<>>
  /\ open = TRUE /\ streams = 1
  /\ page = 0 /\ fetched = 0 /\ fetching = "asked"
  /\ bad = {} /\ raced = FALSE /\ dropped = FALSE /\ late = FALSE

-----------------------------------------------------------------------------
(* The server.                                                              *)

\* SetConnected, SetError or ApplyRAW returns the new snapshot
Change(p) ==
  /\ held[p] = 0
  /\ store < MaxVersion
  /\ store' = store + 1
  /\ held' = [held EXCEPT ![p] = store + 1]
  /\ bad' \in {bad, bad \cup {store + 1}}
  /\ raced' = \E q \in Publishers \ {p} : held[q] # 0
  /\ UNCHANGED <<handler, first, queue, wire, open, streams, page, fetched, fetching, dropped, late>>

\* What json.Marshal makes of it
Marshal(v) == IF v \in bad THEN NoData ELSE v

\* Mutant: handleEvents subscribes after it has sent the first snapshot.
OnlyServing == handler = "serving"

\* The channel is in h.clients.
Subscribed == handler # "off"

\* Mutant: one event too many is accepted.
OneTooMany == Len(queue) <= Cap

Room == Len(queue) < Cap

\* PublishSnapshot: the event is dropped when the channel is full
Publish(p) ==
  /\ held[p] # 0
  /\ held' = [held EXCEPT ![p] = 0]
  /\ IF ~Subscribed \/ Marshal(held[p]) = NoData THEN UNCHANGED <<queue, dropped>>
     ELSE IF Room THEN queue' = Append(queue, held[p]) /\ UNCHANGED dropped
     ELSE dropped' = TRUE /\ UNCHANGED queue
  /\ UNCHANGED <<changes, handler, first, wire, open, streams, page, fetched, fetching, late>>

\* handleEvents: h.Subscribe()
Subscribe ==
  /\ open /\ handler = "off"
  /\ handler' = "joined"
  /\ UNCHANGED <<changes, held, first, queue, wire, open, streams, page, fetched, fetching,
                 dropped, late>>

\* init, _ := json.Marshal(s.Store.Snapshot())
First ==
  /\ handler = "joined"
  /\ first' = Marshal(store)
  /\ handler' = "first"
  /\ UNCHANGED <<changes, held, queue, wire, open, streams, page, fetched, fetching,
                 dropped, late>>

\* Fprintf(w, "data: %s\n\n", init); flusher.Flush()
FirstSent ==
  /\ handler = "first"
  /\ wire' = Append(wire, first)
  /\ first' = 0
  /\ handler' = "serving"
  /\ UNCHANGED <<changes, held, queue, open, streams, page, fetched, fetching, dropped, late>>

\* case data := <-ch: Fprintf blocks while the connection's buffer is full
Forward ==
  /\ handler = "serving"
  /\ queue # <<>> /\ Len(wire) < WireCap
  /\ wire' = Append(wire, Head(queue))
  /\ queue' = Tail(queue)
  /\ UNCHANGED <<changes, held, handler, first, open, streams, page, fetched, fetching, dropped, late>>

\* handleSnapshot
FetchAnswered ==
  /\ fetching = "asked"
  /\ fetched' = Marshal(store)
  /\ fetching' = "answered"
  /\ UNCHANGED <<changes, held, handler, first, queue, wire, open, streams, page, dropped, late>>

-----------------------------------------------------------------------------
(* The page.                                                                *)

\* .catch(() => {}), also of an answer without data
FetchFails ==
  /\ fetching \in {"asked", "answered"}
  /\ fetching' = "done" /\ fetched' = 0
  /\ UNCHANGED <<changes, held, handler, first, queue, wire, open, streams, page, dropped, late>>

\* .then(applySnapshot)
FetchApplied ==
  /\ fetching = "answered" /\ fetched # NoData
  /\ page' = fetched
  /\ late' = (page # 0)
  /\ fetching' = "done" /\ fetched' = 0
  /\ UNCHANGED <<changes, held, handler, first, queue, wire, open, streams, dropped>>

\* es.onmessage: try ... catch around JSON.parse
Deliver ==
  /\ open /\ wire # <<>>
  /\ wire' = Tail(wire)
  /\ IF Head(wire) = NoData THEN UNCHANGED <<page, late>>
     ELSE page' = Head(wire) /\ late' = FALSE
  /\ UNCHANGED <<changes, held, handler, first, queue, open, streams, fetched, fetching, dropped>>

\* es.onerror: es.close(); what the stream still held is lost and its handler
\* unsubscribes
Break ==
  /\ open /\ streams < MaxStreams
  /\ open' = FALSE
  /\ handler' = "off" /\ first' = 0 /\ queue' = <<>> /\ wire' = <<>>
  /\ UNCHANGED <<changes, held, streams, page, fetched, fetching, dropped, late>>

\* Mutant: onerror does not start the timer.
NoTimer == FALSE

TimerRuns == ~open

\* setTimeout(connectSSE, 2000)
Retry ==
  /\ TimerRuns
  /\ open' = TRUE /\ streams' = streams + 1
  /\ dropped' = FALSE
  /\ UNCHANGED <<changes, held, handler, first, queue, wire, page, fetched, fetching, late>>

Next ==
  \/ \E p \in Publishers : Change(p) \/ Publish(p)
  \/ Subscribe \/ First \/ FirstSent \/ Forward
  \/ FetchAnswered \/ FetchFails \/ FetchApplied
  \/ Deliver \/ Break \/ Retry

Spec == Init /\ [][Next]_vars

(***************************************************************************)
(* The server's goroutines and the page's callbacks run when they can, and  *)
(* the network delivers or breaks.  Nothing makes the receiver send or a    *)
(* stream break.                                                            *)
(***************************************************************************)
Fairness ==
  /\ \A p \in Publishers : WF_vars(Publish(p))
  /\ WF_vars(Subscribe) /\ WF_vars(First) /\ WF_vars(FirstSent) /\ WF_vars(Forward)
  /\ WF_vars(FetchAnswered \/ FetchFails \/ FetchApplied)
  /\ WF_vars(Deliver) /\ WF_vars(Retry)

FairSpec == Spec /\ Fairness

-----------------------------------------------------------------------------
(* Properties.                                                              *)

TypeOK ==
  /\ store \in Version
  /\ held \in [Publishers -> 0 .. MaxVersion]
  /\ handler \in {"off", "joined", "first", "serving"}
  /\ first \in 0 .. MaxVersion
  /\ queue \in Seq(Version) /\ Len(queue) <= Cap
  /\ wire \in Seq(Version \cup {NoData}) /\ Len(wire) <= WireCap
  /\ open \in BOOLEAN /\ streams \in 1 .. MaxStreams
  /\ page \in 0 .. MaxVersion /\ fetched \in 0 .. MaxVersion
  /\ fetching \in {"asked", "answered", "done"}
  /\ bad \subseteq 2 .. store
  /\ raced \in BOOLEAN /\ dropped \in BOOLEAN /\ late \in BOOLEAN

(***************************************************************************)
(* Once everything under way has arrived, the page shows the store's        *)
(* snapshot: subscribing before taking the first one leaves no gap, and a   *)
(* snapshot that has no JSON text keeps no later one from the page.  What   *)
(* can come in between is named: the channel overflowed (the newest event   *)
(* is the one dropped); the page shows the initial fetch's answer, come in  *)
(* after an event (nothing orders the two); the latest change was made      *)
(* while another goroutine was about to publish an older copy (nothing      *)
(* orders the callback, the run goroutine and a request); or the store's    *)
(* snapshot is the one that has no text.                                    *)
(***************************************************************************)
Settled ==
  /\ \A p \in Publishers : held[p] = 0
  /\ handler = "serving" /\ queue = <<>> /\ wire = <<>> /\ fetching = "done"

Excused == dropped \/ late \/ raced \/ store \in bad

SettledShowsStore == Settled /\ ~Excused => page = store

(***************************************************************************)
(* When the store stops changing the page catches up for good, also across  *)
(* broken streams: the retry opens a new one, whose first event is the      *)
(* snapshot of that moment.                                                 *)
(***************************************************************************)
PageCatchesUp == <>[](page = store \/ Excused)
=============================================================================
