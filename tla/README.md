# A model of the Trimble raw-data dashboard

TLA+ specifications of the dashboard's server and of the part of its page that
keeps state, model-checked with TLC and partly proved with TLAPS.  Every
definition is translated from the Go and JavaScript sources; `PROJECT.json` maps
each one to its lines.  Paths below are relative to the repository.

## 1. The system

One process dials a GNSS receiver, decodes its messages and shows them in
browsers.  With no `-port` or `-demo` flag it runs in *hosted mode*, where a
browser chooses the receiver.

| component | source | state | operations |
|---|---|---|---|
| hub | `internal/hub/hub.go` | `clients` (a map of channels of capacity 8), an RWMutex | Subscribe, Unsubscribe, Publish, PublishSnapshot |
| ingest manager | `internal/ingest/manager.go` | `cancel`, `mode`, `port`, `fixed`, a mutex held for a whole request | StartFixedPort, StartFixedDemo, ConnectBrowser, ConnectBrowserURI, StartDemo, Disconnect, Config |
| ingest goroutines | `internal/ingest/ingest.go` | a context, the receiver session, the last error | Run (dial, serve, report, wait 2 s, retry), RunDemo, the session's callbacks, runStatsLogger |
| store | `internal/store/store.go` | the snapshot, an RWMutex | SetConnected, SetError, SetPort, IncPacket, ApplyRAW, Snapshot |
| signal table | `internal/model/band.go`, `signal.go`, `store.go` | none: pure functions | BandSlot, AppendSignal, TrackTypeName, orderSignals, normalizeAzimuth |
| HTTP server | `internal/server/server.go` | one handler goroutine per request | `/api/snapshot`, `/api/events`, `/api/connect`, `/api/disconnect`, `/api/demo`, `/api/config`, shutdown |
| page | `internal/server/web/app.js` | the snapshot shown, slip states, filters, stored choices | fetch, EventSource with retry, enrichSlipState, tables, sky plot |
| process | `cmd/trimble-rawdata-dashboard/main.go` | the signal context, the exit code | flags, start, Run, exit |
| preferences | `internal/prefs/connection.go` | a file, which outlives the process | LoadConnection, SaveConnection (truncate, then write) |
| verbose statistics | `internal/verbose/verbose.go` | ten atomic counters, one Logger per process | SessionConfig (wires the callbacks that count), Snapshot, LogStats |
| address validation | `internal/connvalidate` | none | BuildTCPURI, NormalizeTCPURI, HostIsNonPublic, ValidateBrowserTCP |
| version | `internal/version` | none | constants |

**How they interact.**  A request takes the manager's mutex, cancels the current
goroutine *without waiting for it*, changes the store's port and starts another
goroutine.  A goroutine, the callbacks of its session and the request itself all
follow one pattern: call a store operation, which returns a *copy* of the
snapshot, release the store's lock, then publish the copy.  Publish encodes it
and offers it to each subscriber's channel, dropping it where the channel is
full.  Each `/api/events` handler owns one channel; it subscribes, sends the store's snapshot and then forwards its channel until its client leaves.  A connect
request has its address checked, asks the manager, and then, without the mutex and even
if it was refused, saves its form in a file for the next start of the server.  While a
link is up, a goroutine of its own loads the counters that the callbacks of *every* link
add to, and writes a line.  The page
gets snapshots from an initial fetch, from the first event of a stream and from
the later ones.

**What is hard.**  Goroutines of earlier connections still write the store and
publish beside the current one.  Copies are published after the lock is released,
and share their satellite rows with the store.  Channels are closed while
publishers may be about to send to them.  Events are lost when a channel is full
or a stream breaks; fetch and stream are not ordered; an epoch is applied again
with each later event.  Shutdown waits for streams that have no reason to end.  Two
requests save the form at once, or the process ends between truncation and write.
Statistics are loaded one by one while callbacks count.
`PROJECT.json` lists these hazards at their lines with the properties about each.

**What makes each component correct.**

* hub: no panic; a subscriber gets each event once, in order, or its channel was
  full; nothing after Unsubscribe; nobody waits for a slow reader.
* manager and goroutines: one goroutine that is not cancelled, and it can be
  cancelled; what `/api/config` says is what runs; a fixed connection stays;
  failures are retried; cancelled goroutines return, after one more dial at most;
  browsers learn of a lost link.
* store: flags of the latest position on the rows of the latest survey; what is
  published is what ApplyRAW returned.
* signals: each block in the right column, once, the strongest, in display order, and
  where the label names a band, that of the column (section 5 lists where it does not).
* event stream: after the last change the page shows the store's snapshot, whoever
  published it, and whether or not those before it could be encoded.
* slips: no ring without a slip; one seen by its counter is counted once (one that the
  receiver flags is not, see section 5).
* process: it ends when told to, and reports success only if nobody was cut off.
* preferences: the next start offers the host and port last asked for.
* address validation: what was checked is what is dialled, however the address was
  given, and it has none of the addresses that the policy names.
* statistics: counters agree with each other, hints are true when they are raised, and
  no goroutine outlives its link.

## 2. Modules

| module | models | theorems |
|---|---|---|
| `Mailboxes` | what the hub promises: a bounded FIFO mailbox per subscriber | |
| `Hub` | the hub with its RWMutex, publishers and event-stream handlers | `HubProofs` |
| `Ingest` | the manager, Run, RunDemo, session callbacks, the connection fields of the store | `IngestProofs` |
| `Store` | ApplyRAW, mergePositionSVs, Snapshot and the encoding of shared rows | `StoreProofs` |
| `Signals` | from the blocks of a measurement to ordered columns | `SignalsProofs` |
| `EventStream` | two publishers, channel, handler, connection and one page | `EventStreamProofs` |
| `Slips` | enrichSlipState against a receiver's slip counters | `SlipsProofs` |
| `Lifecycle` | main, Server.Run, the listener and open requests | (in `ServiceProofs`) |
| `Targets` | the addresses a browser may give and how they are checked | (in `ServiceProofs`) |
| `Prefs` | the file with the connect form and the requests that save it | (in `ServiceProofs`) |
| `Service` | the composition of these three, from one start of the process to the next | `ServiceProofs` |
| `Stats` | the link statistics | `StatsProofs` |

Each `MC...` module gives the constants of one of them small values.

### Hub

A publisher is `Publish` (number an event, RLock), one `Send` per subscriber in
`todo`, in any order as Go's map ranges, and `Published` (RUnlock).  A handler is
`SubscribeLock`, `SubscribeInsert`, `Receive`, `Leave`, `UnsubscribeLock`,
`UnsubscribeDelete`, then `Close` *after* unlocking, as the code does.  `writer`
is the writer that has announced itself: from then on no publisher enters
(`ReaderMayEnter`), and `MayWrite` waits for those inside, as sync.RWMutex does;
`Unlock` lets in the publishers that waited.  `sent`, `seen`, `lost` and
`panicked` are history.  `Gapless` compares what a subscriber has and its channel holds
with what was sent, event by event.  An event json.Marshal rejects is a stuttering step.

`Mailboxes` has no lock, channel or publisher.  `ImplementsMailboxes` maps a
subscriber in `h.clients` to an open mailbox and one that was deleted to a shut
one, so it says that no event reaches a channel after its deletion.

### Ingest

`op` is where the request holding the manager's mutex is; `Connect`, `StartDemo`
and `Disconnect` start one, and each store call and publication that follows is
its own step (`DisconnectPort`, `DisconnectStore`, `DisconnectPublish`, `Spawn`).
`Runs` are goroutine slots, reused when a goroutine has returned; `live` are
those whose context is not cancelled and `cur` is the one the manager's cancel
function stops.  `pc` follows Run (`top`, `dial`, `opening`, `linkUp`, `announce`,
`linked`, `failed`, `report`, `backoff`) or RunDemo.  `held` and `cbHeld` are the
copies about to be published, so publications can be out of order.  `session`
says whether the session's callbacks may still run: after a cancellation a
callback in progress may outlive its goroutine (`"orphan"`).  `view` is what an
observer of every event saw last.  `Top` looks at the context and `Dial` calls conn.Open,
two steps between which a cancellation fits; `dialled` is history, the goroutines that
called it since they were cancelled.  Receiver data is left out.

### Store

`heap` holds RT27 views by address, because copies share them.  `ApplySurvey`
and `ApplyPosition` take the lock; the loop of mergePositionSVs is `ClearRow`
and `FlagRow` per row, since encoders read rows without the lock in between;
`ReturnSnapshot` releases it and leaves the goroutine with a copy to encode, one
`EncodeRow` per row.  A data race on a one-byte flag is an old or a new value.
`Fresh` is an address nobody points to, as the garbage collector guarantees.
UsedInSolution stands for three flags that are written together.

### Signals

`Block` is one turn of the loop over `meas.Blocks` (assignBand, BandSlot,
AppendSignal); `Order` is orderBandSignals.  The exchange sort, `Round` for each turn
of its outer loop and `Compare` for each of the inner one, is a pair of recursive
functions, not a library sort, because it is not stable.  `LabelBand` is the column of the
band or service that TrackTypeName's label names: signalCodeName first, then the system's
own table (galileoTrackName, glonassTrackName, sbasTrackName, mssTrackName), then the
labels of every system; "C/A", "P", "CBOC" and the like name none.  `LabelAgrees` compares
it with the column of BandSlot, and `Misnamed` lists where the two differ.

### EventStream

A snapshot is the version of the store it copies.  Each of `Publishers` changes the
store (`Change`) and publishes later what that returned (`Publish`), so that an older
copy can be published after a newer one.  `bad` are the versions with a number JSON
cannot express: Publish drops them, and the first event and the fetch answer nothing,
which the page ignores.  The handler goes from `joined` over `first` (snapshot taken, not
sent) to `serving`.  `wire` is the connection.  `Break` drops what a stream still held;
`Retry` is the page's timer.  The initial fetch is answered and applied at any time, or
fails.  `Excused` names, one by one, what may leave the page behind the store.

### Slips

The receiver's epochs change its counters (bytes that wrap or start again),
possibly set a slip flag, lose signals and move or set back the clock.  `Apply`
is enrichSlipState for one satellite, once or twice per epoch, because a
position event carries the same RT27 view again.  `rises` and `reported` are history: what
a slip may be counted for.  The definitions `Kept`, `Old`,
`Slipping`, `Counted`, `PrevCount` and `LastSlip` follow its local variables.  A
count of 0 is absent from the JSON (`omitempty`), which `PrevCount` keeps.

### Lifecycle

main and Run with the listening goroutine and connections that are idle, in a
request or in an event stream.  http.Server is external: Shutdown closes the
listener, then waits until no connection is active or its context expires.  `Kill` is
any end without warning.

### Targets

A text is the name in it, whether there are blanks around it and whether it has the
brackets of an IPv6 literal; a URI is a scheme, a text and a port.  What the network
would answer is a constant: `IP` for literals, `Localhost`, and `Resolver` for the kinds
of all addresses of a name; kinds are those isNonPublicIP names, the unspecified ones, and
"public" for the rest.  `Parsed` is what url.Parse makes of a name in a URI: most stay, the
zone of an IPv6 literal is decoded, and then does not parse again.  `Reparsed` is the
target after one more parse, as the check and the dial see it; where the check's parse
fails the handler panics (`Panic`).  The operators have the names of the functions.  Ports are
checked against the 16 bits the code allows.

### Prefs

`file` is a sequence of pieces of text.  `Truncate` is the open of os.WriteFile and
`Write` its write at the start of the file, so two saves that overlap leave the end of the
longer text behind the shorter one, which does not parse; `SaveFails` and `WriteFails` are
the errors that the handler only logs.

### Service

EXTENDS Lifecycle and Targets and instantiates Prefs.  A connection of Lifecycle that
carries a request has something `todo`: connect, stop (disconnect or demo) or nothing more.
`Connect` and `ConnectURI` are handleConnect up to the answer of the manager; the form is
left in `saving` whether the target was accepted or not, as in the code, and `Truncate` and
`Write` follow.  A handler that panics changes and saves nothing; net/http recovers and
closes its connection (`Respond`).  `Respond` needs the handler to be done, which ties SuccessCutsNobody to
the file.  `Live` is every step of the process's life; when it ends, what was in memory is
gone and the file stays as it is.  `Restart` is the next start, with flags of its own.
`asked`, `last` and `disturbed` are history.  The mutex of the manager is one step here;
its parts are in Ingest.

### Stats

`stage` is the callback a session is in: bytes, then frame by frame the frame, its packet
or the error, the count of its type, and what was in it.  Each count is one atomic Add, if
SessionConfig wired the callback at this `level`.  `Load` loads one counter of a line, in
the order of `Snapshot`; `Raised` are the hints that the values loaded so far raise.  Only
the lines of one connection (`Watched`) are followed, because lines change nothing;
`ticker` is there for each.  `LinkUp` starts the goroutine and `LinkEnds` cancels it; a
callback that has begun goes on.

## 3. Runs

Sizes are distinct states.

| run | checks | instance | states |
|---|---|---|---|
| `hub_clients` | TypeOK, NoPanic, ImplementsMailboxes, PublishReturns, UnsubscribeReturns | 2 publishers, 2 handlers, capacity 2 | 80 000 |
| `hub_order` | NoUnreportedGap | 2 publishers, 1 handler, capacity 2, numbers modulo 4 | 800 000 |
| `ingest_hosted` | TypeOK, OneLiveRun, ConfigMatchesRun, PortAgreement, OneDialAfterCancel | hosted, 2 goroutine slots, 1 receiver | 3.3 million |
| `ingest_live` | FixedRunStays, ErrorMeansDisconnected, RetriesForever, LinkLossShown, CancelledRunReturns | every way of starting, 1 slot, 2 receivers | 27 000 |
| `store_one` | TypeOK, FlagsOfLatestPosition, OneSurvey, PublishedExact | 1 ingest goroutine, 1 HTTP handler, 2 satellites, surveys of up to 3 rows, one satellite twice | 2.6 million |
| `signals_blocks` | TypeOK, ColumnsMakeSense, OneEntryPerSignal, StrongestKept, InDisplayOrder | 12 systems, 30 kinds of block, up to 3 blocks | 670 000 |
| `stream_page` | TypeOK, SettledShowsStore, PageCatchesUp | 2 publishers, 5 versions, channel of 2, 3 streams | 730 000 |
| `slips_rings` | TypeOK, NoRingWithoutSlip, EveryCountHasCause | 2 signals, 4 epochs of up to 2 snapshots, counters 0 to 2 | 7.7 million |
| `life_exit` | ServiceTypeOK, SuccessCutsNobody, SavedForNextRun, TargetAllowed, ExitsWhenTold | 2 connections, 2 starts, 7 names, 3 texts and 5 URIs | 920 000 |
| `link_stats` | TypeOK, Reconciles, NoFalseHint, LinesEndWithLink | 2 connections, levels off, info and debug, 2 chunks, 2 frames | 310 000 |
| `ingest_disconnect` | DisconnectStopsIngest is violated | 1 slot, 1 receiver | |
| `store_torn` | SnapshotThreadSafe is violated | 1 goroutine, 1 handler | |

**Why the bounds are enough.**

* Hub: two publishers can hold the read lock together and race for it with a
  writer; two handlers compete for the write lock, and one subscribes while a
  publisher ranges over the other.  A channel of two can be empty, partly full
  and full.  In `hub_order` numbers modulo 4 tell apart the two events a channel
  holds, the one being sent and the one before them; in `hub_clients` events are
  not numbered.  Slots are used again by `Reconnect`, so nothing bounds the
  number of streams or publications.
* Ingest: two slots are the current goroutine and one it replaced; a request that
  finds no free slot waits, which only delays it.  The receivers do not
  interact, so one suffices where ports are not compared with each other; two
  are there in `ingest_live`.  With a fixed connection there is only ever one
  goroutine.
* Store: three addresses are the store's view, the encoder's and a new one, and
  are interchangeable (SYMMETRY; no temporal property is checked there).  Two
  satellites suffice for "named" and "not named by the position", and a satellite
  measured on two antennas occurs.
* Signals: azimuths (all 65 536) and BandSlot (all bytes of block and track type
  for the ten systems it knows) are checked exhaustively in the initial states.  Three blocks are
  needed for the sort to have more than one round.
* EventStream: five versions overflow a channel of two with one of them on a
  connection of one and one as the first event; two publishers suffice for a copy that is
  overtaken; three streams are one that breaks, one that breaks again and the last.
* Service: two requests overlap in every way, also with one that was refused; two starts
  are the shortest history in which what one process left is read by the next.  The names
  are one with a public and an unspecified address, one with a public and a private
  address, "localhost", a unique local IPv6 literal in brackets (its text is the longer
  one), a link-local one with a zone, before and after it is decoded, and the empty one; the
  texts and URIs take each way through BuildTCPURI, NormalizeTCPURI and ValidateBrowserTCP.
* Stats: two frames in two chunks show each counter at 0, 1 and 2; two connections are the
  current one and one that was replaced.  Level trace wires the counters of debug.
* Slips: steps of 30 and 270 s give ages 30, 60, 90, 270, 300 and 330, on both sides
  of the limits 60 and 300 and at them; four epochs let a slip be ignored, counted, aged and
  forgotten; counters modulo 3 wrap within them.  One of the two signals may
  also have the slip flag.

These sizes matter for liveness alone: every invariant and every action property of
the passing runs is also a theorem (section 4) for any values of the constants.  There
the runs show that the cases occur and that the mutants are found.

Deadlock is checked wherever the system cannot stop: in the hub, in hosted
ingest and in the store.  Fixed ingest ends with the signal, the other runs at
their bounds or with the process.

**Fairness.**

* Hub: weak fairness for steps inside the hub, which only need the scheduler, and
  strong fairness for `UnsubscribeLock`, because other handlers take and release
  the same mutex meanwhile and sync.Mutex gives it to a goroutine that has
  waited for 1 ms.  Nothing makes a handler read or a client leave.
* Ingest: weak fairness for the steps of a goroutine and of main, which includes
  that dialling ends: it has a timeout and the session library is assumed to
  honour it.  Strong fairness for `Return`, because the select of the back-off
  chooses at random when timer and cancellation are both ready, and RunDemo's
  select likewise, so it cannot prefer the timer for ever.  Nothing makes a link
  fail, a receiver send or a request come.
* EventStream: weak fairness for the server's steps, the network's delivery and
  the retry timer.  Nothing makes a stream break.
* Service: weak fairness for Run, main and the listening goroutine; a context with a
  timeout expires.  No handler, signal, client or restart is made to come.
* Stats: weak fairness for a goroutine that writes a line; strong fairness for
  `TickerReturns`, because select chooses at random when ticker and cancellation are both
  ready.  Nothing makes a link come up, bring bytes or end.

Each property of a passing run has a mutant in `PROJECT.json`: an operator named
`Mutant` in its comment stands for a plausible mistake in the code, which TLC
then finds with that property.

## 4. What is proved

Every invariant and every action property of the passing runs, for any sets of
publishers, handlers, goroutines, receivers, satellites, connections and names and any
capacities and limits.  The only assumptions are those named in the modules, which TLC
evaluates in the runs:

* `HubAssumption`: capacity and modulus are positive and None is no handler.
* `IngestAssumption`: the empty port is no receiver, None is no goroutine.
* `StoreAssumption`: nobody is ingest goroutine and handler at once, surveys consist of
  satellites, None is no address and no goroutine.
* `SignalsAssumption`: types are bytes, signal strengths are natural numbers.
* `EventStreamAssumption`: both capacities, the versions and the streams are at least one.
* `SlipsAssumption`: there is a signal and an epoch, None is no time.
* `TargetsAssumption` and `ServiceAssumption`: the tables of names are well typed and url.Parse
  makes no name empty, a text has at least one piece, and the values that stand for "none"
  are not forms, files or targets.
* `StatsAssumption`: levels are 0 to 3, and the connection whose lines are followed exists.

`HubProofs`

* `HubTypeCorrect`, `HubNeverPanics`: no interleaving of Publish, Subscribe and
  Unsubscribe sends on a closed channel or closes one twice.
* `HubRefinesMailboxes`: `Spec => Mailbox!Spec`.

NoPanic is not inductive: it must be known that a publisher inside the lock only
has open channels of registered clients left in `todo`.  `HubInvariant` adds that
registered channels are open, that while a publisher is sending no writer is
between lock and unlock, that `todo` of a sending publisher is contained in
`clients`, and that the channel of a handler about to close is open and not
registered.  The key step is that `UnsubscribeDelete` needs the write lock, which
no sender lets it have; closing after unlocking is then harmless because the
channel has left every `todo`.

* `NoGapUnreported` (NoUnreportedGap): a subscriber misses no event of a publisher, and
  sees none twice or out of order, unless its full channel dropped one.

With HubInvariant the property is inductive.  `Reached` is the latest number of a
publisher that got to some place on the subscriber's way, and `Gapless` says that each
step from there to the channel's end, and to the publisher itself, is the next number.
Send appends exactly the number that follows (`SentGapless`), receiving moves the
boundary and leaves the rest (`ReceivedGapless`), a new subscriber starts at the latest
number (`InsertedGapless`), and a new one is in flight to everybody (`PublishGapless`).

`IngestProofs`

* `TypeCorrect`; `AtMostOneLiveRun` (OneLiveRun), `ConfigTruthful`
  (ConfigMatchesRun), `PortsAgree` (PortAgreement), `FixedIsFixed`
  (FixedRunStays), `NoErrorWhileConnected` (ErrorMeansDisconnected),
  `CancelledDialsOnce` (OneDialAfterCancel).

They follow from the inductive `IInv`: OneLiveRun with `PortInv` (how far the
store's port may lag behind the manager's at each stage of a request), `RunInv`
(a live goroutine is of the manager's kind and dials its port, also between
stages), `FixedInv` (a fixed connection is the one running, or about to be) and
`ErrorInv` (with a fixed port every copy waiting to be published, wherever it is
held, is free of the contradiction).  ErrorInv is needed because copies are
published long after they were taken; it does *not* say this of the store, where
it is false.  `DialInv` says that a goroutine that dialled after its cancellation is neither
live nor about to dial.  `Inductive` has one lemma per part and groups the goroutines' steps
by what they leave alone (`GoroutineFrame`, `GoroutineControl`).

`ServiceProofs`

* `SuccessIsClean` (SuccessCutsNobody), `OnlyAllowedTargets` (TargetAllowed),
  `FormSurvives` (SavedForNextRun), for any numbers of connections, names and starts.

SuccessCutsNobody follows from `LifeInv`, an invariant of Lifecycle alone: Run returns
"context canceled" only from a shutdown that found nobody active, and nobody is accepted
afterwards, because the listener was closed first.  `StepOfLife` shows that every step of
Service is one of Lifecycle, a stutter or a restart, so LifeInv carries over
(`LifeAlways`).  TargetAllowed is inductive once ValidateChecks says what an accepted
target satisfies (`Checked`) and BrowserTarget and PortStep take it through the request:
what is looked at is the parse of the normalized URI, as at the dial (`ReparsedTyped`), and
`PublicOnly` that every address of a name that passes was looked at.
SavedForNextRun needs `SaveInv`: a request that is about to save carries a form that leads
to what it `asked` for (`FormLeads`, `FormOfURILeads`, which is where brackets, blanks and
the detour through a URI come in), a file opened without disturbance is empty and has one
writer, and what it writes is what LoadConnection reads (`WrittenIsRead`).  That an exit
with success cuts no write off is LifeInv again.  `ServiceTypes` (ServiceTypeOK) needs
all three and `RestInv` for what they do not mention: the file stays a sequence of pieces
of text however two writes overlap (`OverwriteTyped`).

`StoreProofs`

* `StoreInvariant`, `StoreTypes` (TypeOK); `FlagsAreLatest` (FlagsOfLatestPosition),
  `CopiesAreOneSurvey` (OneSurvey), `PublishedIsExact` (PublishedExact).

`StoreInv` has `LockInv` (whoever holds the lock has no copy left to encode, and merges
whenever there is something to merge), `MergeInv` (the rows behind the writer have the
flags of the latest position, the one it is at was reset first) and `SharedInv` (a copy
and the view it points to are of one survey).  SharedInv is why a torn snapshot
(`store_torn`) is never wrong about more than a flag: a merge never renames a row, and a
survey is put at an address nobody points to.  PublishedExact follows for one ingest
goroutine, because it encodes its copy before it takes the lock again.

`EventStreamProofs`

* `EventStreamInvariant`, `EventStreamTypes` (TypeOK), `PageShowsStore`
  (SettledShowsStore).

A snapshot goes from a publisher's hand through the channel, the handler and the
connection to the page.  SettledShowsStore speaks of the end of that way when it is
empty; `NewestInv` speaks of all of it: the newest snapshot on it is the store's, or one
of the excuses holds.  `HeldInv` is what a publication needs: unless the latest change
was raced, nobody holds an older copy.  `NewestStays` says that taking the oldest event
out of a queue leaves its newest where it was.

`SlipsProofs`

* `SlipsInvariant`, `SlipsTypes` (TypeOK), `RingsAreJustified` (NoRingWithoutSlip),
  `SlipCountBounded` (EveryCountHasCause).

The page compares a counter with the one it saw last.  `RiseInv` says that a counter is
above it only in the epoch in which it went up and before the page has applied that
epoch, so that a second delivery of the epoch finds nothing; `DateInv` that every date is
one of the receiver's slips unless the clock was set back; `CountInv` that what was
counted, with what the next snapshot may add, has happened.

`SignalsProofs`

* `SignalsInvariant`, `SignalsTypes` (TypeOK); `ColumnsAndLabels`
  (ColumnsMakeSense), `OneEntry` (OneEntryPerSignal), `StrongestIsKept` (StrongestKept),
  `Displayed` (InDisplayOrder).

For every byte of block and track type, and any number of blocks. ColumnsMakeSense
compares the two tables of the code, label by label: those of signalCodeName
(`CodesAgree`), of a system's own table (`OwnLabelsAgree`) and of every system
(`TrackLabelsAgree`), with no state involved. OneEntryPerSignal and StrongestKept are what AppendSignal
maintains (`AppendKeeps`), in the column that every system's codes have
(`KnownHaveBands`). That the exchange sort sorts, and loses or doubles nothing, is
`OrderSorts`: each comparison leaves the least of the entries scanned so far in front
(`CompareScans`), so a turn of the outer loop exchanges entries and puts the least of
the rest in its place (`ScanReorders`), and what lies before it stays in order
(`RoundPasses`). Induction over the loops is first-order: of the turns after which the
claim fails there would be a least one (`SetInduction`, `IntervalInduction`), and
`Iterates` shows that the function defined by recursion exists.

`StatsProofs`

* `StatsInvariant`, `StatsTypes` (TypeOK), `CountersReconcile` (Reconciles),
  `HintsAreTrue` (NoFalseHint).

A callback adds to one counter at a time, so while some are running the sums are short of
exactly the sessions that are between two Adds.  `PacketsInv`, `PagesInv` and `FramesInv`
count those (`Under`), for any number of connections that overlap.  NoFalseHint is an
action property that follows from `LineInv`: a counter that a line loaded as positive
never falls back to zero.

**Only model-checked.**  Liveness under fairness, which the prover cannot do:
PublishReturns, UnsubscribeReturns, RetriesForever, LinkLossShown, CancelledRunReturns,
PageCatchesUp, ExitsWhenTold and LinesEndWithLink.  What the runs `ingest_disconnect` and
`store_torn` show are counterexamples.

## 5. Where code and documentation differ

Shown by runs:

* **Disconnect does not stop ingest at once** (`ingest_disconnect`).
  `README.md:106` says "stop ingest", but Disconnect does not wait.  A demo that was
  started and has not run yet makes its first SetConnected(true) (`ingest.go:114`) after
  Disconnect has cleared Connected and published it, and nothing clears it again.  That is
  the counterexample; Run has the same window between a successful conn.Open and
  `ingest.go:75`.
* **A snapshot is not thread-safe** (`store_torn`).  `store.go:14` says it is;
  the copy shares its RT27View, whose flags the next position rewrites while a
  handler encodes them.  In the counterexample a row has a flag newer than the snapshot
  it is sent with.

Seen while modelling, without a run of their own:

* Shutdown with a page open is not graceful, although `server.go:42` says "shuts down
  gracefully": it waits for event streams, which do not watch the context, so it expires
  after 5 s and the process exits with 1 (`ShutdownExpires` in Lifecycle).
* A `Stats` is "a point-in-time summary" (`verbose.go:79`), but its counters are loaded one
  by one.  The hints about missing frames and messages are true all the same
  (NoFalseHint), because the counter that must be zero is loaded last.  The hint about GSOF
  loads it first (`verbose.go:98`), so a first page of each kind between two loads raises it
  falsely: NoFalseHint leaves that hint out.
* One Logger counts for all links: a line names one port and shows the sum over every
  receiver since the start, so once one has sent frames, pages and messages the hints are silent for all.
* Two connect requests that save at the same moment can leave a file that does not
  parse; the next start then offers nothing, until a later save (`disturbed` in Service).
  A form is saved although its connection was refused (`server.go:129`).
* Labels and columns come from two tables, and differ where `Misnamed` says
  (ColumnsMakeSense shows: only there).  A block L1 or S1 of Terralite with track type 35 is
  labelled XPS and shown in the L1 column (`signal.go:224`).  L2C codes (track types 3 and 4)
  are labelled L2CM and L2CL whatever their block (`signal.go:123`) and shown in that
  block's column.  So are the labels that no table of the system gives (`signal.go:57`):
  L5-I on a block L1 of GPS is in the L1 column.
* The limits of slip levels are inclusive (`app.js:196`): a slip of exactly 60 or 300
  seconds is shown as "< 60 s" or "< 300 s" (`index.html:48`, `app.js:209`).
  NoRingWithoutSlip admits these two ages by name (`AtLimit`).
* A slip that the receiver flags is counted again with every snapshot of its epoch
  (`app.js:203`, `:254`), because the flag is not compared with anything; a position event
  carries the same epoch again, so one slip can count twice.  EveryCountHasCause bounds the
  count by the counter's rises and the snapshots with the flag.
* A connect request for an IPv6 literal with a zone, such as `[fe80::1%25eth0]:5017`, is
  decoded by the first parse and does not parse again; the error is ignored
  (`validate.go:116`) and the handler panics on a nil URL.  Nothing is changed or saved, and
  net/http closes the connection.  With `-allow-local-hosts` the target is taken and every
  dial of it fails to parse.
* "Public hosts only by default" (`README.md:12`): isNonPublicIP names loopback, private,
  link-local and unique local addresses.  The unspecified ones, 0.0.0.0 and ::, which the
  system dials as this host, are neither public nor refused (`validate.go:93`);
  TargetAllowed says that they are the only exception among the kinds the model has.
* A snapshot without an RT27 view leaves the rows of an earlier one on the page
  (`app.js:889`), which happens when the server is started again under an open page.
* Run clears Connected only in the copy it publishes (`ingest.go:35`); while the
  goroutine waits to dial again, `GET /api/snapshot` and the first event of a
  new stream say connected.  `ErrorMeansDisconnected` is therefore stated of
  published events.
* `store.go:144` and `store.go:132` say C/A before P; `signalOrder`
  (`store.go:173`) says and does the opposite, and InDisplayOrder follows it.  `store.go:144`
  also calls the sort stable: the exchange sort is not, so InDisplayOrder does not
  constrain signals that no rule orders.
* A slip found by its counter is shown as "This epoch", and as "< 60 s" when the
  same epoch is applied again (`app.js:258`; legend in `index.html:47`); and the
  slip that was ignored as a satellite's first is counted then if it has the
  flag (`app.js:252`).
* A demo started after a failed connection shows that connection's error for
  ever (`ingest.go:115`).

## 6. Not modelled

* Table filters and the sky plot: state of one page that nothing else reads (filter
  modes, the antenna filter and its stored choice), and drawing.
* Version: constants.  Layout and styling: static.  Build scripts: tooling.
* What the resolver answers may change between the check of a name and the dial; Targets
  has it as a constant.
* The receiver library (`geoffrey-kirk-go-dcol`) is not part of the repository;
  Ingest models its session, connection and callbacks from their use.  Stats assumes the
  order in which a session calls back (bytes, frame, packet, what is in it), and the parts
  of Reconciles and NoFalseHint about frames and pages rest on that order.
* A machine that stops after `Write`: nothing in the code syncs the file to the disk, and
  `Kill` keeps what was written.
* A position without satellites, which leaves flags as they are (`store.go:282`): the
  properties of Store speak of positions that name satellites.
* Within modelled parts: the store's packet counters, UpdatedAt, antenna lists, position
  numbers (EventStream only has that some cannot be encoded), the wording of labels, hints, the augmentation's name, the slip mask and the worst band of a row, and
  events lost between a receiver's epochs and the page (EventStream has losses,
  Slips sees every epoch).

## 7. Plan

Done, in this order: Mailboxes and Hub with their proofs; Ingest with its proofs;
Store; Signals; EventStream; Slips; Lifecycle; then Stats; Targets, Prefs and Service
with their proofs; two publishers and unencodable snapshots in EventStream; labels in
Signals; the step from the check of the context to the dial in Ingest, and second parses in
Targets.

Then the proofs: NoUnreportedGap in the hub, Stats, Store, EventStream, Slips, Signals
with the exchange sort, and the types of Service, so that every safety property the runs
check is a theorem.

Next:

1. What a component promises, as an abstract specification that a theorem shows it to
   implement, as for the hub: the event stream as a register of the newest snapshot, the
   link statistics as counts that are exact whenever no callback runs.
2. `Filters`: the antenna filter, its stored choice and the merge of two antennas' slip
   states into a row of the table (skyDisplayRows).

Runs stay one per question: a new module comes with one passing run, and runs
that ask about the same instance are merged.
