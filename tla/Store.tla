-------------------------------- MODULE Store --------------------------------
(***************************************************************************)
(* The snapshot store (internal/store/store.go): ApplyRAW builds views from *)
(* receiver messages and merges the position's flags into the satellites'   *)
(* rows; Snapshot and ApplyRAW return copies of the snapshot.               *)
(*                                                                          *)
(* A copy shares its RT27View with the store.  A goroutine encodes its copy *)
(* after the lock is released, row by row, while the next ApplyRAW of a     *)
(* position rewrites the flags of the same rows: the heap of views is       *)
(* modelled, and every write and every read of a row is a step.  (The Go    *)
(* memory model calls this a data race; a flag is one byte, so a read finds *)
(* the old or the new value.)                                               *)
(*                                                                          *)
(* UsedInSolution stands for the three flags, which are written in the same *)
(* places.  The counters and UpdatedAt, which every call changes, and the   *)
(* fields no call reads again are left out; the connection fields are in    *)
(* module Ingest.                                                           *)
(***************************************************************************)
EXTENDS Naturals, Sequences

CONSTANTS
  Writers,    \* goroutines that call ApplyRAW: session callbacks, demo loops
  Readers,    \* goroutines that call Snapshot: HTTP handlers
  Svs,        \* satellites, as svKey names them
  Surveys,    \* RT27 messages: the satellite of each measurement, in order
  Views,      \* addresses of RT27Views
  None        \* nil

ASSUME StoreAssumption ==
  /\ Writers \cap Readers = {}
  /\ Surveys \subseteq Seq(Svs)
  /\ None \notin Views /\ None \notin Writers

VARIABLES
  lock,       \* the goroutine that holds s.mu for writing
  rt27,       \* s.snap.RT27: an address
  position,   \* s.snap.Position: each of its satellites' UsedInSolution
  heap,       \* the rows at each address
  next,       \* the row the writer in mergePositionSVs is at
  cleared,    \* it has reset that row's flags
  view,       \* the address in the copy each goroutine encodes
  asked,      \* history: the rows when the copy was returned
  out         \* the rows encoded so far

vars == <<lock, rt27, position, heap, next, cleared, view, asked, out>>

Goroutines == Writers \cup Readers
Row == [sv : Svs, used : BOOLEAN]
Position == UNION {[S -> BOOLEAN] : S \in SUBSET Svs}
NoPosition == <<>>    \* nil and a position without satellites are treated alike

Init ==
  /\ lock = None /\ rt27 = None /\ position = NoPosition
  /\ heap = [v \in Views |-> <<>>]
  /\ next = 0 /\ cleared = FALSE
  /\ view = [g \in Goroutines |-> None]
  /\ asked = [g \in Goroutines |-> <<>>]
  /\ out = [g \in Goroutines |-> <<>>]

-----------------------------------------------------------------------------

Idle(g) == view[g] = None

\* Mutant: PublishSnapshot is started with go, so the next message may come first.
StillEncoding(g) == TRUE

\* The callback's last call, PublishSnapshot, has encoded its copy.
MayApply(g) == Idle(g)

\* Mutant: the view is filled in place.
SameAddress == IF rt27 # None THEN {rt27} ELSE Views

\* Addresses the runtime may give to a new view: nobody points to them.
Fresh == Views \ ({rt27} \cup {view[g] : g \in Goroutines})

\* rt27View: a row per measurement, no flag set
Rows(m) == [i \in 1 .. Len(m) |-> [sv |-> m[i], used |-> FALSE]]

\* Mutant: rt27 == nil is not tested, and its rows are dereferenced.
MergeNil(v, p) == IF p = NoPosition THEN 0 ELSE 1

\* The first row of mergePositionSVs; 0 when it returns at once.
MergeStart(v, p) == IF v = None \/ p = NoPosition THEN 0 ELSE 1

\* ApplyRAW of an RT27Survey
ApplySurvey(w, m) ==
  /\ lock = None /\ MayApply(w)
  /\ lock' = w
  /\ \E v \in Fresh :
       /\ rt27' = v
       /\ heap' = [heap EXCEPT ![v] = Rows(m)]
       /\ next' = MergeStart(v, position)
  /\ cleared' = FALSE
  /\ UNCHANGED <<position, view, asked, out>>

\* ApplyRAW of an EnhancedPosition
ApplyPosition(w, p) ==
  /\ lock = None /\ MayApply(w)
  /\ lock' = w
  /\ position' = p
  /\ next' = MergeStart(rt27, p)
  /\ cleared' = FALSE
  /\ UNCHANGED <<rt27, heap, view, asked, out>>

Merging == rt27 # None /\ next \in 1 .. Len(heap[rt27])

\* Mutant: flags are not reset before the lookup.
NoReset == heap

Reset == [heap EXCEPT ![rt27][next].used = FALSE]

\* row.UsedInSolution = false, ...
ClearRow(w) ==
  /\ lock = w /\ Merging /\ ~cleared
  /\ heap' = Reset
  /\ cleared' = TRUE
  /\ UNCHANGED <<lock, rt27, position, next, view, asked, out>>

\* if psv, ok := lookup[...]: row.UsedInSolution = psv.UsedInSolution, ...
FlagRow(w) ==
  /\ lock = w /\ Merging /\ cleared
  /\ LET sv == heap[rt27][next].sv
     IN heap' = IF sv \in DOMAIN position
                THEN [heap EXCEPT ![rt27][next].used = position[sv]]
                ELSE heap
  /\ next' = next + 1
  /\ cleared' = FALSE
  /\ UNCHANGED <<lock, rt27, position, view, asked, out>>

\* The copy g is given.
Take(g) ==
  /\ view' = [view EXCEPT ![g] = rt27]
  /\ asked' = [asked EXCEPT ![g] = IF rt27 = None THEN <<>> ELSE heap[rt27]]
  /\ out' = [out EXCEPT ![g] = <<>>]

\* return s.snap; s.mu.Unlock()
ReturnSnapshot(w) ==
  /\ lock = w /\ ~Merging
  /\ Take(w)
  /\ lock' = None /\ next' = 0
  /\ UNCHANGED <<rt27, position, heap, cleared>>

\* Snapshot, in handleSnapshot and at the start of handleEvents
Snapshot(g) ==
  /\ lock = None /\ Idle(g)
  /\ Take(g)
  /\ UNCHANGED <<lock, rt27, position, heap, next, cleared>>

\* json.Marshal of one more row, in Publish or in a handler
EncodeRow(g) ==
  /\ view[g] # None
  /\ Len(out[g]) < Len(heap[view[g]])
  /\ out' = [out EXCEPT ![g] = Append(@, heap[view[g]][Len(@) + 1])]
  /\ UNCHANGED <<lock, rt27, position, heap, next, cleared, view, asked>>

\* The copy is encoded and dropped.
Encoded(g) ==
  /\ view[g] # None
  /\ Len(out[g]) >= Len(heap[view[g]])
  /\ view' = [view EXCEPT ![g] = None]
  /\ out' = [out EXCEPT ![g] = <<>>]
  /\ asked' = [asked EXCEPT ![g] = <<>>]
  /\ UNCHANGED <<lock, rt27, position, heap, next, cleared>>

Writer(w) ==
  \/ \E m \in Surveys : ApplySurvey(w, m)
  \/ \E p \in Position : ApplyPosition(w, p)
  \/ ClearRow(w) \/ FlagRow(w) \/ ReturnSnapshot(w)

Next ==
  \/ \E w \in Writers : Writer(w)
  \/ \E g \in Readers : Snapshot(g)
  \/ \E g \in Goroutines : EncodeRow(g) \/ Encoded(g)

Spec == Init /\ [][Next]_vars

-----------------------------------------------------------------------------
(* Properties.                                                              *)

\* Types; rows are visited under the lock, and only those of a view that exists.
TypeOK ==
  /\ lock \in Writers \cup {None}
  /\ rt27 \in Views \cup {None}
  /\ position \in Position
  /\ heap \in [Views -> Seq(Row)]
  /\ next \in Nat /\ cleared \in BOOLEAN
  /\ next # 0 => lock # None /\ rt27 # None
  /\ view \in [Goroutines -> Views \cup {None}]
  /\ asked \in [Goroutines -> Seq(Row)]
  /\ out \in [Goroutines -> Seq(Row)]

(***************************************************************************)
(* Whenever nobody holds the lock, in whatever order surveys and positions  *)
(* arrived, the flags of the satellites' rows are those of the latest       *)
(* position: not of an earlier one, and none for a satellite it does not    *)
(* name.  (A position without satellites says nothing about flags.)         *)
(***************************************************************************)
FlagsOfLatestPosition ==
  lock = None /\ rt27 # None /\ position # NoPosition =>
    \A i \in 1 .. Len(heap[rt27]) :
      LET row == heap[rt27][i]
      IN row.used = (row.sv \in DOMAIN position /\ position[row.sv])

(***************************************************************************)
(* Whatever is merged meanwhile, a goroutine that encodes a copy encodes    *)
(* the satellites of one survey, the one it was given: a new survey gets a  *)
(* view of its own.                                                         *)
(***************************************************************************)
OneSurvey ==
  \A g \in Goroutines :
    /\ Len(out[g]) <= Len(asked[g])
    /\ \A i \in 1 .. Len(out[g]) : out[g][i].sv = asked[g][i].sv

(***************************************************************************)
(* With one goroutine applying messages, the event it publishes after each  *)
(* is exactly the snapshot ApplyRAW returned, although it is encoded after  *)
(* the lock is released.                                                    *)
(***************************************************************************)
PublishedExact ==
  \A w \in Writers : Writers = {w} /\ view[w] # None => heap[view[w]] = asked[w]

(***************************************************************************)
(* "Store holds the latest dashboard snapshot (thread-safe)"                *)
(* (store.go:14): the rows a goroutine encodes are those of the snapshot it *)
(* was given.  The code breaks it: the copy shares its rows with the store. *)
(***************************************************************************)
SnapshotThreadSafe ==
  \A g \in Goroutines : \A i \in 1 .. Len(out[g]) : out[g][i] = asked[g][i]
=============================================================================
