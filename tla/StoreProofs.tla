------------------------------ MODULE StoreProofs ------------------------------
(***************************************************************************)
(* Proofs about Store with any number of goroutines, satellites and         *)
(* measurements.  A writer visits the rows of the view with the lock held,  *)
(* and its own copy is encoded by then, which is what one writer's events   *)
(* rest on; every other copy shares only satellites that no merge renames,  *)
(* since a survey always gets a view nobody else points to.                 *)
(***************************************************************************)
EXTENDS Store, SequenceTheorems, TLAPS

\* The row's flag is what the latest position says of its satellite.
Flagged(i) ==
  heap[rt27][i].used =
    (heap[rt27][i].sv \in DOMAIN position /\ position[heap[rt27][i].sv])

\* The writer holds no copy, and merges whenever there is something to merge.
LockInv ==
  /\ lock = None => next = 0
  /\ lock # None => view[lock] = None
  /\ lock # None /\ rt27 # None /\ position # NoPosition => next # 0

\* Rows behind the writer have their flags, and the one it is at was reset first.
MergeInv ==
  rt27 # None /\ position # NoPosition =>
    \A i \in 1 .. Len(heap[rt27]) :
      /\ lock = None \/ i < next => Flagged(i)
      /\ i = next /\ cleared => ~heap[rt27][i].used

\* The rows a copy points to are those of the survey it was made of.
SharedInv ==
  \A g \in Goroutines : view[g] # None =>
    /\ Len(asked[g]) = Len(heap[view[g]])
    /\ \A i \in 1 .. Len(asked[g]) : asked[g][i].sv = heap[view[g]][i].sv

StoreInv ==
  TypeOK /\ LockInv /\ MergeInv /\ SharedInv /\ OneSurvey /\ PublishedExact

-----------------------------------------------------------------------------
(* What the operators of the model do.                                      *)

LEMMA NoPositionType == NoPosition \in Position
<1>1. <<>> \in [{} -> BOOLEAN]
  OBVIOUS
<1> QED BY <1>1 DEF NoPosition, Position

LEMMA RowsType ==
  ASSUME NEW m \in Surveys
  PROVE  Rows(m) \in Seq(Row)
<1>1. m \in Seq(Svs)
  BY StoreAssumption DEF StoreAssumption
<1>2. Len(m) \in Nat /\ \A i \in 1 .. Len(m) : m[i] \in Svs
  BY <1>1
<1>3. \A i \in 1 .. Len(m) : [sv |-> m[i], used |-> FALSE] \in Row
  BY <1>2 DEF Row
<1> QED BY <1>2, <1>3 DEF Rows

\* A flag that is written changes nothing else of the rows, and no other view.
LEMMA RowWritten ==
  ASSUME TypeOK, Merging, NEW x \in BOOLEAN, heap' = [heap EXCEPT ![rt27][next].used = x]
  PROVE  /\ heap' \in [Views -> Seq(Row)]
         /\ \A v \in Views : v # rt27 => heap'[v] = heap[v]
         /\ \A v \in Views :
              /\ Len(heap'[v]) = Len(heap[v])
              /\ \A i \in 1 .. Len(heap[v]) : heap'[v][i].sv = heap[v][i].sv
         /\ \A i \in 1 .. Len(heap[rt27]) : i # next => heap'[rt27][i] = heap[rt27][i]
         /\ heap'[rt27][next].used = x
<1> DEFINE s == heap[rt27]
           r == [s[next] EXCEPT !.used = x]
           t == [s EXCEPT ![next] = r]
<1>1. rt27 \in Views /\ s \in Seq(Row) /\ next \in 1 .. Len(s)
  BY DEF TypeOK, Merging
<1>2. s[next] \in Row
  BY <1>1
<1>3. r \in Row /\ r.sv = s[next].sv /\ r.used = x
  BY <1>2 DEF Row
<1>4. heap' = [heap EXCEPT ![rt27] = t]
  OBVIOUS
<1> HIDE DEF r
<1>5. /\ t \in Seq(Row) /\ Len(t) = Len(s)
      /\ \A j \in 1 .. Len(s) : t[j] = IF j = next THEN r ELSE s[j]
  BY <1>1, <1>3, ExceptSeq
<1> HIDE DEF t
<1>6. heap \in [Views -> Seq(Row)]
  BY DEF TypeOK
<1>7. heap'[rt27] = t /\ \A v \in Views : v # rt27 => heap'[v] = heap[v]
  BY <1>1, <1>4, <1>6
<1>8. heap' \in [Views -> Seq(Row)]
  BY <1>1, <1>4, <1>5, <1>6
<1>9. ASSUME NEW v \in Views
      PROVE  /\ Len(heap'[v]) = Len(heap[v])
             /\ \A i \in 1 .. Len(heap[v]) : heap'[v][i].sv = heap[v][i].sv
  BY <1>1, <1>3, <1>5, <1>7
<1> QED BY <1>1, <1>3, <1>5, <1>7, <1>8, <1>9

-----------------------------------------------------------------------------
(* ApplyRAW.                                                                *)

\* A new view: nothing that was handed out points to it.
LEMMA SurveyStep ==
  ASSUME StoreInv, NEW w \in Writers, NEW m \in Surveys, ApplySurvey(w, m)
  PROVE  StoreInv'
<1> USE DEF StoreInv
<1>1. PICK v \in Fresh :
        /\ rt27' = v
        /\ heap' = [heap EXCEPT ![v] = Rows(m)]
        /\ next' = MergeStart(v, position)
  BY DEF ApplySurvey
<1>2. v \in Views /\ v # None /\ \A g \in Goroutines : view[g] # v
  BY StoreAssumption DEF Fresh, StoreAssumption
<1>3. UNCHANGED <<position, view, asked, out>> /\ lock' = w /\ cleared' = FALSE /\ w # None
  BY StoreAssumption DEF ApplySurvey, StoreAssumption
<1>4. TypeOK'
  BY <1>1, <1>2, <1>3, RowsType DEF TypeOK, MergeStart
<1>5. LockInv'
  BY <1>1, <1>2, <1>3 DEF LockInv, MergeStart, ApplySurvey, MayApply, Idle
<1>6. MergeInv'
  BY <1>1, <1>2, <1>3 DEF MergeInv, MergeStart
<1>7. \A g \in Goroutines : view[g] # None => heap'[view[g]] = heap[view[g]]
  BY <1>1, <1>2 DEF TypeOK
<1>8. SharedInv' /\ OneSurvey'
  BY <1>3, <1>7 DEF SharedInv, OneSurvey
<1>9. PublishedExact'
  BY <1>3, <1>7 DEF PublishedExact, Goroutines
<1> QED BY <1>4, <1>5, <1>6, <1>8, <1>9

LEMMA PositionStep ==
  ASSUME StoreInv, NEW w \in Writers, NEW p \in Position, ApplyPosition(w, p)
  PROVE  StoreInv'
<1> USE DEF StoreInv, ApplyPosition
<1>1. w # None
  BY StoreAssumption DEF StoreAssumption
<1>2. TypeOK'
  BY <1>1 DEF TypeOK, MergeStart
<1>3. LockInv'
  BY <1>1 DEF LockInv, MergeStart, MayApply, Idle
<1>4. MergeInv'
  BY <1>1 DEF MergeInv, MergeStart
<1>5. SharedInv' /\ OneSurvey' /\ PublishedExact'
  BY DEF SharedInv, OneSurvey, PublishedExact
<1> QED BY <1>2, <1>3, <1>4, <1>5

\* Writing a flag leaves the satellites of every copy as they are, and the only
\* writer there may be has no copy.
LEMMA FlagWritten ==
  ASSUME StoreInv, NEW w \in Writers, lock = w, Merging, NEW x \in BOOLEAN,
         heap' = [heap EXCEPT ![rt27][next].used = x], UNCHANGED <<view, asked, out>>
  PROVE  SharedInv' /\ OneSurvey' /\ PublishedExact'
<1> USE DEF StoreInv
<1>1. SharedInv'
  BY RowWritten DEF SharedInv, TypeOK
<1>2. OneSurvey'
  BY DEF OneSurvey
<1>3. PublishedExact'
  <2> SUFFICES ASSUME NEW v \in Writers, Writers = {v}, view[v] # None PROVE FALSE
    BY DEF PublishedExact
  <2>1. v = w /\ lock # None
    BY StoreAssumption DEF StoreAssumption
  <2> QED BY <2>1 DEF LockInv
<1> QED BY <1>1, <1>2, <1>3

\* mergePositionSVs goes through the rows.
LEMMA MergeStep ==
  ASSUME StoreInv, NEW w \in Writers, ClearRow(w) \/ FlagRow(w)
  PROVE  StoreInv'
<1> USE DEF StoreInv
<1>1. lock = w /\ Merging /\ UNCHANGED <<lock, rt27, position, view, asked, out>>
  BY DEF ClearRow, FlagRow
<1>2. /\ rt27 \in Views /\ next \in 1 .. Len(heap[rt27]) /\ next \in Nat
      /\ w # None /\ rt27 # None /\ next + 1 \in Nat
  BY <1>1, StoreAssumption DEF TypeOK, Merging, StoreAssumption
<1>3. CASE ClearRow(w)
  <2>1. heap' = [heap EXCEPT ![rt27][next].used = FALSE] /\ next' = next /\ cleared' = TRUE
    BY <1>3 DEF ClearRow, Reset
  <2>2. /\ heap' \in [Views -> Seq(Row)]
        /\ Len(heap'[rt27]) = Len(heap[rt27])
        /\ \A i \in 1 .. Len(heap[rt27]) : i # next => heap'[rt27][i] = heap[rt27][i]
        /\ ~heap'[rt27][next].used
    BY <1>1, <1>2, <2>1, RowWritten
  <2>3. TypeOK'
    BY <1>1, <2>1, <2>2 DEF TypeOK
  <2>4. LockInv'
    BY <1>1, <2>1 DEF LockInv
  <2>5. MergeInv'
    <3> SUFFICES ASSUME position # NoPosition, NEW i \in 1 .. Len(heap[rt27])
                 PROVE  /\ i < next => Flagged(i)'
                        /\ i = next => ~heap'[rt27][i].used
      BY <1>1, <1>2, <2>1, <2>2 DEF MergeInv
    <3>1. CASE i = next
      BY <1>2, <2>2, <3>1
    <3>2. CASE i # next
      <4>1. i < next => Flagged(i)
        BY <1>1, <1>2 DEF MergeInv
      <4> QED BY <1>1, <2>2, <3>2, <4>1 DEF Flagged
    <3> QED BY <3>1, <3>2
  <2> QED BY <1>1, <2>1, <2>3, <2>4, <2>5, FlagWritten
<1>4. CASE FlagRow(w)
  <2> DEFINE sv == heap[rt27][next].sv
  <2>1. next' = next + 1 /\ cleared' = FALSE /\ cleared
    BY <1>4 DEF FlagRow
  <2>2. LockInv'
    BY <1>1, <1>2, <2>1 DEF LockInv
  <2>3. CASE sv \in DOMAIN position
    <3>1. heap' = [heap EXCEPT ![rt27][next].used = position[sv]]
      BY <1>4, <2>3 DEF FlagRow
    <3>2. position[sv] \in BOOLEAN
      BY <2>3 DEF TypeOK, Position
    <3>3. /\ heap' \in [Views -> Seq(Row)]
          /\ Len(heap'[rt27]) = Len(heap[rt27])
          /\ \A i \in 1 .. Len(heap[rt27]) : i # next => heap'[rt27][i] = heap[rt27][i]
          /\ heap'[rt27][next].sv = sv /\ heap'[rt27][next].used = position[sv]
      BY <1>1, <1>2, <3>1, <3>2, RowWritten
    <3>4. TypeOK'
      BY <1>1, <1>2, <2>1, <3>3 DEF TypeOK
    <3>5. ASSUME position # NoPosition, NEW i \in 1 .. Len(heap[rt27]), i < next + 1
          PROVE  heap'[rt27][i].used =
                   (heap'[rt27][i].sv \in DOMAIN position /\ position[heap'[rt27][i].sv])
      <4>1. CASE i = next
        BY <2>3, <3>2, <3>3, <4>1
      <4>2. CASE i # next
        <5>1. heap'[rt27][i] = heap[rt27][i]
          BY <3>3, <4>2
        <5>2. i < next
          BY <1>2, <3>5, <4>2
        <5>3. Flagged(i)
          BY <1>1, <1>2, <3>5, <5>2 DEF MergeInv, Merging
        <5> QED BY <5>1, <5>3 DEF Flagged
      <4> QED BY <4>1, <4>2
    <3>6. MergeInv'
      BY <1>1, <1>2, <2>1, <3>3, <3>5 DEF MergeInv, Flagged
    <3> QED BY <1>1, <2>2, <3>1, <3>2, <3>4, <3>6, FlagWritten
  <2>4. CASE sv \notin DOMAIN position
    <3>1. heap' = heap
      BY <1>4, <2>4 DEF FlagRow
    <3>2. TypeOK'
      BY <1>1, <1>2, <2>1, <3>1 DEF TypeOK
    <3>3. heap \in [Views -> Seq(Row)] /\ heap[rt27][next] \in Row
      BY <1>2 DEF TypeOK
    <3>4. MergeInv'
      BY <1>1, <1>2, <2>1, <2>4, <3>1, <3>3 DEF MergeInv, Flagged, Row
    <3>5. SharedInv' /\ OneSurvey' /\ PublishedExact'
      BY <1>1, <3>1 DEF SharedInv, OneSurvey, PublishedExact
    <3> QED BY <2>2, <3>2, <3>4, <3>5
  <2> QED BY <2>3, <2>4
<1> QED BY <1>3, <1>4

-----------------------------------------------------------------------------
(* Copies: they are made with the lock free or about to be freed, and       *)
(* encoded row by row.                                                      *)

LEMMA TakeStep ==
  ASSUME StoreInv, NEW g \in Goroutines, Take(g), UNCHANGED <<rt27, heap>>
  PROVE  /\ view' \in [Goroutines -> Views \cup {None}]
         /\ asked' \in [Goroutines -> Seq(Row)]
         /\ out' \in [Goroutines -> Seq(Row)]
         /\ SharedInv' /\ OneSurvey' /\ PublishedExact'
<1> USE DEF StoreInv
<1>1. /\ view' = [view EXCEPT ![g] = rt27]
      /\ out' = [out EXCEPT ![g] = <<>>]
      /\ asked' = [asked EXCEPT ![g] = IF rt27 = None THEN <<>> ELSE heap[rt27]]
  BY DEF Take
<1>2. (IF rt27 = None THEN <<>> ELSE heap[rt27]) \in Seq(Row)
  BY DEF TypeOK
<1>3. asked' \in [Goroutines -> Seq(Row)]
  BY <1>1, <1>2 DEF TypeOK
<1>4. view' \in [Goroutines -> Views \cup {None}] /\ out' \in [Goroutines -> Seq(Row)]
  BY <1>1 DEF TypeOK
<1>5. SharedInv'
  BY <1>1 DEF TypeOK, SharedInv
<1>6. OneSurvey'
  BY <1>1, <1>3 DEF TypeOK, OneSurvey
<1>7. PublishedExact'
  BY <1>1 DEF TypeOK, PublishedExact, Goroutines
<1> QED BY <1>3, <1>4, <1>5, <1>6, <1>7

\* The writer has gone through all rows when it returns.
LEMMA ReturnStep ==
  ASSUME StoreInv, NEW w \in Writers, ReturnSnapshot(w)
  PROVE  StoreInv'
<1> USE DEF StoreInv, ReturnSnapshot
<1>1. w \in Goroutines /\ w # None
  BY StoreAssumption DEF Goroutines, StoreAssumption
<1>2. /\ view' \in [Goroutines -> Views \cup {None}]
      /\ asked' \in [Goroutines -> Seq(Row)]
      /\ out' \in [Goroutines -> Seq(Row)]
      /\ SharedInv' /\ OneSurvey' /\ PublishedExact'
  BY <1>1, TakeStep
<1>3. TypeOK'
  BY <1>2 DEF TypeOK
<1>4. LockInv'
  BY DEF LockInv
<1>5. ASSUME rt27 # None, position # NoPosition, NEW i \in 1 .. Len(heap[rt27])
      PROVE  Flagged(i)
  <2>1. next \in Nat /\ next # 0 /\ rt27 \in Views /\ Len(heap[rt27]) \in Nat
    BY <1>1, <1>5 DEF TypeOK, LockInv
  <2>2. i < next
    BY <1>5, <2>1 DEF Merging
  <2> QED BY <1>5, <2>2 DEF MergeInv
<1>6. MergeInv'
  BY <1>5 DEF MergeInv, Flagged
<1> QED BY <1>2, <1>3, <1>4, <1>6

LEMMA ReaderStep ==
  ASSUME StoreInv, NEW g \in Readers, Snapshot(g)
  PROVE  StoreInv'
<1> USE DEF StoreInv, Snapshot
<1>1. /\ view' \in [Goroutines -> Views \cup {None}]
      /\ asked' \in [Goroutines -> Seq(Row)]
      /\ out' \in [Goroutines -> Seq(Row)]
      /\ SharedInv' /\ OneSurvey' /\ PublishedExact'
  BY TakeStep DEF Goroutines
<1>2. TypeOK'
  BY <1>1 DEF TypeOK
<1>3. LockInv' /\ MergeInv'
  BY DEF LockInv, MergeInv, Flagged
<1> QED BY <1>1, <1>2, <1>3

LEMMA EncodeStep ==
  ASSUME StoreInv, NEW g \in Goroutines, EncodeRow(g)
  PROVE  StoreInv'
<1> DEFINE n == Len(out[g])
           row == heap[view[g]][n + 1]
<1> USE DEF StoreInv
<1>1. /\ view[g] \in Views /\ heap[view[g]] \in Seq(Row) /\ out[g] \in Seq(Row)
      /\ asked[g] \in Seq(Row)
  BY DEF TypeOK, EncodeRow
<1>2. n \in Nat /\ n < Len(heap[view[g]]) /\ Len(heap[view[g]]) \in Nat
      /\ Len(heap[view[g]]) = Len(asked[g])
  BY <1>1 DEF EncodeRow, SharedInv
<1>3. n + 1 \in 1 .. Len(heap[view[g]]) /\ row \in Row /\ row.sv = asked[g][n + 1].sv
  BY <1>1, <1>2 DEF EncodeRow, SharedInv
<1>4. out' = [out EXCEPT ![g] = Append(out[g], row)]
      /\ UNCHANGED <<lock, rt27, position, heap, next, cleared, view, asked>>
  BY DEF EncodeRow
<1> HIDE DEF row
<1>5. /\ Append(out[g], row) \in Seq(Row)
      /\ Len(Append(out[g], row)) = n + 1
      /\ \A i \in 1 .. n : Append(out[g], row)[i] = out[g][i]
      /\ Append(out[g], row)[n + 1] = row
  BY <1>1, <1>3, AppendProperties
<1> HIDE DEF n
<1>6. TypeOK'
  BY <1>4, <1>5 DEF TypeOK
<1>7. LockInv' /\ MergeInv' /\ SharedInv' /\ PublishedExact'
  BY <1>4 DEF LockInv, MergeInv, Flagged, SharedInv, PublishedExact
<1>8. OneSurvey'
  <2> SUFFICES ASSUME NEW k \in Goroutines
               PROVE  /\ Len(out'[k]) <= Len(asked[k])
                      /\ \A i \in 1 .. Len(out'[k]) : out'[k][i].sv = asked[k][i].sv
    BY <1>4 DEF OneSurvey
  <2>1. CASE k # g
    BY <1>4, <2>1 DEF OneSurvey, TypeOK
  <2>2. CASE k = g
    <3>1. out'[g] = Append(out[g], row)
      BY <1>4 DEF TypeOK
    <3>2. Len(out'[g]) = n + 1 /\ n + 1 <= Len(asked[g])
      BY <1>2, <1>5, <3>1
    <3>3. ASSUME NEW i \in 1 .. n + 1 PROVE out'[g][i].sv = asked[g][i].sv
      <4>1. CASE i = n + 1
        BY <1>3, <1>5, <3>1, <4>1
      <4>2. CASE i \in 1 .. n
        BY <1>5, <3>1, <4>2 DEF OneSurvey, n
      <4> QED BY <1>2, <4>1, <4>2
    <3> QED BY <2>2, <3>2, <3>3
  <2> QED BY <2>1, <2>2
<1> QED BY <1>6, <1>7, <1>8

LEMMA EncodedStep ==
  ASSUME StoreInv, NEW g \in Goroutines, Encoded(g)
  PROVE  StoreInv'
<1> USE DEF StoreInv, Encoded
<1>1. TypeOK'
  BY DEF TypeOK
<1>2. LockInv'
  BY DEF LockInv, TypeOK, Goroutines
<1>3. MergeInv'
  BY DEF MergeInv, Flagged
<1>4. SharedInv' /\ PublishedExact'
  BY DEF SharedInv, PublishedExact, TypeOK, Goroutines
<1>5. OneSurvey'
  BY DEF OneSurvey, TypeOK
<1> QED BY <1>1, <1>2, <1>3, <1>4, <1>5

-----------------------------------------------------------------------------

LEMMA StoreInit == Init => StoreInv
<1> SUFFICES ASSUME Init PROVE StoreInv
  OBVIOUS
<1> USE StoreAssumption DEF Init, StoreAssumption
<1>1. TypeOK
  <2>1. heap \in [Views -> Seq(Row)]
    OBVIOUS
  <2>2. asked \in [Goroutines -> Seq(Row)] /\ out \in [Goroutines -> Seq(Row)]
    OBVIOUS
  <2> QED BY <2>1, <2>2, NoPositionType DEF TypeOK
<1>2. LockInv /\ MergeInv /\ SharedInv
  BY DEF LockInv, MergeInv, SharedInv
<1>3. OneSurvey
  BY DEF OneSurvey
<1>4. PublishedExact
  BY DEF PublishedExact, Goroutines
<1> QED BY <1>1, <1>2, <1>3, <1>4 DEF StoreInv

LEMMA StoreStep ==
  ASSUME StoreInv, [Next]_vars
  PROVE  StoreInv'
<1>1. ASSUME NEW w \in Writers, Writer(w) PROVE StoreInv'
  BY <1>1, SurveyStep, PositionStep, MergeStep, ReturnStep DEF Writer
<1>2. ASSUME NEW g \in Readers, Snapshot(g) PROVE StoreInv'
  BY <1>2, ReaderStep
<1>3. ASSUME NEW g \in Goroutines, EncodeRow(g) \/ Encoded(g) PROVE StoreInv'
  BY <1>3, EncodeStep, EncodedStep
<1>4. CASE UNCHANGED vars
  BY <1>4 DEF vars, StoreInv, TypeOK, LockInv, MergeInv, Flagged, SharedInv, OneSurvey,
              PublishedExact
<1> QED BY <1>1, <1>2, <1>3, <1>4 DEF Next

(***************************************************************************)
(* The lock of store.go orders the writers of rows; what it does not cover  *)
(* is the copies, which point to the same rows.                             *)
(***************************************************************************)
THEOREM StoreInvariant == Spec => []StoreInv
BY StoreInit, StoreStep, PTL DEF Spec

\* s.snap and the copies keep their types, and mergePositionSVs, under the lock,
\* visits only rows of a view that exists.
THEOREM StoreTypes == Spec => []TypeOK
<1>1. StoreInv => TypeOK
  BY DEF StoreInv
<1> QED BY <1>1, StoreInvariant, PTL

(***************************************************************************)
(* Whenever the lock is free, ApplyRAW has left every row with the flags of *)
(* the latest position, for surveys and positions in any order.             *)
(***************************************************************************)
THEOREM FlagsAreLatest == Spec => []FlagsOfLatestPosition
<1>1. StoreInv => FlagsOfLatestPosition
  BY DEF StoreInv, MergeInv, Flagged, FlagsOfLatestPosition
<1> QED BY <1>1, StoreInvariant, PTL

(***************************************************************************)
(* Whatever ApplyRAW does while a copy is encoded, its rows are the         *)
(* satellites of the one survey it was made of.                             *)
(***************************************************************************)
THEOREM CopiesAreOneSurvey == Spec => []OneSurvey
<1>1. StoreInv => OneSurvey
  BY DEF StoreInv
<1> QED BY <1>1, StoreInvariant, PTL

(***************************************************************************)
(* With one goroutine applying messages, the copy it publishes is, until    *)
(* encoded, the snapshot that ApplyRAW returned.                            *)
(***************************************************************************)
THEOREM PublishedIsExact == Spec => []PublishedExact
<1>1. StoreInv => PublishedExact
  BY DEF StoreInv
<1> QED BY <1>1, StoreInvariant, PTL
=============================================================================
