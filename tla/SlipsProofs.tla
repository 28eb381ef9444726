------------------------------ MODULE SlipsProofs ------------------------------
(***************************************************************************)
(* Proofs about Slips with any number of signals, any counter width and any *)
(* clock.  The page compares a counter with the one it saw last; what makes *)
(* that right is that a counter can be above the one seen last only in the  *)
(* epoch in which it went up, until the page has applied that epoch.        *)
(***************************************************************************)
EXTENDS Slips, TLAPS

\* An applied epoch is the last one the page knows.
ClockInv ==
  /\ delivered > 0 => lastEpoch = time
  /\ lastEpoch = None => st = <<>>

\* A counter above the one seen last went up in this epoch, which is not applied yet.
RiseInv ==
  \A s \in DOMAIN st : count[s] > st[s].prev =>
    delivered = 0 /\ s \in tracked /\ time \in slipped[s]

\* A slip the page dates is one of the receiver's.
DateInv ==
  /\ \A s \in now : time \in slipped[s]
  /\ ~ClockSetBack => \A s \in DOMAIN st : st[s].last # None => st[s].last \in slipped[s]

\* What is counted, and what the next snapshot may add to it for the counter alone,
\* has happened or was reported.
CountInv ==
  \A s \in DOMAIN st :
    st[s].slips + (IF count[s] > st[s].prev THEN 1 ELSE 0) <= rises[s] + reported[s]

SlipsInv == TypeOK /\ ClockInv /\ RiseInv /\ DateInv /\ CountInv /\ NoRingWithoutSlip

-----------------------------------------------------------------------------
(* What the operators of the model do.                                      *)

LEMMA UpType == \A c \in 0 .. MaxCount : Up(c) \in 0 .. MaxCount
<1> SUFFICES ASSUME NEW c \in 0 .. MaxCount PROVE Up(c) \in 0 .. MaxCount
  OBVIOUS
<1>1. MaxCount + 1 \in Nat \ {0} /\ c + 1 \in Nat
  BY SlipsAssumption DEF SlipsAssumption
<1>2. \A m \in Nat \ {0}, n \in Nat : n % m \in 0 .. m - 1
  OBVIOUS
<1> QED BY <1>1, <1>2, SlipsAssumption DEF Up, SlipsAssumption

\* The state kept of a signal, or the one it starts with.
LEMMA OldState ==
  ASSUME SlipsInv, NEW s \in Sigs
  PROVE  /\ Old(s) \in SigState
         /\ s \in DOMAIN Kept => ~ClockSetBack /\ s \in DOMAIN st /\ Old(s) = st[s]
         /\ s \notin DOMAIN Kept => Old(s) = [last |-> None, prev |-> count[s], slips |-> 0]
         /\ Old(s).last # None => Old(s).last \in slipped[s]
         /\ count[s] > Old(s).prev => s \in DOMAIN Kept /\ time \in slipped[s]
<1> USE DEF SlipsInv
<1>1. CASE s \in DOMAIN Kept
  <2>1. ~ClockSetBack /\ s \in DOMAIN st /\ Old(s) = st[s]
    BY <1>1 DEF Kept, Old
  <2> QED BY <1>1, <2>1 DEF TypeOK, DateInv, RiseInv
<1>2. CASE s \notin DOMAIN Kept
  <2>1. Old(s) = [last |-> None, prev |-> count[s], slips |-> 0]
    BY <1>2 DEF Old
  <2>2. count[s] \in 0 .. MaxCount /\ count[s] \in Int
    BY SlipsAssumption DEF TypeOK, SlipsAssumption
  <2>3. Old(s) \in SigState
    BY <2>1, <2>2 DEF SigState
  <2>4. Old(s).last = None /\ ~(count[s] > Old(s).prev)
    BY <2>1, <2>2
  <2> QED BY <1>2, <2>1, <2>3, <2>4
<1> QED BY <1>1, <1>2

\* A slip that is counted is one that was detected, and there was one.
LEMMA CountedSlips ==
  ASSUME SlipsInv, NEW s \in Sigs, s \in Counted
  PROVE  s \in tracked /\ slipDetected(s) /\ time \in slipped[s]
<1>1. s \in Slipping
  BY DEF Counted
<1>2. s \in tracked /\ slipDetected(s)
  BY <1>1 DEF Slipping
<1> QED BY <1>2, OldState DEF slipDetected, SlipsInv, DateInv

-----------------------------------------------------------------------------
(* The receiver.                                                            *)

LEMMA EpochStep ==
  ASSUME SlipsInv, NEW step \in Steps, NEW T \in SUBSET Sigs,
         NEW flags \in SUBSET (T \cap Flaggable), Epoch(step, T, flags)
  PROVE  SlipsInv'
<1> USE DEF SlipsInv
<1>1. /\ delivered > 0 /\ epochs < MaxEpochs /\ epochs' = epochs + 1 /\ delivered' = 0
      /\ time' = time + step /\ tracked' = T /\ now' = flags
      /\ UNCHANGED <<lastEpoch, ignore, st, level, reported>>
  BY DEF Epoch, page
<1>2. PICK up \in SUBSET T : \E again \in SUBSET (T \ up) :
        /\ count' = [s \in Sigs |->
             IF s \in up THEN Up(count[s]) ELSE IF s \in again THEN 0 ELSE count[s]]
        /\ rises' = [s \in Sigs |-> IF s \in up THEN rises[s] + 1 ELSE rises[s]]
        /\ slipped' = [s \in Sigs |->
             (IF step < -1 THEN {} ELSE slipped[s])
               \cup (IF s \in up \cup flags THEN {time + step} ELSE {})]
  BY DEF Epoch
<1>3. step \in Int /\ time \in Int /\ time' \in Int
  BY <1>1, SlipsAssumption DEF TypeOK, SlipsAssumption
<1>4. /\ \A s \in Sigs : rises'[s] = IF s \in up THEN rises[s] + 1 ELSE rises[s]
      /\ rises' \in [Sigs -> Nat]
  BY <1>2 DEF TypeOK
<1>5. /\ \A s \in Sigs : count'[s] \in 0 .. MaxCount
      /\ \A s \in Sigs : s \in up \/ count'[s] = 0 \/ count'[s] = count[s]
      /\ count' \in [Sigs -> 0 .. MaxCount]
  BY <1>2, UpType, SlipsAssumption DEF TypeOK, SlipsAssumption
<1>6. /\ \A s \in Sigs : s \in up \cup flags => time' \in slipped'[s]
      /\ step >= -1 => \A s \in Sigs : slipped[s] \subseteq slipped'[s]
      /\ slipped' \in [Sigs -> SUBSET Int]
  BY <1>1, <1>2, <1>3 DEF TypeOK
<1>7. \A s \in DOMAIN st : s \in Sigs /\ ~(count[s] > st[s].prev) /\ st[s] \in SigState
  BY <1>1 DEF TypeOK, RiseInv
<1>8. TypeOK'
  <2>1. epochs' \in 1 .. MaxEpochs /\ delivered' \in 0 .. MaxDeliveries
    BY <1>1, SlipsAssumption DEF TypeOK, SlipsAssumption
  <2>2. ~(delivered' > 0)
    BY <1>1
  <2> QED BY <1>1, <1>3, <1>4, <1>5, <1>6, <2>1, <2>2 DEF TypeOK
<1>9. ClockInv'
  BY <1>1 DEF ClockInv
<1>10. RiseInv'
  <2> SUFFICES ASSUME NEW s \in DOMAIN st, count'[s] > st[s].prev
               PROVE  s \in up
    BY <1>1, <1>6 DEF RiseInv
  <2>1. s \in Sigs /\ st[s].prev \in Nat /\ count[s] \in Nat
    BY <1>7, SlipsAssumption DEF SigState, TypeOK, SlipsAssumption
  <2> QED BY <1>5, <1>7, <2>1
<1>11. DateInv'
  <2>1. \A s \in now' : time' \in slipped'[s]
    BY <1>1, <1>6 DEF TypeOK
  <2>2. ASSUME ~ClockSetBack', NEW s \in DOMAIN st, st[s].last # None
        PROVE  st[s].last \in slipped'[s]
    <3>1. lastEpoch = time /\ lastEpoch # None
      BY <1>1, <1>3, SlipsAssumption DEF ClockInv, SlipsAssumption
    <3>2. step >= -1
      BY <1>1, <1>3, <2>2, <3>1 DEF ClockSetBack
    <3>3. st[s].last \in slipped[s]
      BY <1>1, <2>2 DEF TypeOK
    <3> QED BY <1>6, <1>7, <3>2, <3>3
  <2> QED BY <1>1, <2>1, <2>2 DEF DateInv
<1>12. CountInv'
  <2> SUFFICES ASSUME NEW s \in DOMAIN st
               PROVE  st[s].slips + (IF count'[s] > st[s].prev THEN 1 ELSE 0)
                        <= rises'[s] + reported[s]
    BY <1>1 DEF CountInv
  <2>1. /\ s \in Sigs /\ st[s].prev \in Nat /\ st[s].slips \in Nat /\ rises[s] \in Nat
        /\ count[s] \in Nat /\ reported[s] \in Nat
    BY <1>7, SlipsAssumption DEF SigState, TypeOK, SlipsAssumption
  <2>2. st[s].slips <= rises[s] + reported[s] /\ ~(count[s] > st[s].prev)
    BY <1>7, <2>1 DEF CountInv
  <2> QED BY <1>4, <1>5, <2>1, <2>2
<1>13. NoRingWithoutSlip'
  BY <1>1 DEF NoRingWithoutSlip
<1> QED BY <1>8, <1>9, <1>10, <1>11, <1>12, <1>13

-----------------------------------------------------------------------------
(* The page.                                                                *)

LEMMA ApplyStep ==
  ASSUME SlipsInv, Apply
  PROVE  SlipsInv'
<1> USE DEF SlipsInv
<1>1. /\ UNCHANGED <<time, tracked, now, count, epochs, slipped, rises>>
      /\ delivered' = delivered + 1 /\ delivered < MaxDeliveries /\ lastEpoch' = time
      /\ delivered' > 0 /\ delivered' \in 0 .. MaxDeliveries
  BY SlipsAssumption DEF Apply, receiver, TypeOK, SlipsAssumption
<1>2. /\ DOMAIN st' = DOMAIN Kept \cup tracked
      /\ DOMAIN Kept \subseteq DOMAIN st /\ DOMAIN st \subseteq Sigs /\ tracked \subseteq Sigs
  BY DEF Apply, Kept, TypeOK
<1>3. ASSUME NEW s \in DOMAIN st', s \notin tracked
      PROVE  s \in DOMAIN Kept /\ s \in Sigs /\ st'[s] = Old(s)
  BY <1>2, <1>3 DEF Apply, Old
<1>4. ASSUME NEW s \in tracked
      PROVE  /\ s \in Sigs
             /\ st'[s].last = LastSlip(s) /\ st'[s].prev = PrevCount(s)
             /\ st'[s].slips = Old(s).slips + (IF s \in Counted THEN 1 ELSE 0)
             /\ st'[s] \in SigState
             /\ ~(count[s] > PrevCount(s))
  <2>1. st'[s] = [last |-> LastSlip(s), prev |-> PrevCount(s),
                  slips |-> Old(s).slips + (IF s \in Counted THEN 1 ELSE 0)]
    BY <1>2 DEF Apply
  <2>2. s \in Sigs /\ Old(s) \in SigState /\ count[s] \in 0 .. MaxCount /\ time \in Int
    BY <1>2, OldState DEF TypeOK
  <2>3. /\ LastSlip(s) \in Int \cup {None} /\ PrevCount(s) \in 0 .. MaxCount
        /\ Old(s).slips \in Nat
    BY <2>2 DEF LastSlip, PrevCount, SigState
  <2>4. ~(count[s] > PrevCount(s))
    BY <2>2, SlipsAssumption DEF PrevCount, SigState, SlipsAssumption
  <2> QED BY <2>1, <2>2, <2>3, <2>4 DEF SigState
<1>5. ASSUME NEW s \in DOMAIN st'
      PROVE  /\ s \in Sigs /\ st'[s] \in SigState
             /\ st'[s].last # None => st'[s].last \in slipped[s]
             /\ ~(count[s] > st'[s].prev)
  <2>1. CASE s \in tracked
    <3>1. LastSlip(s) # None => LastSlip(s) \in slipped[s]
      BY <1>2, <2>1, OldState, CountedSlips DEF LastSlip
    <3> QED BY <1>4, <2>1, <3>1
  <2>2. CASE s \notin tracked
    <3>1. s \in DOMAIN st /\ Old(s) = st[s]
      BY <1>3, <2>2, OldState
    <3>2. ~(count[s] > st[s].prev)
      BY <2>2, <3>1 DEF RiseInv
    <3> QED BY <1>3, <2>2, <3>1, <3>2, OldState
  <2> QED BY <2>1, <2>2
<1>6. level' = [s \in tracked |->
        IF s \in Counted THEN "now" ELSE slipLevelFromAge(Old(s).last)]
  BY DEF Apply
<1>7. /\ reported' \in [Sigs -> Nat]
      /\ \A s \in Sigs : reported'[s] = reported[s] + (IF s \in now THEN 1 ELSE 0)
  BY DEF Apply, TypeOK
<1>8. TypeOK'
  <2>1. ignore' \in BOOLEAN
    BY DEF Apply
  <2>2. \A s \in DOMAIN level' : level'[s] \in {"none", "300", "60", "now"}
    BY <1>6 DEF slipLevelFromAge
  <2>3. DOMAIN level' \subseteq DOMAIN st'
    BY <1>2, <1>6
  <2> QED BY <1>1, <1>2, <1>5, <1>7, <2>1, <2>2, <2>3 DEF TypeOK
<1>9. ClockInv'
  BY <1>1, SlipsAssumption DEF ClockInv, TypeOK, SlipsAssumption
<1>10. RiseInv' /\ DateInv'
  BY <1>1, <1>5 DEF RiseInv, DateInv
<1>11. CountInv'
  <2> SUFFICES ASSUME NEW s \in DOMAIN st'
               PROVE  st'[s].slips + (IF count[s] > st'[s].prev THEN 1 ELSE 0)
                        <= rises[s] + reported'[s]
    BY <1>1 DEF CountInv
  <2>1. /\ s \in Sigs /\ ~(count[s] > st'[s].prev) /\ st'[s].slips \in Nat /\ rises[s] \in Nat
        /\ Old(s).slips \in Nat /\ reported[s] \in Nat
        /\ reported'[s] = reported[s] + (IF s \in now THEN 1 ELSE 0)
    BY <1>5, <1>7, OldState DEF TypeOK, SigState
  <2>2. Old(s).slips + (IF count[s] > Old(s).prev THEN 1 ELSE 0) <= rises[s] + reported[s]
    <3>1. CASE s \in DOMAIN Kept
      BY <2>1, <3>1, OldState DEF CountInv
    <3>2. CASE s \notin DOMAIN Kept
      BY <2>1, <3>2, OldState
    <3> QED BY <3>1, <3>2
  <2>3. st'[s].slips <= Old(s).slips
          + (IF count[s] > Old(s).prev THEN 1 ELSE 0) + (IF s \in now THEN 1 ELSE 0)
    <3>1. CASE s \in tracked
      <4>1. s \in Counted => s \in now \/ count[s] > Old(s).prev
        BY <2>1, CountedSlips DEF slipDetected
      <4> QED BY <1>4, <2>1, <3>1, <4>1
    <3>2. CASE s \notin tracked
      BY <1>3, <2>1, <3>2
    <3> QED BY <3>1, <3>2
  <2> QED BY <2>1, <2>2, <2>3
<1>12. NoRingWithoutSlip'
  <2> SUFFICES ASSUME NEW s \in tracked
               PROVE  /\ level'[s] = "now" => time \in slipped[s]
                      /\ level'[s] = "60" => Younger(s, 60) \/ AtLimit(s, 60)
                      /\ level'[s] = "300" => Younger(s, 300) \/ AtLimit(s, 300)
    BY <1>1, <1>6 DEF NoRingWithoutSlip, Younger, AtLimit
  <2>1. s \in Sigs
    BY <1>2
  <2>2. CASE s \in Counted
    BY <1>6, <2>1, <2>2, CountedSlips
  <2>3. CASE s \notin Counted
    <3>1. level'[s] = slipLevelFromAge(Old(s).last)
      BY <1>6, <2>3
    <3>2. CASE Old(s).last = None
      BY <3>1, <3>2 DEF slipLevelFromAge
    <3>3. CASE Old(s).last # None
      <4>1. Old(s).last \in slipped[s] /\ Old(s).last \in Int /\ time \in Int
        BY <2>1, <3>3, OldState DEF SigState, TypeOK
      <4>2. /\ level'[s] = "60" => time - Old(s).last <= 60
            /\ level'[s] = "300" => time - Old(s).last <= 300
            /\ level'[s] # "now"
        BY <3>1, <3>3, <4>1 DEF slipLevelFromAge
      <4>3. ASSUME NEW age \in Int, time - Old(s).last <= age
            PROVE  Younger(s, age) \/ AtLimit(s, age)
        <5>1. time - Old(s).last < age \/ Old(s).last = time - age
          BY <4>1, <4>3
        <5> QED BY <4>1, <5>1 DEF Younger, AtLimit
      <4> QED BY <4>2, <4>3
    <3> QED BY <3>2, <3>3
  <2> QED BY <2>2, <2>3
<1> QED BY <1>8, <1>9, <1>10, <1>11, <1>12

-----------------------------------------------------------------------------

LEMMA SlipsInit == Init => SlipsInv
<1> SUFFICES ASSUME Init PROVE SlipsInv
  OBVIOUS
<1>1. DOMAIN st = {} /\ DOMAIN level = {} /\ tracked \subseteq Sigs /\ now \subseteq tracked
  BY DEF Init
<1>2. TypeOK
  <2>1. epochs \in 1 .. MaxEpochs /\ delivered \in 0 .. MaxDeliveries
    BY SlipsAssumption DEF Init, SlipsAssumption
  <2> QED BY <1>1, <2>1 DEF Init, TypeOK
<1>3. ClockInv /\ RiseInv /\ CountInv
  BY <1>1 DEF Init, ClockInv, RiseInv, CountInv
<1>4. DateInv
  BY <1>1 DEF Init, DateInv
<1>5. NoRingWithoutSlip
  BY <1>1 DEF NoRingWithoutSlip
<1> QED BY <1>2, <1>3, <1>4, <1>5 DEF SlipsInv

LEMMA SlipsStep ==
  ASSUME SlipsInv, [Next]_vars
  PROVE  SlipsInv'
<1>1. ASSUME NEW step \in Steps, NEW T \in SUBSET Sigs,
             NEW flags \in SUBSET (T \cap Flaggable), Epoch(step, T, flags)
      PROVE  SlipsInv'
  BY <1>1, EpochStep
<1>2. CASE Apply
  BY <1>2, ApplyStep
<1>3. CASE UNCHANGED vars
  <2>1. TypeOK' /\ ClockInv' /\ RiseInv' /\ CountInv'
    BY <1>3 DEF vars, receiver, page, SlipsInv, TypeOK, ClockInv, RiseInv, CountInv
  <2>2. DateInv' /\ NoRingWithoutSlip'
    BY <1>3 DEF vars, receiver, page, SlipsInv, DateInv, ClockSetBack, NoRingWithoutSlip, Younger, AtLimit
  <2> QED BY <2>1, <2>2 DEF SlipsInv
<1> QED BY <1>1, <1>2, <1>3 DEF Next

(***************************************************************************)
(* prevCount and lastSlipSec, as enrichSlipState keeps them, never run      *)
(* ahead of the receiver.                                                   *)
(***************************************************************************)
THEOREM SlipsInvariant == Spec => []SlipsInv
BY SlipsInit, SlipsStep, PTL DEF Spec

\* The page's slip states keep their types, and date slips only to epochs with one.
THEOREM SlipsTypes == Spec => []TypeOK
<1>1. SlipsInv => TypeOK
  BY DEF SlipsInv
<1> QED BY <1>1, SlipsInvariant, PTL

(***************************************************************************)
(* Every ring the page draws is justified by a slip of the receiver of that *)
(* age, or of exactly the legend's limit, for any sequence of epochs,       *)
(* however often each is applied.                                           *)
(***************************************************************************)
THEOREM RingsAreJustified == Spec => []NoRingWithoutSlip
<1>1. SlipsInv => NoRingWithoutSlip
  BY DEF SlipsInv
<1> QED BY <1>1, SlipsInvariant, PTL

(***************************************************************************)
(* The page counts a slip of the counter once, applying an epoch again      *)
(* finds prevCount up to date, and a flagged slip once with each snapshot   *)
(* of its epoch: nothing else is ever counted.                              *)
(***************************************************************************)
THEOREM SlipCountBounded == Spec => []EveryCountHasCause
<1>1. ASSUME SlipsInv PROVE EveryCountHasCause
  <2> SUFFICES ASSUME NEW s \in DOMAIN st PROVE st[s].slips <= rises[s] + reported[s]
    BY DEF EveryCountHasCause
  <2>1. st[s].slips \in Nat /\ rises[s] \in Nat /\ reported[s] \in Nat
    BY <1>1 DEF SlipsInv, TypeOK, SigState
  <2> QED BY <1>1, <2>1 DEF SlipsInv, CountInv
<1> QED BY <1>1, SlipsInvariant, PTL
=============================================================================
