--------------------------------- MODULE Slips ---------------------------------
(***************************************************************************)
(* Cycle slips as the page shows them (enrichSlipState in                   *)
(* internal/server/web/app.js) against the slips the receiver had.          *)
(*                                                                          *)
(* The receiver measures an epoch at a time; the page is given the epoch's  *)
(* RT27 view once, and again with every other event published before the    *)
(* next one: a position event carries the whole snapshot.  Events lost on   *)
(* the way are in module EventStream; here the page sees every epoch.       *)
(*                                                                          *)
(* One satellite on one antenna is modelled: rows share only the clock.     *)
(* Its signals are numbered in the order the page visits them.              *)
(***************************************************************************)
EXTENDS Integers, FiniteSetsExt

CONSTANTS
  NumSignals,     \* signals of the satellite
  MaxCount,       \* largest value of CycleSlipCount, 255 for a byte
  Flaggable,      \* signals whose slips it may also report by the slip flag
  Steps,          \* seconds between epochs; negative when its clock is set back
  MaxEpochs,      \* bound on the epochs
  MaxDeliveries,  \* bound on the snapshots applied in an epoch
  None            \* no epoch

ASSUME SlipsAssumption ==
  /\ NumSignals \in Nat \ {0} /\ MaxCount \in Nat
  /\ Flaggable \subseteq 1 .. NumSignals /\ Steps \subseteq Int
  /\ MaxEpochs \in Nat \ {0} /\ MaxDeliveries \in Nat
  /\ None \notin Int

Sigs == 1 .. NumSignals

VARIABLES
  time,        \* the epoch's time, in seconds
  tracked,     \* signals measured in it
  now,         \* those with the slip flag, CycleSlipNow
  count,       \* the receiver's slip counters, CycleSlipCount
  epochs,      \* epochs so far
  delivered,   \* how often the page applied this one
  slipped,     \* history: when each signal slipped, since the clock was set back
  rises,       \* history: how often its counter went up

  lastEpoch,   \* lastEpochSec
  ignore,      \* ignoreNextSlip, TRUE for a satellite not in svSlipState
  st,          \* sigSlipState of the signals seen
  level,       \* _slipLevel of the signals shown
  reported     \* history: how often a snapshot with its slip flag set was applied

receiver == <<time, tracked, now, count, epochs, slipped, rises>>
page == <<lastEpoch, ignore, st, level>>
vars == <<receiver, delivered, page, reported>>

SigState == [last : Int \cup {None}, prev : 0 .. MaxCount, slips : Nat]

-----------------------------------------------------------------------------
(* The receiver.                                                            *)

Init ==
  /\ time = 0 /\ epochs = 1 /\ delivered = 0
  /\ tracked \in SUBSET Sigs
  /\ now \in SUBSET (tracked \cap Flaggable)
  /\ count \in [Sigs -> 0 .. MaxCount]
  /\ slipped = [s \in Sigs |-> IF s \in now THEN {0} ELSE {}]
  /\ rises = [s \in Sigs |-> 0]
  /\ lastEpoch = None /\ ignore = TRUE /\ st = <<>> /\ level = <<>>
  /\ reported = [s \in Sigs |-> 0]

Up(c) == (c + 1) % (MaxCount + 1)

\* The next epoch.  A counter may go up or start again.
Epoch(step, T, flags) ==
  /\ delivered > 0
  /\ epochs < MaxEpochs
  /\ epochs' = epochs + 1
  /\ delivered' = 0
  /\ time' = time + step
  /\ tracked' = T
  /\ now' = flags
  /\ \E up \in SUBSET T : \E again \in SUBSET (T \ up) :
       /\ count' = [s \in Sigs |->
            IF s \in up THEN Up(count[s]) ELSE IF s \in again THEN 0 ELSE count[s]]
       /\ rises' = [s \in Sigs |-> IF s \in up THEN rises[s] + 1 ELSE rises[s]]
       /\ slipped' = [s \in Sigs |->
            (IF step < -1 THEN {} ELSE slipped[s])
              \cup (IF s \in up \cup flags THEN {time + step} ELSE {})]
  /\ UNCHANGED <<page, reported>>

-----------------------------------------------------------------------------
(* The page.                                                                *)

\* Mutant: a clock that was set back is not noticed.
ClockIgnored == FALSE

ClockSetBack == lastEpoch # None /\ time < lastEpoch - 1

\* Slip states kept from earlier snapshots.
Kept == IF ClockSetBack THEN <<>> ELSE st

Old(s) ==
  IF s \in DOMAIN Kept THEN Kept[s] ELSE [last |-> None, prev |-> count[s], slips |-> 0]

slipLevelFromAge(last) ==
  IF last = None \/ time - last > 300 THEN "none"
  ELSE IF time - last <= 60 THEN "60" ELSE "300"

slipDetected(s) == s \in now \/ count[s] > Old(s).prev

Slipping == {s \in tracked : slipDetected(s)}

\* The first slip found on a satellite is ignored.
Counted ==
  IF (ignore \/ ClockSetBack) /\ Slipping # {} THEN Slipping \ {Min(Slipping)} ELSE Slipping

\* Mutant: prevCount is kept when there is no slip to count.
PrevKept(s) == Old(s).prev

\* st.prevCount = sig.cycleSlipCount ?? st.prevCount, where a count of 0 is
\* missing: SignalView has omitempty
PrevCount(s) == IF count[s] = 0 THEN Old(s).prev ELSE count[s]

LastSlip(s) == IF s \in Counted THEN time ELSE Old(s).last

\* applySnapshot with an RT27 view: enrichSlipState
Apply ==
  /\ delivered < MaxDeliveries
  /\ delivered' = delivered + 1
  /\ st' = [s \in DOMAIN Kept \cup tracked |->
       IF s \in tracked
       THEN [last |-> LastSlip(s), prev |-> PrevCount(s),
             slips |-> Old(s).slips + (IF s \in Counted THEN 1 ELSE 0)]
       ELSE Kept[s]]
  /\ level' = [s \in tracked |->
       IF s \in Counted THEN "now" ELSE slipLevelFromAge(Old(s).last)]
  /\ ignore' = ((ignore \/ ClockSetBack) /\ Slipping = {})
  /\ lastEpoch' = time
  /\ reported' = [s \in Sigs |-> IF s \in now THEN reported[s] + 1 ELSE reported[s]]
  /\ UNCHANGED receiver

Next ==
  \/ \E step \in Steps, T \in SUBSET Sigs :
       \E flags \in SUBSET (T \cap Flaggable) : Epoch(step, T, flags)
  \/ Apply

Spec == Init /\ [][Next]_vars

-----------------------------------------------------------------------------
(* Properties.                                                              *)

\* Types; and the page dates a slip only to an epoch in which there was one.
TypeOK ==
  /\ time \in Int /\ epochs \in 1 .. MaxEpochs /\ delivered \in 0 .. MaxDeliveries
  /\ tracked \subseteq Sigs
  /\ now \subseteq tracked /\ count \in [Sigs -> 0 .. MaxCount]
  /\ slipped \in [Sigs -> SUBSET Int] /\ rises \in [Sigs -> Nat]
  /\ reported \in [Sigs -> Nat]
  /\ lastEpoch \in Int \cup {None}
  /\ ignore \in BOOLEAN
  /\ DOMAIN st \subseteq Sigs
  /\ \A s \in DOMAIN st :
       /\ st[s] \in SigState
       /\ delivered > 0 /\ st[s].last # None => st[s].last \in slipped[s]
  /\ DOMAIN level \subseteq DOMAIN st
  /\ \A s \in DOMAIN level : level[s] \in {"none", "300", "60", "now"}

(***************************************************************************)
(* No ring without a slip: what the page shows of an epoch it has applied,  *)
(* however often, is justified by the receiver: "this epoch" by a slip in   *)
(* it, the levels the legend calls "< 60 s" and "< 300 s" (index.html:48,   *)
(* app.js:209) by a slip younger than that.  The code's limits are          *)
(* inclusive (app.js:196), so a slip of exactly 60 or 300 seconds is shown  *)
(* too, against the legend: AtLimit admits that case and no other.  Signals *)
(* that vanish and return, counters that start again and a clock that is    *)
(* set back make no ring.                                                   *)
(***************************************************************************)
Younger(s, age) == \E t \in slipped[s] : time - t < age
AtLimit(s, age) == time - age \in slipped[s]

NoRingWithoutSlip ==
  delivered > 0 => \A s \in DOMAIN level :
    /\ level[s] = "now" => time \in slipped[s]
    /\ level[s] = "60" => Younger(s, 60) \/ AtLimit(s, 60)
    /\ level[s] = "300" => Younger(s, 300) \/ AtLimit(s, 300)

(***************************************************************************)
(* How often a slip is counted.  A slip seen by the counter counts once,    *)
(* however often its epoch is applied and whatever the other signals do.  A *)
(* slip the receiver flags is counted again with each snapshot of its epoch *)
(* (app.js:203, :254: the flag is not compared with anything), which is     *)
(* twice or more for one slip; it is never counted after that epoch.        *)
(***************************************************************************)
EveryCountHasCause ==
  \A s \in DOMAIN st : st[s].slips <= rises[s] + reported[s]
=============================================================================
