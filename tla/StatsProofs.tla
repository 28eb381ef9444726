------------------------------ MODULE StatsProofs ------------------------------
(***************************************************************************)
(* Proofs that the counters of Stats agree whenever no callback is running  *)
(* and that the hints of a line hold when they are raised, for any number   *)
(* of overlapping connections.  A callback adds to one counter at a time,   *)
(* so between two of them the sums are short of exactly the connections     *)
(* that are between the two Adds: the invariant counts those.  The hints    *)
(* hold because a counter loaded as positive never falls back to zero.      *)
(***************************************************************************)
EXTENDS Stats, FiniteSetTheorems, TLAPS

\* The connections whose session is in one of these callbacks
Under(S) == {c \in Conns : stage[c] \in S}

Running == Stage \ {"quiet"}

\* Only finitely many sessions are in a callback, however many connections there are.
FiniteInv == IsFiniteSet(Under(Running))

\* A packet is counted, and then under its kind.
PacketsInv ==
  Wired("packets") =>
    counters["packets"] = counters["rawPages"] + counters["genoutPages"]
                            + counters["otherPackets"] + Cardinality(Under(Kinds))

\* A page is counted before the message it completes or the error it is.
PagesInv ==
  Wired("rawPages") =>
    counters["rawMessages"] + counters["rawPageErrors"] + Cardinality(Under({"rawPage"}))
      <= counters["rawPages"]

\* A frame is counted, and then as a packet or as an error.
FramesInv ==
  Wired("decodeErrors") =>
    counters["frames"] = counters["packets"] + counters["decodeErrors"]
                           + Cardinality(Under({"frame"}))

\* What is not wired counts nothing.
UnwiredInv == \A n \in Counter : ~Wired(n) => counters[n] = 0

SumsInv == PacketsInv /\ PagesInv /\ FramesInv /\ UnwiredInv

\* A counter that was loaded as positive is positive still.
LineInv == \A i \in 1 .. Len(line) : line[i] => counters[Snapshot[i]] > 0

StatsInv == TypeOK /\ FiniteInv /\ SumsInv /\ LineInv

-----------------------------------------------------------------------------
(* What the operators of the model do.                                      *)

LEMMA LevelType == \A l \in Levels : l \in Off .. Trace
BY StatsAssumption DEF StatsAssumption, Off, Trace

LEMMA SnapshotLength == Len(Snapshot) = 5
BY DEF Snapshot

LEMMA NotTheLast ==
  ASSUME NEW n \in Nat, NEW m \in Nat, n <= m, ~(n = m)
  PROVE  n < m
OBVIOUS

LEMMA UnderFinite ==
  ASSUME FiniteInv, NEW S \in SUBSET Running
  PROVE  IsFiniteSet(Under(S)) /\ Cardinality(Under(S)) \in Nat
<1>1. Under(S) \in SUBSET Under(Running)
  BY DEF Under
<1>2. IsFiniteSet(Under(S))
  BY <1>1, FS_Subset DEF FiniteInv
<1> QED BY <1>2, FS_CardinalityType

\* A session that goes to another callback enters and leaves sets of callbacks.
LEMMA GotoCount ==
  ASSUME TypeOK, FiniteInv, NEW c \in Conns, NEW s \in Stage, Goto(c, s),
         NEW S \in SUBSET Running
  PROVE  /\ stage' \in [Conns -> Stage]
         /\ IsFiniteSet(Under(S)')
         /\ stage[c] \in S /\ s \notin S => Cardinality(Under(S)') = Cardinality(Under(S)) - 1
         /\ stage[c] \notin S /\ s \in S => Cardinality(Under(S)') = Cardinality(Under(S)) + 1
         /\ (stage[c] \in S <=> s \in S) => Cardinality(Under(S)') = Cardinality(Under(S))
<1>1. stage' \in [Conns -> Stage]
  BY DEF TypeOK, Goto
<1>2. IsFiniteSet(Under(S))
  BY UnderFinite
<1>3. CASE s \in S
  <2>1. Under(S)' = Under(S) \cup {c}
    BY <1>3 DEF Under, TypeOK, Goto
  <2>2. c \in Under(S) <=> stage[c] \in S
    BY DEF Under
  <2> QED BY <1>1, <1>2, <1>3, <2>1, <2>2, FS_AddElement
<1>4. CASE s \notin S
  <2>1. Under(S)' = Under(S) \ {c}
    BY <1>4 DEF Under, TypeOK, Goto
  <2>2. c \in Under(S) <=> stage[c] \in S
    BY DEF Under
  <2> QED BY <1>1, <1>2, <1>4, <2>1, <2>2, FS_RemoveElement
<1> QED BY <1>3, <1>4

\* One Add: a counter never falls, and only a wired one changes.
LEMMA CountAdds ==
  ASSUME TypeOK, NEW n \in Counter, Count(n)
  PROVE  /\ counters' \in [Counter -> Nat]
         /\ \A m \in Counter \ {n} : counters'[m] = counters[m]
         /\ Wired(n) => counters'[n] = counters[n] + 1
         /\ ~Wired(n) => counters'[n] = counters[n]
BY DEF TypeOK, Count

\* A line keeps its meaning while the counters only grow.
LEMMA LineKept ==
  ASSUME TypeOK, LineInv, UNCHANGED line, counters' \in [Counter -> Nat],
         \A n \in Counter : counters'[n] >= counters[n]
  PROVE  LineInv'
<1>1. \A i \in 1 .. Len(Snapshot) : Snapshot[i] \in Counter
  BY DEF Snapshot, Counter
<1>2. 1 .. Len(line) \subseteq 1 .. Len(Snapshot)
  BY DEF TypeOK, Snapshot
<1> QED BY <1>1, <1>2 DEF LineInv, TypeOK

-----------------------------------------------------------------------------
(* The callbacks.                                                           *)

\* Every callback adds to at most one counter and goes to another callback.
LEMMA CallbackShape ==
  ASSUME TypeOK, NEW c \in Conns, Bytes(c) \/ Callback(c)
  PROVE  /\ \E s \in Stage : Goto(c, s)
         /\ UNCHANGED counters \/ \E n \in Counter : Count(n)
         /\ LoggerKeeps
<1> USE DEF Stage, Kinds, Counter
<1>1. CASE Bytes(c) \/ Frame(c) \/ Parsed(c) \/ DecodeError(c) \/ Packet(c)
  BY <1>1 DEF Bytes, Frame, Parsed, DecodeError, Packet
<1>2. CASE PacketKind(c)
  BY <1>2 DEF PacketKind, After
<1>3. CASE Page(c) \/ Records(c)
  BY <1>3 DEF Page, Records
<1> QED BY <1>1, <1>2, <1>3 DEF Callback

\* So types, and the line already loaded, survive every callback.
LEMMA CallbackType ==
  ASSUME StatsInv, NEW c \in Conns, Bytes(c) \/ Callback(c)
  PROVE  TypeOK' /\ FiniteInv' /\ UnwiredInv' /\ LineInv'
<1> USE DEF StatsInv, SumsInv
<1>1. PICK s \in Stage : Goto(c, s)
  BY CallbackShape
<1>2. LoggerKeeps /\ (UNCHANGED counters \/ \E n \in Counter : Count(n))
  BY CallbackShape
<1>3. FiniteInv' /\ stage' \in [Conns -> Stage]
  BY <1>1, GotoCount DEF FiniteInv
<1>4. counters' \in [Counter -> Nat] /\ \A n \in Counter : counters'[n] >= counters[n]
  <2>1. CASE UNCHANGED counters
    BY <2>1 DEF TypeOK
  <2>2. ASSUME NEW n \in Counter, Count(n)
        PROVE  counters' \in [Counter -> Nat] /\ \A m \in Counter : counters'[m] >= counters[m]
    BY <2>2, CountAdds DEF TypeOK
  <2> QED BY <1>2, <2>1, <2>2
<1>5. UnwiredInv'
  <2>1. CASE UNCHANGED counters
    BY <1>2, <2>1 DEF UnwiredInv, Wired, LoggerKeeps
  <2>2. ASSUME NEW n \in Counter, Count(n)
        PROVE  UnwiredInv'
    BY <1>2, <2>2, CountAdds DEF UnwiredInv, Wired, LoggerKeeps
  <2> QED BY <1>2, <2>1, <2>2
<1>6. level = Off => \A n \in Counter : counters'[n] = 0
  BY <1>2, <1>5 DEF UnwiredInv, Wired, LoggerKeeps, Off, Info, Debug
<1>7. TypeOK'
  BY <1>2, <1>3, <1>4, <1>6 DEF TypeOK, LoggerKeeps
<1>8. LineInv'
  BY <1>2, <1>4, LineKept DEF LoggerKeeps
<1> QED BY <1>3, <1>5, <1>7, <1>8

\* Each callback moves its session between the sets by as much as it counts.
LEMMA CallbackSums ==
  ASSUME StatsInv, NEW c \in Conns, Bytes(c) \/ Callback(c)
  PROVE  PacketsInv' /\ PagesInv' /\ FramesInv'
<1> DEFINE P == Cardinality(Under(Kinds))
           R == Cardinality(Under({"rawPage"}))
           F == Cardinality(Under({"frame"}))
<1>1. Kinds \in SUBSET Running /\ {"rawPage"} \in SUBSET Running /\ {"frame"} \in SUBSET Running
  BY DEF Running, Stage, Kinds
<1>2. P \in Nat /\ R \in Nat /\ F \in Nat
  BY <1>1, UnderFinite DEF StatsInv
<1>3. P' = Cardinality(Under(Kinds)') /\ R' = Cardinality(Under({"rawPage"})')
      /\ F' = Cardinality(Under({"frame"})')
  OBVIOUS
<1>4. level' = level /\ level \in Nat /\ counters \in [Counter -> Nat]
  BY CallbackShape DEF LoggerKeeps, StatsInv, TypeOK, Off, Trace
<1>5. ASSUME NEW s \in Stage, Goto(c, s)
      PROVE  /\ P' = P + (IF s \in Kinds THEN 1 ELSE 0) - (IF stage[c] \in Kinds THEN 1 ELSE 0)
             /\ R' = R + (IF s = "rawPage" THEN 1 ELSE 0) - (IF stage[c] = "rawPage" THEN 1 ELSE 0)
             /\ F' = F + (IF s = "frame" THEN 1 ELSE 0) - (IF stage[c] = "frame" THEN 1 ELSE 0)
  <2>1. TypeOK /\ FiniteInv
    BY DEF StatsInv
  <2>2. P' = P + (IF s \in Kinds THEN 1 ELSE 0) - (IF stage[c] \in Kinds THEN 1 ELSE 0)
    BY <1>1, <1>2, <1>5, <2>1, GotoCount
  <2>3. R' = R + (IF s = "rawPage" THEN 1 ELSE 0) - (IF stage[c] = "rawPage" THEN 1 ELSE 0)
    BY <1>1, <1>2, <1>5, <2>1, GotoCount
  <2>4. F' = F + (IF s = "frame" THEN 1 ELSE 0) - (IF stage[c] = "frame" THEN 1 ELSE 0)
    BY <1>1, <1>2, <1>5, <2>1, GotoCount
  <2> QED BY <2>2, <2>3, <2>4
<1>6. /\ Wired("packets") =>
           counters["packets"] = counters["rawPages"] + counters["genoutPages"]
                                   + counters["otherPackets"] + P
      /\ Wired("rawPages") =>
           counters["rawMessages"] + counters["rawPageErrors"] + R <= counters["rawPages"]
      /\ Wired("decodeErrors") =>
           counters["frames"] = counters["packets"] + counters["decodeErrors"] + F
  BY DEF StatsInv, SumsInv, PacketsInv, PagesInv, FramesInv
<1>7. SUFFICES
        /\ Wired("packets") =>
             counters'["packets"] = counters'["rawPages"] + counters'["genoutPages"]
                                      + counters'["otherPackets"] + P'
        /\ Wired("rawPages") =>
             counters'["rawMessages"] + counters'["rawPageErrors"] + R' <= counters'["rawPages"]
        /\ Wired("decodeErrors") =>
             counters'["frames"] = counters'["packets"] + counters'["decodeErrors"] + F'
  BY <1>4 DEF PacketsInv, PagesInv, FramesInv, Wired
<1>count. ASSUME NEW n \in Counter, Count(n)
          PROVE  /\ \A m \in Counter : m # n => counters'[m] = counters[m]
                 /\ counters'[n] = IF Wired(n) THEN counters[n] + 1 ELSE counters[n]
  BY <1>count, CountAdds DEF StatsInv
<1> HIDE DEF P, R, F
<1> USE DEF Stage, Kinds, Counter, Wired, Info, Debug
<1>8. CASE Bytes(c) \/ Parsed(c)
  BY <1>2, <1>4, <1>5, <1>6, <1>count, <1>8 DEF Bytes, Parsed
<1>9. CASE Frame(c)
  BY <1>2, <1>4, <1>5, <1>6, <1>count, <1>9 DEF Frame
<1>10. CASE DecodeError(c)
  BY <1>2, <1>4, <1>5, <1>6, <1>count, <1>10 DEF DecodeError
<1>11. CASE Packet(c)
  BY <1>2, <1>4, <1>5, <1>6, <1>count, <1>11 DEF Packet
<1>12. CASE PacketKind(c)
  BY <1>2, <1>4, <1>5, <1>6, <1>count, <1>12 DEF PacketKind, After
<1>13. CASE Page(c)
  BY <1>2, <1>4, <1>5, <1>6, <1>count, <1>13 DEF Page
<1>14. CASE Records(c)
  BY <1>2, <1>4, <1>5, <1>6, <1>count, <1>14 DEF Records
<1> QED BY <1>8, <1>9, <1>10, <1>11, <1>12, <1>13, <1>14 DEF Callback

-----------------------------------------------------------------------------
(* The goroutines that write the lines.                                     *)

LEMMA LoggerStep ==
  ASSUME StatsInv, NEW c \in Conns, LinkUp(c) \/ LinkEnds(c) \/ Statistics(c) \/ Load
  PROVE  StatsInv'
<1> USE DEF StatsInv
<1>1. UNCHANGED <<level, counters, stage>>
  BY DEF LinkUp, LinkEnds, Statistics, Tick, Logged, TickerReturns, Load
<1>2. FiniteInv' /\ SumsInv'
  BY <1>1 DEF FiniteInv, SumsInv, PacketsInv, PagesInv, FramesInv, UnwiredInv, Wired, Under
<1>3. CASE LinkUp(c)
  <2>1. TypeOK'
    BY <1>3, StatsAssumption DEF LinkUp, TypeOK, Logs, Off, Info
  <2> QED BY <1>2, <1>3, <2>1 DEF LineInv, LinkUp
<1>4. CASE LinkEnds(c) \/ Tick(c) \/ TickerReturns(c)
  <2>1. TypeOK'
    BY <1>4 DEF LinkEnds, Tick, TickerReturns, TypeOK
  <2> QED BY <1>2, <1>4, <2>1 DEF LineInv, LinkEnds, Tick, TickerReturns
<1>5. CASE Logged(c)
  <2>1. line' \in Seq(BOOLEAN) /\ Len(line') <= Len(Snapshot) /\ LineInv'
    <3>1. CASE c = Watched
      BY <1>5, <3>1 DEF Logged, LineInv, Snapshot
    <3>2. CASE c # Watched
      BY <1>5, <3>2 DEF Logged, LineInv, TypeOK
    <3> QED BY <3>1, <3>2
  <2>2. TypeOK'
    BY <1>5, <2>1 DEF Logged, TypeOK
  <2> QED BY <1>2, <2>1, <2>2
<1>6. CASE Load
  <2> DEFINE v == counters[Snapshot[Len(line) + 1]] > 0
  <2>1. line \in Seq(BOOLEAN)
    BY DEF TypeOK
  <2>len. Len(line) \in Nat
    BY <2>1
  <2>room. Len(line) < 5
    BY <1>6, <2>len, SnapshotLength, NotTheLast DEF Load, Loaded, TypeOK
  <2>2. line' = Append(line, v) /\ v \in BOOLEAN
    BY <1>6 DEF Load
  <2> HIDE DEF v
  <2>3. line' \in Seq(BOOLEAN) /\ Len(line') = Len(line) + 1
    BY <2>1, <2>2
  <2>4. TypeOK'
    <3>1. Len(line') <= 5
      BY <2>len, <2>room, <2>3
    <3>2. Len(line') <= Len(Snapshot)
      BY <3>1, SnapshotLength
    <3> QED BY <1>6, <2>3, <3>2 DEF Load, TypeOK
  <2>5. ASSUME NEW i \in 1 .. Len(line'), line'[i] PROVE counters'[Snapshot[i]] > 0
    <3>1. CASE i \in 1 .. Len(line)
      BY <1>1, <2>1, <2>2, <2>5, <3>1 DEF LineInv
    <3>2. CASE i = Len(line) + 1
      <4>1. v
        BY <2>1, <2>2, <2>5, <3>2
      <4> QED BY <1>1, <3>2, <4>1 DEF v
    <3> QED BY <2>1, <2>2, <2>len, <3>1, <3>2
  <2> QED BY <1>2, <2>4, <2>5 DEF LineInv
<1> QED BY <1>3, <1>4, <1>5, <1>6 DEF Statistics

LEMMA StatsInit == Init => StatsInv
<1> SUFFICES ASSUME Init PROVE StatsInv
  OBVIOUS
<1>1. TypeOK
  <2>1. level \in Off .. Trace /\ counters \in [Counter -> Nat]
    BY LevelType DEF Init
  <2>2. line \in Seq(BOOLEAN) /\ Len(line) <= Len(Snapshot)
    BY DEF Init, Snapshot
  <2> QED BY <2>1, <2>2 DEF Init, TypeOK, Stage
<1>2. Under(Running) = {} /\ Under(Kinds) = {} /\ Under({"rawPage"}) = {} /\ Under({"frame"}) = {}
  BY DEF Init, Under, Running, Kinds
<1>3. FiniteInv
  BY <1>2, FS_EmptySet DEF FiniteInv
<1>4. PacketsInv /\ PagesInv /\ FramesInv /\ UnwiredInv
  <2>1. \A n \in Counter : counters[n] = 0
    BY DEF Init
  <2>2. /\ Cardinality(Under(Kinds)) = 0
        /\ Cardinality(Under({"rawPage"})) = 0
        /\ Cardinality(Under({"frame"})) = 0
    BY <1>2, FS_EmptySet
  <2> QED BY <2>1, <2>2 DEF PacketsInv, PagesInv, FramesInv, UnwiredInv, Counter
<1>5. LineInv
  BY DEF Init, LineInv
<1> QED BY <1>1, <1>3, <1>4, <1>5 DEF StatsInv, SumsInv

LEMMA StatsStep ==
  ASSUME StatsInv, [Next]_vars
  PROVE  StatsInv'
<1>1. ASSUME NEW c \in Conns, Bytes(c) \/ Callback(c) PROVE StatsInv'
  BY <1>1, CallbackType, CallbackSums DEF StatsInv, SumsInv
<1>2. ASSUME NEW c \in Conns, LinkUp(c) \/ LinkEnds(c) \/ Statistics(c) PROVE StatsInv'
  BY <1>2, LoggerStep
<1>3. CASE Load
  BY <1>3, LoggerStep, StatsAssumption DEF StatsAssumption
<1>4. CASE UNCHANGED vars
  BY <1>4 DEF vars, StatsInv, TypeOK, FiniteInv, SumsInv, PacketsInv, PagesInv, FramesInv,
              UnwiredInv, LineInv, Wired, Under
<1> QED BY <1>1, <1>2, <1>3, <1>4 DEF Next

(***************************************************************************)
(* Each atomic Add of verbose.go leaves the sums short by exactly the       *)
(* sessions between it and the next one.                                    *)
(***************************************************************************)
THEOREM StatsInvariant == Spec => []StatsInv
BY StatsInit, StatsStep, PTL DEF Spec

\* The fields of Logger and the goroutines of runOnce keep their types, and a Logger
\* of level off counts nothing and starts no goroutine.
THEOREM StatsTypes == Spec => []TypeOK
<1>1. StatsInv => TypeOK
  BY DEF StatsInv
<1> QED BY <1>1, StatsInvariant, PTL

(***************************************************************************)
(* Whenever no session of any number of overlapping ones is in a callback,  *)
(* the counters of the Logger agree.                                        *)
(***************************************************************************)
THEOREM CountersReconcile == Spec => []Reconciles
<1>1. ASSUME StatsInv PROVE Reconciles
  <2> SUFFICES ASSUME \A c \in Conns : stage[c] = "quiet" PROVE Reconciles
    BY DEF Reconciles
  <2>1. Under(Kinds) = {} /\ Under({"rawPage"}) = {} /\ Under({"frame"}) = {}
    BY DEF Under, Kinds
  <2>2. /\ Cardinality(Under(Kinds)) = 0
        /\ Cardinality(Under({"rawPage"})) = 0
        /\ Cardinality(Under({"frame"})) = 0
    BY <2>1, FS_EmptySet
  <2>3. level \in Nat /\ counters \in [Counter -> Nat]
    BY <1>1 DEF StatsInv, TypeOK, Off, Trace
  <2>4. CASE level >= Info
    BY <1>1, <2>2, <2>3, <2>4
       DEF StatsInv, SumsInv, PacketsInv, PagesInv, FramesInv, Wired, Reconciles, Counter, Info, Debug
  <2>5. CASE ~(level >= Info)
    BY <1>1, <2>3, <2>5
       DEF StatsInv, SumsInv, UnwiredInv, Wired, Reconciles, Counter, Info, Debug
  <2> QED BY <2>4, <2>5
<1> QED BY <1>1, StatsInvariant, PTL

(***************************************************************************)
(* A hint that LogStats raises while the callbacks go on, other than the    *)
(* one about GSOF, is true when its last counter is loaded: the one that    *)
(* must be positive was loaded before and has not fallen since.             *)
(***************************************************************************)
THEOREM HintsAreTrue == Spec => NoFalseHint
<1>1. ASSUME StatsInv, StatsInv', [Next]_vars, NEW h \in Raised' \ Raised, h # GSOFOnly
      PROVE  True(h)
  <2>1. CASE line' = line
    BY <1>1, <2>1 DEF Raised, Shows
  <2>2. CASE line' = <<>>
    BY <1>1, <2>2 DEF Raised, Shows
  <2>3. CASE Load
    <3> DEFINE k == Len(line) + 1
    <3>1. line \in Seq(BOOLEAN) /\ Len(line) \in Nat /\ k <= Len(Snapshot)
      BY <1>1, <2>3 DEF Load, Loaded, StatsInv, TypeOK, Snapshot
    <3>2. counters' = counters /\ line' = Append(line, counters[Snapshot[k]] > 0)
      BY <2>3 DEF Load
    <3>3. PICK i \in 1 .. Len(line'), j \in 1 .. Len(line') :
            Snapshot[i] = h[1] /\ line'[i] = TRUE /\ Snapshot[j] = h[2] /\ line'[j] = FALSE
      BY <1>1 DEF Raised, Shows
    <3>4. i \in 1 .. k /\ j \in 1 .. k
      BY <3>1, <3>2, <3>3
    <3>5. i < j
      <4>1. h = <<"bytesRead", "frames">> \/ h = <<"rawPages", "rawMessages">>
        BY <1>1 DEF Raised, Hint
      <4>2. i \in 1 .. 5 /\ j \in 1 .. 5
        BY <3>1, <3>4 DEF Snapshot
      <4> QED BY <3>3, <4>1, <4>2 DEF Snapshot
    <3>6. line'[i] = line[i] /\ i \in 1 .. Len(line)
      BY <3>1, <3>2, <3>4, <3>5
    <3>7. j = k
      <4>1. CASE j # k
        <5>1. j \in 1 .. Len(line) /\ line'[j] = line[j]
          BY <3>1, <3>2, <3>4, <4>1
        <5>2. h \in Raised
          BY <1>1, <3>3, <3>6, <5>1 DEF Raised, Shows
        <5> QED BY <1>1, <5>2
      <4> QED BY <4>1
    <3>8. ~(counters[h[2]] > 0)
      BY <3>1, <3>2, <3>3, <3>7
    <3>9. counters[h[1]] > 0
      BY <1>1, <3>3, <3>6 DEF StatsInv, LineInv
    <3>10. counters \in [Counter -> Nat] /\ h[2] \in Counter
      BY <1>1 DEF StatsInv, TypeOK, Raised, Hint, GSOFOnly, Counter
    <3> QED BY <3>8, <3>9, <3>10 DEF True
  <2>4. line' = line \/ line' = <<>> \/ Load
    BY <1>1 DEF Next, vars, Bytes, Callback, Frame, Parsed, DecodeError, Packet, PacketKind, Page,
                Records, LoggerKeeps, LinkUp, LinkEnds, Statistics, Tick, Logged, TickerReturns
  <2> QED BY <2>1, <2>2, <2>3, <2>4
<1>2. ASSUME StatsInv, StatsInv', [Next]_vars
      PROVE  [\A h \in Raised' \ Raised : h = GSOFOnly \/ True(h)]_vars
  BY <1>1, <1>2
<1> QED BY <1>2, StatsInvariant, PTL DEF Spec, NoFalseHint
=============================================================================
