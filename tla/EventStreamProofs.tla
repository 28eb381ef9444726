--------------------------- MODULE EventStreamProofs ---------------------------
(***************************************************************************)
(* Proofs that a browser whose stream is at rest shows the store's          *)
(* snapshot, for any number of publishers, channel capacity and history of  *)
(* broken streams.  A snapshot is on its way from a publisher's hand        *)
(* through the channel, the handler and the connection to the page; the     *)
(* invariant looks at the newest thing on that way, and says it is the      *)
(* store's snapshot or that one of the excuses of SettledShowsStore holds.  *)
(***************************************************************************)
EXTENDS EventStream, SequenceTheorems, TLAPS

NewestOf(s) == s[Len(s)]

\* A closed stream holds nothing, and events follow the first one.
StreamInv ==
  /\ ~open => handler = "off" /\ streams < MaxStreams
  /\ handler = "off" => queue = <<>>
  /\ handler # "serving" => wire = <<>>
  /\ late => page # 0

\* A publisher that still holds an old copy makes the latest change a raced one.
HeldInv == ~raced => \A p \in Publishers : held[p] \in {0, store}

UnderWay == \E p \in Publishers : held[p] = store

\* The newest snapshot that has come out of the publishers' hands.  A subscriber that
\* got nothing yet will take its first snapshot from the store.
Arrives ==
  IF queue # <<>> THEN NewestOf(queue) = store
  ELSE /\ handler = "first" => first = store
       /\ handler = "serving" =>
            IF wire # <<>> THEN NewestOf(wire) = store ELSE page = store \/ late

NewestInv == dropped \/ raced \/ store \in bad \/ UnderWay \/ Arrives

EventStreamInv == TypeOK /\ StreamInv /\ HeldInv /\ NewestInv

-----------------------------------------------------------------------------
(* The newest event of a channel.                                           *)

LEMMA NewestAppended ==
  ASSUME NEW S, NEW s \in Seq(S), NEW e \in S
  PROVE  /\ Append(s, e) \in Seq(S) /\ Append(s, e) # <<>>
         /\ Len(Append(s, e)) = Len(s) + 1
         /\ NewestOf(Append(s, e)) = e
BY AppendProperties DEF NewestOf

LEMMA NewestStays ==
  ASSUME NEW S, NEW s \in Seq(S), s # <<>>
  PROVE  /\ Head(s) \in S /\ Tail(s) \in Seq(S)
         /\ Len(Tail(s)) = Len(s) - 1
         /\ Tail(s) # <<>> => NewestOf(Tail(s)) = NewestOf(s)
         /\ Tail(s) = <<>> => Head(s) = NewestOf(s)
<1>1. /\ Head(s) \in S /\ Tail(s) \in Seq(S) /\ Len(Tail(s)) = Len(s) - 1
      /\ \A i \in 1 .. Len(Tail(s)) : Tail(s)[i] = s[i + 1]
  BY HeadTailProperties
<1>2. Len(s) \in Nat /\ Len(s) > 0
  BY EmptySeq, LenProperties
<1>3. ASSUME Tail(s) # <<>> PROVE NewestOf(Tail(s)) = NewestOf(s)
  <2>1. Len(Tail(s)) \in 1 .. Len(Tail(s))
    BY <1>1, <1>3
  <2> QED BY <1>1, <1>2, <2>1 DEF NewestOf
<1>4. ASSUME Tail(s) = <<>> PROVE Head(s) = NewestOf(s)
  <2> DEFINE n == Len(s)
  <2>1. n \in Nat /\ n - 1 = 0
    BY <1>1, <1>2, <1>4
  <2> HIDE DEF n
  <2>2. n = 1
    BY <2>1
  <2>3. Head(s) = s[1]
    BY <1>2
  <2> QED BY <2>2, <2>3, Zenon DEF NewestOf, n
<1> QED BY <1>1, <1>3, <1>4

LEMMA MarshalType ==
  ASSUME NEW v \in 0 .. MaxVersion
  PROVE  Marshal(v) \in 0 .. MaxVersion /\ (v \notin bad => Marshal(v) = v)
BY EventStreamAssumption DEF Marshal, NoData, EventStreamAssumption

LEMMA VersionType == Version \subseteq 0 .. MaxVersion /\ Version \cup {NoData} = 0 .. MaxVersion
BY EventStreamAssumption DEF Version, NoData, EventStreamAssumption

-----------------------------------------------------------------------------
(* The publishers.                                                          *)

LEMMA ChangeStep ==
  ASSUME EventStreamInv, NEW p \in Publishers, Change(p)
  PROVE  EventStreamInv'
<1> USE DEF EventStreamInv, Change
<1>1. store' = store + 1 /\ store' \in Version /\ store \in Nat
  BY EventStreamAssumption DEF TypeOK, Version, EventStreamAssumption
<1>2. held' \in [Publishers -> 0 .. MaxVersion] /\ held'[p] = store'
  BY <1>1, VersionType DEF TypeOK
<1>3. bad' \subseteq 2 .. store'
  <2>1. store >= 1 /\ bad \subseteq 2 .. store
    BY DEF TypeOK, Version
  <2> QED BY <1>1, <2>1
<1>4. TypeOK'
  BY <1>1, <1>2, <1>3 DEF TypeOK
<1>5. StreamInv'
  BY DEF StreamInv
<1>6. HeldInv'
  BY DEF HeldInv, TypeOK
<1>7. NewestInv'
  BY <1>2 DEF NewestInv, UnderWay
<1> QED BY <1>4, <1>5, <1>6, <1>7

LEMMA PublishStep ==
  ASSUME EventStreamInv, NEW p \in Publishers, Publish(p)
  PROVE  EventStreamInv'
<1> USE DEF EventStreamInv
<1>1. /\ held[p] # 0 /\ held' = [held EXCEPT ![p] = 0] /\ held[p] \in Version
      /\ UNCHANGED <<changes, handler, first, wire, open, streams, page, fetched, fetching, late>>
  BY DEF Publish, TypeOK, Version
<1>2. /\ held' \in [Publishers -> 0 .. MaxVersion]
      /\ \A q \in Publishers : held'[q] = IF q = p THEN 0 ELSE held[q]
  BY <1>1, EventStreamAssumption DEF TypeOK, EventStreamAssumption
<1>3. HeldInv'
  BY <1>1, <1>2 DEF HeldInv, changes
<1>4. \/ ~Subscribed /\ UNCHANGED <<queue, dropped>>
      \/ held[p] \in bad /\ UNCHANGED <<queue, dropped>>
      \/ Subscribed /\ Room /\ queue' = Append(queue, held[p]) /\ UNCHANGED dropped
      \/ Subscribed /\ dropped' = TRUE /\ UNCHANGED queue
  BY <1>1 DEF Publish, Marshal, NoData
<1>5. CASE ~Subscribed /\ UNCHANGED <<queue, dropped>>
  <2>1. TypeOK' /\ StreamInv'
    BY <1>1, <1>2, <1>5 DEF TypeOK, StreamInv, changes
  <2>2. Arrives'
    BY <1>1, <1>5 DEF Arrives, Subscribed, StreamInv
  <2> QED BY <1>3, <2>1, <2>2 DEF NewestInv
<1>6. CASE held[p] \in bad /\ UNCHANGED <<queue, dropped>>
  <2>1. TypeOK' /\ StreamInv'
    BY <1>1, <1>2, <1>6 DEF TypeOK, StreamInv, changes
  <2>2. NewestInv'
    BY <1>1, <1>2, <1>6 DEF NewestInv, UnderWay, Arrives, HeldInv, changes
  <2> QED BY <1>3, <2>1, <2>2
<1>7. CASE Subscribed /\ Room /\ queue' = Append(queue, held[p]) /\ UNCHANGED dropped
  <2>1. /\ queue' \in Seq(Version) /\ queue' # <<>> /\ Len(queue') = Len(queue) + 1
        /\ NewestOf(queue') = held[p]
    BY <1>1, <1>7, NewestAppended DEF TypeOK
  <2>2. Len(queue') <= Cap
    BY <1>7, <2>1, EventStreamAssumption DEF Room, TypeOK, EventStreamAssumption
  <2>3. TypeOK' /\ StreamInv'
    BY <1>1, <1>2, <1>7, <2>1, <2>2 DEF TypeOK, StreamInv, Subscribed, changes
  <2>4. raced \/ held[p] = store
    BY <1>1 DEF HeldInv
  <2>5. NewestInv'
    BY <1>1, <2>1, <2>4 DEF NewestInv, Arrives, changes
  <2> QED BY <1>3, <2>3, <2>5
<1>8. CASE Subscribed /\ dropped' = TRUE /\ UNCHANGED queue
  <2>1. TypeOK' /\ StreamInv'
    BY <1>1, <1>2, <1>8 DEF TypeOK, StreamInv, changes
  <2> QED BY <1>3, <1>8, <2>1 DEF NewestInv
<1> QED BY <1>4, <1>5, <1>6, <1>7, <1>8

-----------------------------------------------------------------------------
(* The handler.                                                             *)

LEMMA SubscribeStep ==
  ASSUME EventStreamInv, Subscribe
  PROVE  EventStreamInv'
<1> USE DEF EventStreamInv, Subscribe, changes
<1>1. TypeOK' /\ StreamInv' /\ HeldInv'
  BY DEF TypeOK, StreamInv, HeldInv
<1>2. Arrives'
  BY DEF Arrives, StreamInv
<1> QED BY <1>1, <1>2 DEF NewestInv

\* What is taken first is the store's snapshot, unless that has no text.
LEMMA FirstStep ==
  ASSUME EventStreamInv, First
  PROVE  EventStreamInv'
<1> USE DEF EventStreamInv, First, changes
<1>1. store \in 0 .. MaxVersion
  BY VersionType DEF TypeOK
<1>2. first' \in 0 .. MaxVersion /\ (store \notin bad => first' = store)
  BY <1>1, MarshalType
<1>3. TypeOK' /\ StreamInv' /\ HeldInv'
  BY <1>2 DEF TypeOK, StreamInv, HeldInv
<1>4. NewestInv'
  BY <1>2 DEF NewestInv, UnderWay, Arrives
<1> QED BY <1>3, <1>4

LEMMA FirstSentStep ==
  ASSUME EventStreamInv, FirstSent
  PROVE  EventStreamInv'
<1> USE DEF EventStreamInv, FirstSent, changes
<1>1. wire = <<>> /\ first \in Version \cup {NoData} /\ wire \in Seq(Version \cup {NoData})
  BY VersionType DEF StreamInv, TypeOK
<1>2. /\ wire' \in Seq(Version \cup {NoData}) /\ wire' # <<>> /\ Len(wire') = Len(wire) + 1
      /\ NewestOf(wire') = first
  <2> HIDE DEF EventStreamInv
  <2> QED BY <1>1, NewestAppended
<1>3. Len(wire') <= WireCap
  BY <1>1, <1>2, EventStreamAssumption DEF EventStreamAssumption
<1>4. TypeOK' /\ StreamInv' /\ HeldInv'
  BY <1>2, <1>3, EventStreamAssumption DEF TypeOK, StreamInv, HeldInv, EventStreamAssumption
<1>5. NewestInv'
  BY <1>2 DEF NewestInv, UnderWay, Arrives
<1> QED BY <1>4, <1>5

LEMMA ForwardStep ==
  ASSUME EventStreamInv, Forward
  PROVE  EventStreamInv'
<1> USE DEF EventStreamInv, Forward, changes
<1>1. /\ Head(queue) \in Version /\ Tail(queue) \in Seq(Version)
      /\ Len(Tail(queue)) = Len(queue) - 1
      /\ Tail(queue) # <<>> => NewestOf(Tail(queue)) = NewestOf(queue)
      /\ Tail(queue) = <<>> => Head(queue) = NewestOf(queue)
  BY NewestStays DEF TypeOK
<1>2. /\ wire' \in Seq(Version \cup {NoData}) /\ wire' # <<>> /\ Len(wire') = Len(wire) + 1
      /\ NewestOf(wire') = Head(queue)
  BY <1>1, NewestAppended DEF TypeOK
<1>3. Len(wire') <= WireCap /\ Len(Tail(queue)) <= Cap
  BY <1>1, <1>2, EventStreamAssumption DEF TypeOK, EventStreamAssumption
<1>4. TypeOK' /\ StreamInv' /\ HeldInv'
  BY <1>1, <1>2, <1>3 DEF TypeOK, StreamInv, HeldInv
<1>5. NewestInv'
  BY <1>1, <1>2 DEF NewestInv, UnderWay, Arrives
<1> QED BY <1>4, <1>5

-----------------------------------------------------------------------------
(* The page.                                                                *)

LEMMA FetchStep ==
  ASSUME EventStreamInv, FetchAnswered \/ FetchFails \/ FetchApplied
  PROVE  EventStreamInv'
<1> USE DEF EventStreamInv, changes
<1>1. CASE FetchAnswered
  <2>1. store \in 0 .. MaxVersion
    BY VersionType DEF TypeOK
  <2>2. Marshal(store) \in 0 .. MaxVersion
    BY <2>1, MarshalType
  <2>3. TypeOK'
    BY <1>1, <2>2 DEF FetchAnswered, TypeOK
  <2> QED BY <1>1, <2>3 DEF FetchAnswered, StreamInv, HeldInv, NewestInv, UnderWay, Arrives
<1>2. CASE FetchFails
  <2>1. TypeOK'
    BY <1>2, EventStreamAssumption DEF FetchFails, TypeOK, EventStreamAssumption
  <2> QED BY <1>2, <2>1 DEF FetchFails, StreamInv, HeldInv, NewestInv, UnderWay, Arrives
<1>3. CASE FetchApplied
  <2>1. TypeOK' /\ HeldInv'
    BY <1>3, EventStreamAssumption DEF FetchApplied, TypeOK, HeldInv, EventStreamAssumption
  <2>2. StreamInv'
    BY <1>3 DEF FetchApplied, StreamInv, NoData
  <2>3. page = store \/ late => late'
    <3>1. page = store \/ late => page # 0
      BY DEF TypeOK, Version, StreamInv
    <3> QED BY <1>3, <3>1, Zenon DEF FetchApplied
  <2>4. NewestInv'
    BY <1>3, <2>3 DEF FetchApplied, NewestInv, UnderWay, Arrives
  <2> QED BY <2>1, <2>2, <2>4
<1> QED BY <1>1, <1>2, <1>3

LEMMA DeliverStep ==
  ASSUME EventStreamInv, Deliver
  PROVE  EventStreamInv'
<1> USE DEF EventStreamInv, Deliver, changes
<1>1. /\ Head(wire) \in Version \cup {NoData} /\ Tail(wire) \in Seq(Version \cup {NoData})
      /\ Len(Tail(wire)) = Len(wire) - 1
      /\ Tail(wire) # <<>> => NewestOf(Tail(wire)) = NewestOf(wire)
      /\ Tail(wire) = <<>> => Head(wire) = NewestOf(wire)
  BY NewestStays DEF TypeOK
<1>2. Len(Tail(wire)) <= WireCap
  BY <1>1, EventStreamAssumption DEF TypeOK, EventStreamAssumption
<1>3. TypeOK'
  BY <1>1, <1>2, VersionType DEF TypeOK
<1>4. StreamInv' /\ HeldInv'
  BY DEF StreamInv, HeldInv, NoData
<1>5. store # NoData
  BY DEF TypeOK, Version, NoData
<1>6. NewestInv'
  BY <1>1, <1>5 DEF NewestInv, UnderWay, Arrives, StreamInv
<1> QED BY <1>3, <1>4, <1>6

LEMMA BreakStep ==
  ASSUME EventStreamInv, Break \/ Retry
  PROVE  EventStreamInv'
<1> USE DEF EventStreamInv, changes
<1>1. CASE Break
  <2>1. TypeOK'
    <3>1. /\ queue' \in Seq(Version) /\ Len(queue') <= Cap
          /\ wire' \in Seq(Version \cup {NoData}) /\ Len(wire') <= WireCap
      BY <1>1, EventStreamAssumption DEF Break, EventStreamAssumption
    <3>2. first' \in 0 .. MaxVersion
      BY <1>1, EventStreamAssumption DEF Break, EventStreamAssumption
    <3> QED BY <1>1, <3>1, <3>2 DEF Break, TypeOK
  <2>2. StreamInv' /\ HeldInv' /\ Arrives'
    BY <1>1 DEF Break, StreamInv, HeldInv, Arrives
  <2> QED BY <2>1, <2>2 DEF NewestInv
<1>2. CASE Retry
  <2>1. streams' \in 1 .. MaxStreams
    BY <1>2, EventStreamAssumption DEF Retry, TimerRuns, TypeOK, StreamInv, EventStreamAssumption
  <2>2. TypeOK'
    BY <1>2, <2>1 DEF Retry, TypeOK
  <2>3. StreamInv' /\ HeldInv' /\ Arrives'
    BY <1>2 DEF Retry, TimerRuns, StreamInv, HeldInv, Arrives
  <2> QED BY <2>2, <2>3 DEF NewestInv
<1> QED BY <1>1, <1>2

-----------------------------------------------------------------------------

LEMMA EventStreamInit == Init => EventStreamInv
<1> SUFFICES ASSUME Init PROVE EventStreamInv
  OBVIOUS
<1>1. TypeOK
  <2>1. /\ queue \in Seq(Version) /\ Len(queue) <= Cap
        /\ wire \in Seq(Version \cup {NoData}) /\ Len(wire) <= WireCap
    BY EventStreamAssumption DEF Init, EventStreamAssumption
  <2>2. /\ store \in Version /\ streams \in 1 .. MaxStreams /\ 0 \in 0 .. MaxVersion
    BY EventStreamAssumption DEF Init, Version, EventStreamAssumption
  <2> QED BY <2>1, <2>2 DEF Init, TypeOK
<1>2. StreamInv /\ HeldInv /\ Arrives
  BY DEF Init, StreamInv, HeldInv, Arrives
<1> QED BY <1>1, <1>2 DEF EventStreamInv, NewestInv

LEMMA EventStreamStep ==
  ASSUME EventStreamInv, [Next]_vars
  PROVE  EventStreamInv'
<1>1. ASSUME NEW p \in Publishers, Change(p) \/ Publish(p) PROVE EventStreamInv'
  BY <1>1, ChangeStep, PublishStep
<1>2. CASE Subscribe \/ First \/ FirstSent \/ Forward
  BY <1>2, SubscribeStep, FirstStep, FirstSentStep, ForwardStep
<1>3. CASE FetchAnswered \/ FetchFails \/ FetchApplied
  BY <1>3, FetchStep
<1>4. CASE Deliver \/ Break \/ Retry
  BY <1>4, DeliverStep, BreakStep
<1>5. CASE UNCHANGED vars
  BY <1>5 DEF vars, EventStreamInv, TypeOK, StreamInv, HeldInv, NewestInv, UnderWay, Arrives
<1> QED BY <1>1, <1>2, <1>3, <1>4, <1>5 DEF Next

(***************************************************************************)
(* Subscribing before the first snapshot is taken, as handleEvents does,    *)
(* keeps the newest snapshot on its way to the page.                        *)
(***************************************************************************)
THEOREM EventStreamInvariant == Spec => []EventStreamInv
BY EventStreamInit, EventStreamStep, PTL DEF Spec

\* The channel and the connection stay within their capacity, and only changes of the
\* store are ever without a text.
THEOREM EventStreamTypes == Spec => []TypeOK
<1>1. EventStreamInv => TypeOK
  BY DEF EventStreamInv
<1> QED BY <1>1, EventStreamInvariant, PTL

(***************************************************************************)
(* When everything under way has arrived, the page shows the snapshot the   *)
(* store holds, unless one of the four named things came in between.        *)
(***************************************************************************)
THEOREM PageShowsStore == Spec => []SettledShowsStore
<1>1. ASSUME EventStreamInv PROVE SettledShowsStore
  <2> SUFFICES ASSUME Settled, ~Excused PROVE page = store
    BY DEF SettledShowsStore
  <2>1. ~UnderWay
    BY <1>1 DEF UnderWay, Settled, EventStreamInv, TypeOK, Version
  <2>2. Arrives
    BY <1>1, <2>1 DEF EventStreamInv, NewestInv, Excused
  <2> QED BY <2>2 DEF Arrives, Settled, Excused
<1> QED BY <1>1, EventStreamInvariant, PTL
=============================================================================
