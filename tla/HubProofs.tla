------------------------------ MODULE HubProofs ------------------------------
(***************************************************************************)
(* Proofs that Hub, with any number of publishers, clients and any channel  *)
(* capacity, never panics and implements Mailboxes.  What makes both true   *)
(* is that Publish ranges over h.clients under the read lock and            *)
(* Unsubscribe deletes under the write lock, although it closes outside it. *)
(***************************************************************************)
EXTENDS Hub, TLAPS

\* What a handler's position says of its channel.
ChannelInv ==
  \A c \in Clients :
    /\ hpc[c] \in {"serving", "leaving", "parting"} <=> c \in clients
    /\ hpc[c] \in {"joining", "serving", "leaving", "parting", "removed"} => chan[c] = "open"
    /\ hpc[c] \in {"new", "joining"} => queue[c] = <<>>

\* A publisher sends only to subscribers that are still in h.clients.
SendInv == \A p \in Publishers : ppc[p] = "sending" => todo[p] \subseteq clients

HubInv == TypeOK /\ ChannelInv /\ SendInv /\ NoPanic

-----------------------------------------------------------------------------

\* Releasing the write lock lets publishers in to range over the new set.
LEMMA UnlockFrame ==
  ASSUME TypeOK, NEW S \in SUBSET Clients, Unlock(S)
  PROVE  /\ writer' = None
         /\ ppc' \in [Publishers -> PublisherPC]
         /\ todo' \in [Publishers -> SUBSET Clients]
         /\ NoReaders => \A p \in Publishers : ppc'[p] = "sending" => todo'[p] = S
BY DEF TypeOK, Unlock, PublisherPC, NoReaders

LEMMA SeqModInterval == 0 \in 0 .. SeqMod - 1 /\ \A n \in Nat : n % SeqMod \in 0 .. SeqMod - 1
BY HubAssumption DEF HubAssumption

LEMMA HubInit == Init => HubInv
<1> SUFFICES ASSUME Init PROVE HubInv
  OBVIOUS
<1>1. TypeOK
  <2>1. queue \in [Clients -> Seq(Event)] /\ \A c \in Clients : Len(queue[c]) <= Cap
    BY HubAssumption DEF Init, HubAssumption
  <2> QED BY <2>1, SeqModInterval DEF Init, TypeOK, HandlerPC, PublisherPC
<1>2. ChannelInv /\ SendInv /\ NoPanic
  BY DEF Init, ChannelInv, SendInv, NoPanic
<1> QED BY <1>1, <1>2 DEF HubInv

\* Types are preserved by the handlers ...
LEMMA HandlerType ==
  ASSUME TypeOK, NEW c \in Clients, Handler(c)
  PROVE  TypeOK'
<1> USE DEF TypeOK
<1>1. CASE SubscribeLock(c) \/ Leave(c) \/ UnsubscribeLock(c) \/ Close(c)
  BY <1>1 DEF SubscribeLock, Leave, UnsubscribeLock, Close, Announce, HandlerPC
<1>2. CASE SubscribeInsert(c)
  <2>1. [p \in Publishers |-> Passed(p)] \in [Publishers -> 0 .. SeqMod - 1]
    <3> SUFFICES ASSUME NEW p \in Publishers PROVE Passed(p) \in 0 .. SeqMod - 1
      OBVIOUS
    <3>1. sent[p] + SeqMod - 1 \in Nat
      BY HubAssumption DEF HubAssumption
    <3> QED BY <3>1, SeqModInterval DEF Passed
  <2> QED BY <1>2, <2>1, UnlockFrame DEF SubscribeInsert, HandlerPC
<1>3. CASE UnsubscribeDelete(c)
  BY <1>3, UnlockFrame DEF UnsubscribeDelete, Delete, HandlerPC
<1>4. CASE Receive(c)
  <2>1. /\ Tail(queue[c]) \in Seq(Event)
        /\ Len(Tail(queue[c])) <= Cap
        /\ Head(queue[c]) \in Event
    BY <1>4, HubAssumption DEF Receive, HubAssumption
  <2>2. queue' \in [Clients -> Seq(Event)] /\ \A k \in Clients : Len(queue'[k]) <= Cap
    BY <1>4, <2>1 DEF Receive
  <2>3. seen' \in [Clients -> [Publishers -> 0 .. SeqMod - 1]]
    BY <1>4, <2>1 DEF Receive, Event
  <2> QED BY <1>4, <2>2, <2>3 DEF Receive
<1>5. CASE Reconnect(c)
  <2>1. queue' \in [Clients -> Seq(Event)] /\ \A k \in Clients : Len(queue'[k]) <= Cap
    BY <1>5, HubAssumption DEF Reconnect, HubAssumption
  <2>2. seen' \in [Clients -> [Publishers -> 0 .. SeqMod - 1]]
    BY <1>5, SeqModInterval DEF Reconnect
  <2> QED BY <1>5, <2>1, <2>2 DEF Reconnect, HandlerPC
<1> QED BY <1>1, <1>2, <1>3, <1>4, <1>5 DEF Handler

\* ... and by the publishers.
LEMMA PublisherType ==
  ASSUME TypeOK, NEW p \in Publishers, Publisher(p)
  PROVE  TypeOK'
<1> USE DEF TypeOK
<1>1. CASE Publish(p)
  <2>1. sent' \in [Publishers -> 0 .. SeqMod - 1]
    <3>1. sent[p] + 1 \in Nat
      OBVIOUS
    <3> QED BY <1>1, <3>1, SeqModInterval DEF Publish
  <2> QED BY <1>1, <2>1 DEF Publish, PublisherPC
<1>2. CASE Published(p)
  BY <1>2 DEF Published, PublisherPC
<1>3. ASSUME NEW c \in Clients, Send(p, c) PROVE TypeOK'
  <2>1. CASE Room(c) /\ queue' = [queue EXCEPT ![c] = Append(@, [pub |-> p, num |-> sent[p]])]
    <3>1. [pub |-> p, num |-> sent[p]] \in Event
      BY DEF Event
    <3>2. Append(queue[c], [pub |-> p, num |-> sent[p]]) \in Seq(Event)
          /\ Len(Append(queue[c], [pub |-> p, num |-> sent[p]])) <= Cap
      BY <2>1, <3>1, HubAssumption DEF Room, HubAssumption
    <3>3. queue' \in [Clients -> Seq(Event)] /\ \A k \in Clients : Len(queue'[k]) <= Cap
      BY <2>1, <3>2
    <3> QED BY <1>3, <3>3 DEF Send
  <2>2. CASE UNCHANGED queue
    BY <1>3, <2>2 DEF Send
  <2> QED BY <1>3, <2>1, <2>2 DEF Send
<1> QED BY <1>1, <1>2, <1>3 DEF Publisher

\* No step breaks what the panic-freedom argument rests on.
LEMMA HubStep ==
  ASSUME HubInv, [Next]_vars
  PROVE  HubInv'
<1> USE DEF HubInv
<1>1. ASSUME NEW c \in Clients, Handler(c) PROVE HubInv'
  <2>1. TypeOK'
    BY <1>1, HandlerType
  <2>2. CASE SubscribeLock(c) \/ Leave(c) \/ UnsubscribeLock(c) \/ Receive(c) \/ Reconnect(c)
    <3>1. ChannelInv'
      BY <2>2 DEF TypeOK, ChannelInv, SubscribeLock, Leave, UnsubscribeLock, Receive, Reconnect
    <3>2. SendInv' /\ NoPanic'
      BY <2>2 DEF SendInv, NoPanic, SubscribeLock, Leave, UnsubscribeLock, Receive, Reconnect
    <3> QED BY <2>1, <3>1, <3>2
  <2>3. CASE SubscribeInsert(c) \/ UnsubscribeDelete(c)
    <3>1. ChannelInv'
      BY <2>3 DEF TypeOK, ChannelInv, SubscribeInsert, UnsubscribeDelete, Delete
    <3>2. Unlock(clients') /\ NoReaders /\ clients' \subseteq Clients
      BY <2>3 DEF TypeOK, SubscribeInsert, UnsubscribeDelete, Delete, MayWrite
    <3>3. SendInv'
      BY <3>2, UnlockFrame DEF SendInv
    <3>4. NoPanic'
      BY <2>3 DEF NoPanic, SubscribeInsert, UnsubscribeDelete
    <3> QED BY <2>1, <3>1, <3>3, <3>4
  <2>4. CASE Close(c)
    <3>1. ChannelInv'
      BY <2>4 DEF TypeOK, ChannelInv, Close
    <3>2. SendInv'
      BY <2>4 DEF SendInv, Close
    <3>3. chan[c] # "closed"
      BY <2>4 DEF Close, ChannelInv
    <3>4. NoPanic'
      BY <2>4, <3>3 DEF Close, NoPanic
    <3> QED BY <2>1, <3>1, <3>2, <3>4
  <2> QED BY <1>1, <2>2, <2>3, <2>4 DEF Handler
<1>2. ASSUME NEW p \in Publishers, Publisher(p) PROVE HubInv'
  <2>1. TypeOK'
    BY <1>2, PublisherType
  <2>2. CASE Publish(p) \/ Published(p)
    <3>1. ChannelInv' /\ NoPanic'
      BY <2>2 DEF ChannelInv, NoPanic, Publish, Published
    <3>2. SendInv'
      BY <2>2 DEF TypeOK, SendInv, Publish, Published
    <3> QED BY <2>1, <3>1, <3>2
  <2>3. ASSUME NEW c \in Clients, Send(p, c) PROVE HubInv'
    <3>1. c \in clients /\ chan[c] = "open"
      BY <2>3 DEF SendInv, ChannelInv, Send
    <3>2. NoPanic'
      BY <2>3, <3>1 DEF Send, NoPanic
    <3>3. SendInv'
      BY <2>3 DEF TypeOK, SendInv, Send
    <3>4. \A k \in Clients : k # c => queue'[k] = queue[k]
      BY <2>3 DEF TypeOK, Send
    <3>5. hpc[c] \notin {"new", "joining"}
      BY <3>1 DEF ChannelInv
    <3>6. ChannelInv'
      BY <2>3, <3>4, <3>5 DEF ChannelInv, Send
    <3> QED BY <2>1, <3>2, <3>3, <3>6
  <2> QED BY <1>2, <2>2, <2>3 DEF Publisher
<1>3. CASE UNCHANGED vars
  BY <1>3 DEF vars, TypeOK, ChannelInv, SendInv, NoPanic
<1> QED BY <1>1, <1>2, <1>3 DEF Next

\* The inductive invariant holds in every reachable state.
THEOREM HubInvariant == Spec => []HubInv
BY HubInit, HubStep, PTL DEF Spec

\* Types, and no channel holds more than its capacity.
THEOREM HubTypeCorrect == Spec => []TypeOK
BY HubInvariant, PTL DEF HubInv

\* Publish never sends on a closed channel and Unsubscribe never closes one twice,
\* for any number of publishers and subscribers: closing outside the lock is safe.
THEOREM HubNeverPanics == Spec => []NoPanic
BY HubInvariant, PTL DEF HubInv

-----------------------------------------------------------------------------
(* No event is missed, repeated or reordered.                               *)

\* A subscriber that a step does not concern.
LEMMA GaplessFrame ==
  ASSUME NEW p \in Publishers, NEW c \in Clients, Gapless(p, c),
         queue'[c] = queue[c], seen'[c][p] = seen[c][p], sent'[p] = sent[p],
         InFlight(p, c)' <=> InFlight(p, c)
  PROVE  Gapless(p, c)'
<1>1. \A i, n : Reached(p, c, i, n) => Reached(p, c, i, n)'
  BY DEF Reached
<1>2. PICK n \in 0 .. SeqMod - 1 :
        /\ Reached(p, c, Len(queue[c]), n)
        /\ sent[p] = IF InFlight(p, c) THEN (n + 1) % SeqMod ELSE n
  BY DEF Gapless
<1>3. Reached(p, c, Len(queue[c]), n)'
  BY <1>1, <1>2 DEF Reached
<1>4. \A i \in 1 .. Len(queue'[c]) : queue'[c][i].pub = p =>
        \E m \in 0 .. SeqMod - 1 :
          Reached(p, c, i - 1, m)' /\ queue'[c][i].num = (m + 1) % SeqMod
  BY <1>1 DEF Gapless
<1> QED BY <1>2, <1>3, <1>4 DEF Gapless

\* A new subscriber starts with the event that is being delivered, if there is one.
LEMMA PassedIsLatest ==
  ASSUME TypeOK, NEW p \in Publishers
  PROVE  /\ Passed(p) \in 0 .. SeqMod - 1
         /\ sent[p] = IF ppc[p] = "blocked" THEN (Passed(p) + 1) % SeqMod ELSE Passed(p)
<1>1. sent[p] \in 0 .. SeqMod - 1 /\ SeqMod \in Nat \ {0}
  BY HubAssumption DEF TypeOK, HubAssumption
<1>2. \A m \in Nat \ {0} : \A n \in 0 .. m - 1 :
        (n + m - 1) % m \in 0 .. m - 1 /\ (((n + m - 1) % m) + 1) % m = n
  OBVIOUS
<1> QED BY <1>1, <1>2 DEF Passed

LEMMA InsertedGapless ==
  ASSUME HubInv, NEW c \in Clients, SubscribeInsert(c), NEW p \in Publishers
  PROVE  Gapless(p, c)'
<1>1. queue'[c] = <<>> /\ sent'[p] = sent[p] /\ seen'[c][p] = Passed(p)
  BY DEF HubInv, TypeOK, ChannelInv, SubscribeInsert
<1>2. InFlight(p, c)' <=> ppc[p] = "blocked"
  BY DEF HubInv, TypeOK, SubscribeInsert, MayWrite, NoReaders, Unlock, InFlight
<1>3. PICK m \in 0 .. SeqMod - 1 :
        m = Passed(p) /\ sent[p] = IF ppc[p] = "blocked" THEN (m + 1) % SeqMod ELSE m
  BY PassedIsLatest DEF HubInv
<1>4. Reached(p, c, 0, m)'
  BY <1>1, <1>3 DEF Reached
<1>5. Len(queue'[c]) = 0
  BY <1>1
<1> QED BY <1>1, <1>2, <1>3, <1>4, <1>5 DEF Gapless

\* Once the oldest event is received, the channel goes on from there.
LEMMA ReceivedGapless ==
  ASSUME TypeOK, NEW c \in Clients, Receive(c), NEW p \in Publishers, Gapless(p, c)
  PROVE  Gapless(p, c)'
<1>0. PICK q, n, e : q = queue[c] /\ n = Len(q) /\ e = Head(q)
  OBVIOUS
<1>1. /\ q \in Seq(Event) /\ q # <<>> /\ n \in Nat /\ n >= 1 /\ e = q[1] /\ e \in Event
      /\ queue'[c] = Tail(q) /\ Len(Tail(q)) = n - 1
      /\ \A i \in 1 .. n - 1 : Tail(q)[i] = q[i + 1]
  <2>1. q \in Seq(Event) /\ q # <<>> /\ queue'[c] = Tail(q)
    BY <1>0 DEF TypeOK, Receive
  <2> QED BY <1>0, <2>1
<1>2. /\ seen'[c][p] = IF e.pub = p THEN e.num ELSE seen[c][p]
      /\ sent'[p] = sent[p] /\ (InFlight(p, c)' <=> InFlight(p, c))
  BY <1>0 DEF TypeOK, Receive, InFlight
<1>3. ASSUME NEW i \in 1 .. n, NEW m, Reached(p, c, i, m)
      PROVE  Reached(p, c, i - 1, m)'
  <2>1. \A k \in 1 .. i - 1 : queue'[c][k] = q[k + 1]
    BY <1>1
  <2>2. CASE m = seen[c][p] /\ \A k \in 1 .. i : q[k].pub # p
    <3>1. e.pub # p
      BY <1>1, <2>2
    <3>2. \A k \in 1 .. i - 1 : queue'[c][k].pub # p
      BY <1>1, <2>1, <2>2
    <3> QED BY <1>2, <2>2, <3>1, <3>2 DEF Reached
  <2>3. ASSUME NEW k \in 1 .. i, q[k] = [pub |-> p, num |-> m],
               \A l \in k + 1 .. i : q[l].pub # p
        PROVE  Reached(p, c, i - 1, m)'
    <3>1. \A l \in k .. i - 1 : l >= 1 => queue'[c][l].pub # p
      BY <1>1, <2>1, <2>3
    <3>2. CASE k = 1
      <4>1. seen'[c][p] = m
        BY <1>1, <1>2, <2>3, <3>2
      <4>2. \A l \in 1 .. i - 1 : queue'[c][l].pub # p
        BY <3>1, <3>2
      <4> QED BY <4>1, <4>2 DEF Reached
    <3>3. CASE k # 1
      <4>1. k - 1 \in 1 .. i - 1 /\ queue'[c][k - 1] = q[k]
        BY <1>1, <2>1, <3>3
      <4>2. \A l \in (k - 1) + 1 .. i - 1 : queue'[c][l].pub # p
        BY <3>1, <3>3
      <4> QED BY <2>3, <4>1, <4>2 DEF Reached
    <3> QED BY <3>2, <3>3
  <2> QED BY <1>0, <1>3, <2>2, <2>3 DEF Reached
<1>4. ASSUME NEW i \in 1 .. n - 1, queue'[c][i].pub = p
      PROVE  \E m \in 0 .. SeqMod - 1 :
               Reached(p, c, i - 1, m)' /\ queue'[c][i].num = (m + 1) % SeqMod
  <2>1. i + 1 \in 1 .. n /\ (i + 1) - 1 = i /\ i \in 1 .. n /\ queue'[c][i] = q[i + 1]
    BY <1>1
  <2>2. PICK m \in 0 .. SeqMod - 1 :
          Reached(p, c, (i + 1) - 1, m) /\ q[i + 1].num = (m + 1) % SeqMod
    BY <1>0, <1>4, <2>1 DEF Gapless
  <2>3. Reached(p, c, i - 1, m)'
    BY <1>3, <2>1, <2>2
  <2> QED BY <2>1, <2>2, <2>3
<1>5. PICK m \in 0 .. SeqMod - 1 :
        Reached(p, c, n, m) /\ sent[p] = IF InFlight(p, c) THEN (m + 1) % SeqMod ELSE m
  BY <1>0 DEF Gapless
<1>6. Reached(p, c, n - 1, m)'
  BY <1>1, <1>3, <1>5
<1>7. Len(queue'[c]) = n - 1
  BY <1>1
<1> QED BY <1>2, <1>4, <1>5, <1>6, <1>7 DEF Gapless

\* A delivered event is the next one of its publisher, and no one of any other.
LEMMA SentGapless ==
  ASSUME TypeOK, NEW p \in Publishers, NEW c \in Clients, Send(p, c),
         queue'[c] = Append(queue[c], [pub |-> p, num |-> sent[p]]),
         NEW o \in Publishers, Gapless(o, c)
  PROVE  Gapless(o, c)'
<1>0. PICK q, n, e : q = queue[c] /\ n = Len(q) /\ e = [pub |-> p, num |-> sent[p]]
  OBVIOUS
<1>1. /\ n \in Nat /\ Len(queue'[c]) = n + 1 /\ queue'[c][n + 1] = e
      /\ \A i \in 1 .. n : queue'[c][i] = q[i]
  <2>1. q \in Seq(Event) /\ queue'[c] = Append(q, e)
    BY <1>0 DEF TypeOK
  <2> QED BY <1>0, <2>1
<1>2. /\ seen' = seen /\ sent' = sent /\ sent[p] \in 0 .. SeqMod - 1
      /\ InFlight(p, c) /\ ~InFlight(p, c)'
      /\ o # p => (InFlight(o, c)' <=> InFlight(o, c))
  BY DEF TypeOK, Send, InFlight
<1>3. e.pub = p /\ e.num = sent[p]
  BY <1>0
<1>4. ASSUME NEW i \in 0 .. n, NEW m, Reached(o, c, i, m)
      PROVE  Reached(o, c, i, m)'
  <2>1. \A k \in 1 .. i : queue'[c][k] = q[k]
    BY <1>1
  <2>2. CASE m = seen[c][o] /\ \A k \in 1 .. i : q[k].pub # o
    BY <1>2, <2>1, <2>2 DEF Reached
  <2>3. ASSUME NEW k \in 1 .. i, q[k] = [pub |-> o, num |-> m],
               \A l \in k + 1 .. i : q[l].pub # o
        PROVE  Reached(o, c, i, m)'
    <3>1. \A l \in k + 1 .. i : l \in 1 .. i
      BY <1>1
    <3>2. \A l \in k + 1 .. i : queue'[c][l].pub # o
      BY <2>1, <2>3, <3>1
    <3> QED BY <2>1, <2>3, <3>2 DEF Reached
  <2> QED BY <1>0, <1>4, <2>2, <2>3 DEF Reached
<1>5. PICK m \in 0 .. SeqMod - 1 :
        Reached(o, c, n, m) /\ sent[o] = IF InFlight(o, c) THEN (m + 1) % SeqMod ELSE m
  BY <1>0 DEF Gapless
<1>6. Reached(o, c, n, m)'
  BY <1>1, <1>4, <1>5
<1>7. ASSUME NEW i \in 1 .. n + 1, queue'[c][i].pub = o
      PROVE  \E k \in 0 .. SeqMod - 1 :
               Reached(o, c, i - 1, k)' /\ queue'[c][i].num = (k + 1) % SeqMod
  <2>1. CASE i \in 1 .. n
    <3>1. PICK k \in 0 .. SeqMod - 1 :
            Reached(o, c, i - 1, k) /\ q[i].num = (k + 1) % SeqMod
      BY <1>0, <1>1, <1>7, <2>1 DEF Gapless
    <3>2. i - 1 \in 0 .. n
      BY <1>1, <2>1
    <3> QED BY <1>1, <1>4, <2>1, <3>1, <3>2
  <2>2. CASE i = n + 1
    <3>1. o = p /\ queue'[c][i].num = sent[p] /\ i - 1 = n
      BY <1>1, <1>3, <1>7, <2>2
    <3> QED BY <1>2, <1>5, <1>6, <3>1
  <2> QED BY <1>1, <2>1, <2>2
<1>8. \E k \in 0 .. SeqMod - 1 :
        /\ Reached(o, c, n + 1, k)'
        /\ sent'[o] = IF InFlight(o, c)' THEN (k + 1) % SeqMod ELSE k
  <2>1. CASE o = p
    <3>1. n + 1 \in 1 .. n + 1 /\ \A l \in (n + 1) + 1 .. n + 1 : FALSE
      BY <1>1
    <3>2. PICK k : k = sent[p]
      OBVIOUS
    <3>3. Reached(p, c, n + 1, k)'
      BY <1>0, <1>1, <3>1, <3>2 DEF Reached
    <3> QED BY <1>2, <2>1, <3>2, <3>3
  <2>2. CASE o # p
    <3>1. queue'[c][n + 1].pub # o
      BY <1>1, <1>3, <2>2
    <3>2. Reached(o, c, n + 1, m)'
      BY <1>1, <1>6, <3>1 DEF Reached
    <3> QED BY <1>2, <1>5, <2>2, <3>2
  <2> QED BY <2>1, <2>2
<1> QED BY <1>1, <1>7, <1>8 DEF Gapless

\* The event a publisher has just numbered is the one it is delivering.
LEMMA PublishGapless ==
  ASSUME TypeOK, NEW p \in Publishers, Publish(p), NEW c \in clients, Gapless(p, c)
  PROVE  Gapless(p, c)'
<1>1. /\ queue' = queue /\ seen' = seen /\ sent'[p] = (sent[p] + 1) % SeqMod
      /\ ~InFlight(p, c) /\ InFlight(p, c)'
  BY DEF TypeOK, Publish, InFlight
<1>2. \A i, n : Reached(p, c, i, n) => Reached(p, c, i, n)'
  BY <1>1 DEF Reached
<1>3. PICK n \in 0 .. SeqMod - 1 : Reached(p, c, Len(queue[c]), n) /\ sent[p] = n
  BY <1>1 DEF Gapless
<1>4. Reached(p, c, Len(queue[c]), n)'
  BY <1>1, <1>3 DEF Reached
<1>5. \A i \in 1 .. Len(queue'[c]) : queue'[c][i].pub = p =>
        \E m \in 0 .. SeqMod - 1 :
          Reached(p, c, i - 1, m)' /\ queue'[c][i].num = (m + 1) % SeqMod
  BY <1>1, <1>2 DEF Gapless
<1> QED BY <1>1, <1>3, <1>4, <1>5 DEF Gapless

LEMMA GapStep ==
  ASSUME HubInv, NoUnreportedGap, [Next]_vars
  PROVE  NoUnreportedGap'
<1> USE DEF NoUnreportedGap
<1>1. TypeOK
  BY DEF HubInv
<1>2. clients \subseteq Clients
  BY <1>1 DEF TypeOK
<1>3. ASSUME NEW c \in Clients, Handler(c) PROVE NoUnreportedGap'
  <2>1. CASE SubscribeLock(c) \/ Leave(c) \/ UnsubscribeLock(c) \/ Close(c)
    <3>1. UNCHANGED <<clients, queue, seen, sent, lost, ppc, todo>>
      BY <2>1 DEF SubscribeLock, Leave, UnsubscribeLock, Close
    <3>2. \A d \in clients, p \in Publishers : InFlight(p, d)' <=> InFlight(p, d)
      BY <3>1 DEF InFlight
    <3> QED BY <1>2, <3>1, <3>2, GaplessFrame
  <2>2. CASE SubscribeInsert(c)
    <3>1. /\ clients' = clients \cup {c} /\ c \notin clients
          /\ queue' = queue /\ sent' = sent /\ lost' = lost
          /\ \A d \in Clients \ {c} : seen'[d] = seen[d]
      BY <1>1, <2>2 DEF HubInv, TypeOK, ChannelInv, SubscribeInsert
    <3>2. \A d \in clients, p \in Publishers : InFlight(p, d)' <=> InFlight(p, d)
      BY <1>1, <2>2 DEF TypeOK, SubscribeInsert, MayWrite, NoReaders, Unlock, InFlight
    <3>3. ASSUME NEW d \in clients, NEW p \in Publishers, ~lost[d] PROVE Gapless(p, d)'
      <4>1. d \in Clients /\ d # c /\ Gapless(p, d)
        BY <1>2, <3>1, <3>3
      <4> QED BY <3>1, <3>2, <4>1, GaplessFrame
    <3>4. \A p \in Publishers : Gapless(p, c)'
      BY <2>2, InsertedGapless
    <3> QED BY <3>1, <3>3, <3>4
  <2>3. CASE UnsubscribeDelete(c)
    <3>1. clients' = clients \ {c} /\ UNCHANGED <<queue, seen, sent, lost>>
      BY <2>3 DEF UnsubscribeDelete, Delete
    <3>2. \A d \in clients', p \in Publishers : InFlight(p, d)' <=> InFlight(p, d)
      BY <1>1, <2>3 DEF TypeOK, UnsubscribeDelete, Delete, MayWrite, NoReaders, Unlock, InFlight
    <3>3. ASSUME NEW d \in clients', NEW p \in Publishers, ~lost[d] PROVE Gapless(p, d)'
      <4>1. d \in Clients /\ Gapless(p, d)
        BY <1>2, <3>1, <3>3
      <4> QED BY <3>1, <3>2, <4>1, GaplessFrame
    <3> QED BY <3>1, <3>3
  <2>4. CASE Receive(c)
    <3>1. /\ clients' = clients /\ sent' = sent /\ lost' = lost /\ UNCHANGED <<ppc, todo>>
          /\ \A d \in Clients \ {c} : queue'[d] = queue[d] /\ seen'[d] = seen[d]
      BY <1>1, <2>4 DEF TypeOK, Receive
    <3>2. \A d \in clients, p \in Publishers : InFlight(p, d)' <=> InFlight(p, d)
      BY <3>1 DEF InFlight
    <3>3. ASSUME NEW d \in clients, NEW p \in Publishers, ~lost[d] PROVE Gapless(p, d)'
      <4>1. d \in Clients /\ Gapless(p, d)
        BY <1>2, <3>3
      <4>2. CASE d = c
        BY <1>1, <2>4, <4>1, <4>2, ReceivedGapless
      <4>3. CASE d # c
        BY <3>1, <3>2, <4>1, <4>3, GaplessFrame
      <4> QED BY <4>2, <4>3
    <3> QED BY <3>1, <3>3
  <2>5. CASE Reconnect(c)
    <3>1. /\ clients' = clients /\ c \notin clients /\ sent' = sent /\ UNCHANGED <<ppc, todo>>
          /\ \A d \in Clients \ {c} :
               queue'[d] = queue[d] /\ seen'[d] = seen[d] /\ lost'[d] = lost[d]
      BY <1>1, <2>5 DEF HubInv, TypeOK, ChannelInv, Reconnect
    <3>2. \A d \in clients, p \in Publishers : InFlight(p, d)' <=> InFlight(p, d)
      BY <3>1 DEF InFlight
    <3>3. ASSUME NEW d \in clients, NEW p \in Publishers, ~lost'[d] PROVE Gapless(p, d)'
      <4>1. d \in Clients /\ d # c /\ Gapless(p, d)
        BY <1>2, <3>1, <3>3
      <4> QED BY <3>1, <3>2, <4>1, GaplessFrame
    <3> QED BY <3>1, <3>3
  <2> QED BY <1>3, <2>1, <2>2, <2>3, <2>4, <2>5 DEF Handler
<1>4. ASSUME NEW p \in Publishers, Publisher(p) PROVE NoUnreportedGap'
  <2>1. CASE Publish(p)
    <3>1. /\ UNCHANGED <<clients, queue, seen, lost>>
          /\ \A o \in Publishers \ {p} : sent'[o] = sent[o]
      BY <1>1, <2>1 DEF TypeOK, Publish
    <3>2. \A d \in clients, o \in Publishers \ {p} : InFlight(o, d)' <=> InFlight(o, d)
      BY <1>1, <2>1 DEF TypeOK, Publish, InFlight
    <3>3. ASSUME NEW d \in clients, NEW o \in Publishers, ~lost[d] PROVE Gapless(o, d)'
      <4>1. d \in Clients /\ Gapless(o, d)
        BY <1>2, <3>3
      <4>2. CASE o = p
        BY <1>1, <2>1, <4>1, <4>2, PublishGapless
      <4>3. CASE o # p
        BY <3>1, <3>2, <4>1, <4>3, GaplessFrame
      <4> QED BY <4>2, <4>3
    <3> QED BY <3>1, <3>3
  <2>2. CASE Published(p)
    <3>1. UNCHANGED <<clients, queue, seen, sent, lost>>
      BY <2>2 DEF Published
    <3>2. \A d \in clients, o \in Publishers : InFlight(o, d)' <=> InFlight(o, d)
      BY <1>1, <2>2 DEF TypeOK, Published, InFlight
    <3> QED BY <1>2, <3>1, <3>2, GaplessFrame
  <2>3. ASSUME NEW c \in Clients, Send(p, c) PROVE NoUnreportedGap'
    <3>1. /\ UNCHANGED <<clients, seen, sent, ppc>>
          /\ \A d \in Clients \ {c} : queue'[d] = queue[d] /\ lost'[d] = lost[d]
          /\ \A d \in Clients \ {c}, o \in Publishers : InFlight(o, d)' <=> InFlight(o, d)
      BY <1>1, <2>3 DEF TypeOK, Send, InFlight
    <3>2. ASSUME NEW d \in clients, NEW o \in Publishers, ~lost'[d] PROVE Gapless(o, d)'
      <4>1. d \in Clients
        BY <1>2
      <4>2. CASE d = c
        <5>1. chan[c] # "closed"
          BY <2>3 DEF HubInv, SendInv, ChannelInv, Send
        <5>2. ~lost[c] /\ queue'[c] = Append(queue[c], [pub |-> p, num |-> sent[p]])
          BY <1>1, <2>3, <3>2, <4>2, <5>1 DEF TypeOK, Send
        <5>3. Gapless(o, c)
          BY <4>2, <5>2
        <5> QED BY <1>1, <2>3, <4>2, <5>2, <5>3, SentGapless
      <4>3. CASE d # c
        <5>1. Gapless(o, d)
          BY <3>1, <3>2, <4>1, <4>3
        <5> QED BY <3>1, <4>1, <4>3, <5>1, GaplessFrame
      <4> QED BY <4>2, <4>3
    <3> QED BY <3>1, <3>2
  <2> QED BY <1>4, <2>1, <2>2, <2>3 DEF Publisher
<1>5. CASE UNCHANGED vars
  <2>1. UNCHANGED <<clients, queue, seen, sent, lost, ppc, todo>>
    BY <1>5 DEF vars
  <2>2. \A d \in clients, p \in Publishers : InFlight(p, d)' <=> InFlight(p, d)
    BY <2>1 DEF InFlight
  <2> QED BY <1>2, <2>1, <2>2, GaplessFrame
<1> QED BY <1>3, <1>4, <1>5 DEF Next

\* A subscriber that no event was dropped for has missed none, for any number of
\* publishers that deliver at once and of subscribers that come and go.
THEOREM NoGapUnreported == Spec => []NoUnreportedGap
<1>1. Init => NoUnreportedGap
  BY DEF Init, NoUnreportedGap
<1>2. HubInv /\ NoUnreportedGap /\ [Next]_vars => NoUnreportedGap'
  BY GapStep
<1> QED BY <1>1, <1>2, HubInvariant, PTL DEF Spec

-----------------------------------------------------------------------------
(* Refinement.                                                              *)

LEMMA MailboxStep ==
  ASSUME HubInv, HubInv', [Next]_vars
  PROVE  [Mailbox!Next]_(Mailbox!vars)
<1> USE DEF HubInv
<1>1. ASSUME NEW c \in Clients, Handler(c)
      PROVE  Mailbox!Next \/ UNCHANGED <<MailboxState, queue>>
  <2>1. CASE SubscribeLock(c) \/ Leave(c) \/ UnsubscribeLock(c) \/ Close(c)
    <3>1. UNCHANGED <<clients, queue>>
      BY <2>1 DEF SubscribeLock, Leave, UnsubscribeLock, Close
    <3>2. \A k \in Clients : hpc'[k] \in {"removed", "gone"} <=> hpc[k] \in {"removed", "gone"}
      BY <2>1 DEF TypeOK, SubscribeLock, Leave, UnsubscribeLock, Close
    <3> QED BY <3>1, <3>2 DEF MailboxState
  <2>2. CASE SubscribeInsert(c)
    <3>1. c \notin clients /\ hpc[c] = "joining" /\ queue[c] = <<>>
      BY <2>2 DEF SubscribeInsert, ChannelInv
    <3>2. MailboxState[c] = "none"
      BY <3>1 DEF MailboxState
    <3>3. MailboxState' = [MailboxState EXCEPT ![c] = "open"]
      BY <2>2 DEF TypeOK, SubscribeInsert, MailboxState
    <3>4. queue' = [queue EXCEPT ![c] = <<>>]
      BY <2>2, <3>1 DEF TypeOK, SubscribeInsert
    <3> QED BY <3>2, <3>3, <3>4 DEF Mailbox!Next, Mailbox!Open
  <2>3. CASE UnsubscribeDelete(c)
    <3>1. MailboxState[c] = "open"
      BY <2>3 DEF UnsubscribeDelete, ChannelInv, MailboxState
    <3>2. MailboxState' = [MailboxState EXCEPT ![c] = "shut"]
      BY <2>3 DEF TypeOK, UnsubscribeDelete, Delete, MailboxState
    <3>3. queue' = queue
      BY <2>3 DEF UnsubscribeDelete
    <3> QED BY <3>1, <3>2, <3>3 DEF Mailbox!Next, Mailbox!Shut
  <2>4. CASE Receive(c)
    <3>1. MailboxState[c] = "open"
      BY <2>4 DEF Receive, ChannelInv, MailboxState
    <3>2. MailboxState' = MailboxState
      BY <2>4 DEF Receive, MailboxState
    <3> QED BY <2>4, <3>1, <3>2 DEF Receive, Mailbox!Next, Mailbox!Take
  <2>5. CASE Reconnect(c)
    <3>1. MailboxState[c] = "shut"
      BY <2>5 DEF Reconnect, ChannelInv, MailboxState
    <3>2. MailboxState' = [MailboxState EXCEPT ![c] = "none"]
      BY <2>5, <3>1 DEF TypeOK, Reconnect, ChannelInv, MailboxState
    <3> QED BY <2>5, <3>1, <3>2 DEF Reconnect, Mailbox!Next, Mailbox!Discard
  <2> QED BY <1>1, <2>1, <2>2, <2>3, <2>4, <2>5 DEF Handler
<1>2. ASSUME NEW p \in Publishers, Publisher(p)
      PROVE  Mailbox!Next \/ UNCHANGED <<MailboxState, queue>>
  <2>1. MailboxState' = MailboxState
    BY <1>2 DEF Publisher, Publish, Published, Send, MailboxState
  <2>2. CASE Publish(p) \/ Published(p)
    BY <2>1, <2>2 DEF Publish, Published
  <2>3. ASSUME NEW c \in Clients, Send(p, c), queue' # queue
        PROVE  Mailbox!Next
    <3>1. MailboxState[c] = "open"
      BY <2>3 DEF Send, SendInv, MailboxState
    <3>2. [pub |-> p, num |-> sent[p]] \in Event
      BY DEF TypeOK, Event
    <3>3. /\ Len(queue[c]) < Cap
          /\ queue' = [queue EXCEPT ![c] = Append(@, [pub |-> p, num |-> sent[p]])]
      BY <2>3 DEF Send, Room
    <3>4. Mailbox!Accept(c, [pub |-> p, num |-> sent[p]])
      BY <2>1, <3>1, <3>3 DEF Mailbox!Accept
    <3> QED BY <3>2, <3>4 DEF Mailbox!Next
  <2> QED BY <1>2, <2>1, <2>2, <2>3 DEF Publisher
<1>3. CASE UNCHANGED vars
  BY <1>3 DEF vars, MailboxState, Mailbox!vars
<1> QED BY <1>1, <1>2, <1>3 DEF Next, Mailbox!vars

\* The hub is one bounded mailbox per subscriber, and nothing is delivered to a
\* subscriber once Unsubscribe has released the lock.
THEOREM HubRefinesMailboxes == Spec => ImplementsMailboxes
<1>1. Init => Mailbox!Init
  BY DEF Init, Mailbox!Init, MailboxState
<1>2. HubInv /\ HubInv' /\ [Next]_vars => [Mailbox!Next]_(Mailbox!vars)
  BY MailboxStep
<1> QED BY <1>1, <1>2, HubInvariant, PTL DEF Spec, ImplementsMailboxes, Mailbox!Spec

=============================================================================
