--------------------------------- MODULE Hub ---------------------------------
(***************************************************************************)
(* The broadcast hub (internal/hub/hub.go) with the two kinds of goroutine  *)
(* that use it: publishers, which call PublishSnapshot, and the handlers of *)
(* GET /api/events (internal/server/server.go), each of which subscribes,   *)
(* reads its channel until its client leaves, and unsubscribes.             *)
(*                                                                          *)
(* h.mu is Go's RWMutex: Lock first announces the writer, which makes later *)
(* RLock calls wait, then waits for the readers that are inside; Unlock     *)
(* lets in every reader that waited.  A send to one subscriber is a step of *)
(* its own, because several publishers hold the read lock together and      *)
(* handlers receive while they send.                                        *)
(*                                                                          *)
(* An event that json.Marshal rejects makes Publish return before the lock: *)
(* a stuttering step here.                                                  *)
(***************************************************************************)
EXTENDS Naturals, Sequences, FiniteSets

CONSTANTS
  Publishers,   \* goroutines that publish: ingest runs, callbacks, requests
  Clients,      \* event-stream requests served at once; a slot is used again
  Cap,          \* capacity of a subscriber channel; 8 in Subscribe
  SeqMod,       \* events of a publisher are numbered modulo SeqMod, which tells
                \* those in one queue apart when SeqMod > Cap + 1
  None          \* no handler

ASSUME HubAssumption ==
  /\ Cap \in Nat \ {0}
  /\ SeqMod \in Nat \ {0}
  /\ None \notin Clients

VARIABLES
  clients,      \* h.clients
  chan,         \* each slot's channel: "nil", "open" or "closed"
  queue,        \* what each channel buffers
  writer,       \* the handler that announced Lock and has not unlocked
  hpc,          \* where each handler is
  ppc,          \* where each publisher is
  todo,         \* subscribers the range loop of Publish has not reached
  sent,         \* history: number of the publisher's latest event
  seen,         \* history: number of the latest event each handler received
  lost,         \* history: an event was dropped for this subscriber
  panicked      \* a send on a closed channel, or a second close

vars == <<clients, chan, queue, writer, hpc, ppc, todo, sent, seen, lost, panicked>>

HandlerPC == {"new", "joining", "serving", "leaving", "parting", "removed", "gone"}
PublisherPC == {"idle", "blocked", "sending"}
Event == [pub : Publishers, num : 0 .. SeqMod - 1]

Init ==
  /\ clients = {}
  /\ chan = [c \in Clients |-> "nil"]
  /\ queue = [c \in Clients |-> <<>>]
  /\ writer = None
  /\ hpc = [c \in Clients |-> "new"]
  /\ ppc = [p \in Publishers |-> "idle"]
  /\ todo = [p \in Publishers |-> {}]
  /\ sent = [p \in Publishers |-> 0]
  /\ seen = [c \in Clients |-> [p \in Publishers |-> 0]]
  /\ lost = [c \in Clients |-> FALSE]
  /\ panicked = FALSE

-----------------------------------------------------------------------------
(* The lock.  Unlock(S) lets the waiting publishers in, to range over S.    *)

Announce(c) == writer = None /\ writer' = c

NoReaders == \A p \in Publishers : ppc[p] # "sending"

MayWrite(c) == writer = c /\ NoReaders

Unlock(S) ==
  /\ writer' = None
  /\ ppc' = [p \in Publishers |-> IF ppc[p] = "blocked" THEN "sending" ELSE ppc[p]]
  /\ todo' = [p \in Publishers |-> IF ppc[p] = "blocked" THEN S ELSE todo[p]]

-----------------------------------------------------------------------------
(* The handler: Subscribe, the select loop, the deferred Unsubscribe.       *)

\* ch := make(chan []byte, 8); h.mu.Lock()
SubscribeLock(c) ==
  /\ hpc[c] = "new"
  /\ Announce(c)
  /\ chan' = [chan EXCEPT ![c] = "open"]
  /\ hpc' = [hpc EXCEPT ![c] = "joining"]
  /\ UNCHANGED <<clients, queue, ppc, todo, sent, seen, lost, panicked>>

\* The number of p's latest event that can no longer reach a new subscriber.
Passed(p) == IF ppc[p] = "blocked" THEN (sent[p] + SeqMod - 1) % SeqMod ELSE sent[p]

\* h.clients[ch] = struct{}{}; h.mu.Unlock()
SubscribeInsert(c) ==
  /\ hpc[c] = "joining"
  /\ MayWrite(c)
  /\ clients' = clients \cup {c}
  /\ Unlock(clients \cup {c})
  /\ hpc' = [hpc EXCEPT ![c] = "serving"]
  /\ seen' = [seen EXCEPT ![c] = [p \in Publishers |-> Passed(p)]]
  /\ UNCHANGED <<chan, queue, sent, lost, panicked>>

\* Mutant: the handler forwards the newest event only and drops those before it.
ReceiveLatest(c) ==
  /\ hpc[c] = "serving"
  /\ queue[c] # <<>>
  /\ LET e == queue[c][Len(queue[c])]
     IN seen' = [seen EXCEPT ![c][e.pub] = e.num]
  /\ queue' = [queue EXCEPT ![c] = <<>>]
  /\ UNCHANGED <<clients, chan, writer, hpc, ppc, todo, sent, lost, panicked>>

\* case data, ok := <-ch
Receive(c) ==
  /\ hpc[c] = "serving"
  /\ queue[c] # <<>>
  /\ LET e == Head(queue[c])
     IN seen' = [seen EXCEPT ![c][e.pub] = e.num]
  /\ queue' = [queue EXCEPT ![c] = Tail(@)]
  /\ UNCHANGED <<clients, chan, writer, hpc, ppc, todo, sent, lost, panicked>>

\* case <-r.Context().Done(): the browser went away
Leave(c) ==
  /\ hpc[c] = "serving"
  /\ hpc' = [hpc EXCEPT ![c] = "leaving"]
  /\ UNCHANGED <<clients, chan, queue, writer, ppc, todo, sent, seen, lost, panicked>>

\* Mutant: the channel is closed before the lock is asked for.
CloseFirst(c) ==
  /\ hpc[c] = "leaving"
  /\ Announce(c)
  /\ hpc' = [hpc EXCEPT ![c] = "parting"]
  /\ chan' = [chan EXCEPT ![c] = "closed"]
  /\ UNCHANGED <<clients, queue, ppc, todo, sent, seen, lost, panicked>>

UnsubscribeLock(c) ==
  /\ hpc[c] = "leaving"
  /\ Announce(c)
  /\ hpc' = [hpc EXCEPT ![c] = "parting"]
  /\ UNCHANGED <<clients, chan, queue, ppc, todo, sent, seen, lost, panicked>>

\* Mutant: the channel is closed without having been deleted.
KeepOnDelete(c) == clients

Delete(c) == clients \ {c}

\* delete(h.clients, ch); h.mu.Unlock()
UnsubscribeDelete(c) ==
  /\ hpc[c] = "parting"
  /\ MayWrite(c)
  /\ clients' = Delete(c)
  /\ Unlock(Delete(c))
  /\ hpc' = [hpc EXCEPT ![c] = "removed"]
  /\ UNCHANGED <<chan, queue, sent, seen, lost, panicked>>

\* close(ch), outside the lock
Close(c) ==
  /\ hpc[c] = "removed"
  /\ panicked' = (panicked \/ chan[c] = "closed")
  /\ chan' = [chan EXCEPT ![c] = "closed"]
  /\ hpc' = [hpc EXCEPT ![c] = "gone"]
  /\ UNCHANGED <<clients, queue, writer, ppc, todo, sent, seen, lost>>

\* Another request is served in this slot, with a channel of its own.
Reconnect(c) ==
  /\ hpc[c] = "gone"
  /\ hpc' = [hpc EXCEPT ![c] = "new"]
  /\ chan' = [chan EXCEPT ![c] = "nil"]
  /\ queue' = [queue EXCEPT ![c] = <<>>]
  /\ seen' = [seen EXCEPT ![c] = [p \in Publishers |-> 0]]
  /\ lost' = [lost EXCEPT ![c] = FALSE]
  /\ UNCHANGED <<clients, writer, ppc, todo, sent, panicked>>

-----------------------------------------------------------------------------
(* Publish.                                                                 *)

ReaderMayEnter == writer = None

\* data := json.Marshal(ev); h.mu.RLock()
Publish(p) ==
  /\ ppc[p] = "idle"
  /\ sent' = [sent EXCEPT ![p] = (@ + 1) % SeqMod]
  /\ IF ReaderMayEnter
     THEN /\ ppc' = [ppc EXCEPT ![p] = "sending"]
          /\ todo' = [todo EXCEPT ![p] = clients]
     ELSE /\ ppc' = [ppc EXCEPT ![p] = "blocked"]
          /\ UNCHANGED todo
  /\ UNCHANGED <<clients, chan, queue, writer, hpc, seen, lost, panicked>>

\* Mutant: one slot too many.
RoomForOneMore(c) == Len(queue[c]) <= Cap

Room(c) == Len(queue[c]) < Cap

\* Mutant: the default branch tries again.
SendSpinning(p, c) ==
  /\ ppc[p] = "sending"
  /\ c \in todo[p]
  /\ IF Room(c)
     THEN /\ queue' = [queue EXCEPT ![c] = Append(@, [pub |-> p, num |-> sent[p]])]
          /\ todo' = [todo EXCEPT ![p] = @ \ {c}]
     ELSE UNCHANGED <<queue, todo>>
  /\ UNCHANGED <<clients, chan, writer, hpc, ppc, sent, seen, lost, panicked>>

\* select { case ch <- data: default: } for one subscriber of the range loop
Send(p, c) ==
  /\ ppc[p] = "sending"
  /\ c \in todo[p]
  /\ todo' = [todo EXCEPT ![p] = @ \ {c}]
  /\ \/ /\ chan[c] = "closed"
        /\ panicked' = TRUE
        /\ UNCHANGED <<queue, lost>>
     \/ /\ chan[c] # "closed"
        /\ Room(c)
        /\ queue' = [queue EXCEPT ![c] = Append(@, [pub |-> p, num |-> sent[p]])]
        /\ UNCHANGED <<lost, panicked>>
     \/ /\ chan[c] # "closed"
        /\ ~Room(c)
        /\ lost' = [lost EXCEPT ![c] = TRUE]
        /\ UNCHANGED <<queue, panicked>>
  /\ UNCHANGED <<clients, chan, writer, hpc, ppc, sent, seen>>

\* defer h.mu.RUnlock()
Published(p) ==
  /\ ppc[p] = "sending"
  /\ todo[p] = {}
  /\ ppc' = [ppc EXCEPT ![p] = "idle"]
  /\ UNCHANGED <<clients, chan, queue, writer, hpc, todo, sent, seen, lost, panicked>>

-----------------------------------------------------------------------------

Handler(c) ==
  \/ SubscribeLock(c) \/ SubscribeInsert(c)
  \/ Receive(c) \/ Leave(c)
  \/ UnsubscribeLock(c) \/ UnsubscribeDelete(c) \/ Close(c)
  \/ Reconnect(c)

Publisher(p) ==
  \/ Publish(p) \/ Published(p)
  \/ \E c \in Clients : Send(p, c)

Next ==
  \/ \E c \in Clients : Handler(c)
  \/ \E p \in Publishers : Publisher(p)

Spec == Init /\ [][Next]_vars

(***************************************************************************)
(* Goroutines inside the hub keep running and a handler that leaves gets    *)
(* the writers' mutex inside RWMutex in turn (sync.Mutex hands the lock to  *)
(* the longest waiter after 1 ms): strong fairness, because other handlers  *)
(* take and release it.  Nothing makes a handler receive, a client leave or *)
(* anybody publish.                                                         *)
(***************************************************************************)
Fairness ==
  /\ \A p \in Publishers :
       /\ WF_vars(Published(p))
       /\ WF_vars(\E c \in Clients : Send(p, c))
  /\ \A c \in Clients :
       /\ WF_vars(SubscribeInsert(c))
       /\ SF_vars(UnsubscribeLock(c))
       /\ WF_vars(UnsubscribeDelete(c))
       /\ WF_vars(Close(c))

FairSpec == Spec /\ Fairness

-----------------------------------------------------------------------------
(* Properties.                                                              *)

(***************************************************************************)
(* Types; Len(queue[c]) <= Cap says that no channel overfills.              *)
(***************************************************************************)
TypeOK ==
  /\ clients \subseteq Clients
  /\ chan \in [Clients -> {"nil", "open", "closed"}]
  /\ queue \in [Clients -> Seq(Event)]
  /\ \A c \in Clients : Len(queue[c]) <= Cap
  /\ writer \in Clients \cup {None}
  /\ hpc \in [Clients -> HandlerPC]
  /\ ppc \in [Publishers -> PublisherPC]
  /\ todo \in [Publishers -> SUBSET Clients]
  /\ sent \in [Publishers -> 0 .. SeqMod - 1]
  /\ seen \in [Clients -> [Publishers -> 0 .. SeqMod - 1]]
  /\ lost \in [Clients -> BOOLEAN]
  /\ panicked \in BOOLEAN

(***************************************************************************)
(* Unsubscribe closes the channel after releasing the lock, while Publish   *)
(* may be about to send to it.  No interleaving of the two sends on a       *)
(* closed channel or closes one twice, which would panic the process.       *)
(***************************************************************************)
NoPanic == ~panicked

\* The latest event of p has not been offered to c yet.
InFlight(p, c) == ppc[p] = "blocked" \/ (ppc[p] = "sending" /\ c \in todo[p])

\* n is the number of p's latest event among those that c received and the first i
\* that its channel buffers.
Reached(p, c, i, n) ==
  \/ /\ n = seen[c][p]
     /\ \A k \in 1 .. i : queue[c][k].pub # p
  \/ \E k \in 1 .. i : /\ queue[c][k] = [pub |-> p, num |-> n]
                       /\ \A l \in k + 1 .. i : queue[c][l].pub # p

\* What c buffers of p goes on where c is, one by one, up to p's latest event, less
\* the one that p is still delivering.
Gapless(p, c) ==
  /\ \A i \in 1 .. Len(queue[c]) : queue[c][i].pub = p =>
       \E n \in 0 .. SeqMod - 1 :
         Reached(p, c, i - 1, n) /\ queue[c][i].num = (n + 1) % SeqMod
  /\ \E n \in 0 .. SeqMod - 1 :
       /\ Reached(p, c, Len(queue[c]), n)
       /\ sent[p] = IF InFlight(p, c) THEN (n + 1) % SeqMod ELSE n

(***************************************************************************)
(* A subscriber sees every event of every publisher, once and in the order  *)
(* that publisher sent them, from the moment Subscribe inserted it, unless  *)
(* the default branch dropped one because its channel was full.             *)
(***************************************************************************)
NoUnreportedGap ==
  \A c \in clients, p \in Publishers : ~lost[c] => Gapless(p, c)

(***************************************************************************)
(* Publish returns whatever the subscribers do: one that never reads again, *)
(* or a crowd that subscribes and unsubscribes, cannot hold up ingest.      *)
(***************************************************************************)
PublishReturns ==
  \A p \in Publishers : ppc[p] # "idle" ~> ppc[p] = "idle"

(***************************************************************************)
(* A handler whose client left gets the write lock, and its channel is      *)
(* deleted and closed, although publishers never pause: a waiting Lock      *)
(* keeps new readers out.                                                   *)
(***************************************************************************)
UnsubscribeReturns ==
  \A c \in Clients : hpc[c] = "leaving" ~> hpc[c] = "gone"

(***************************************************************************)
(* The hub implements one mailbox per subscriber: inserted is open, deleted *)
(* is shut.  In particular nothing reaches a subscriber after Unsubscribe   *)
(* released the lock, however many publishers were ranging over h.clients.  *)
(***************************************************************************)
MailboxState ==
  [c \in Clients |->
     IF c \in clients THEN "open"
     ELSE IF hpc[c] \in {"removed", "gone"} THEN "shut" ELSE "none"]

Mailbox == INSTANCE Mailboxes WITH Events <- Event, state <- MailboxState, box <- queue

ImplementsMailboxes == Mailbox!Spec
=============================================================================
