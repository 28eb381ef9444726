------------------------------ MODULE Mailboxes ------------------------------
(***************************************************************************)
(* What the hub promises each event-stream handler, without locks, channels *)
(* or goroutines: a bounded first-in first-out mailbox that accepts events  *)
(* only between Subscribe and Unsubscribe, and that nothing touches         *)
(* afterwards.  Hub is shown to implement this specification.               *)
(***************************************************************************)
EXTENDS Naturals, Sequences

CONSTANTS Clients,  \* mailboxes, one for each event-stream request being served
          Events,   \* what can be put in a mailbox
          Cap       \* how many events a mailbox holds

VARIABLES state,    \* "none" before Subscribe, "open", "shut" after Unsubscribe
          box       \* the events waiting in each mailbox

vars == <<state, box>>

Init ==
  /\ state = [c \in Clients |-> "none"]
  /\ box = [c \in Clients |-> <<>>]

Open(c) ==
  /\ state[c] = "none"
  /\ state' = [state EXCEPT ![c] = "open"]
  /\ box' = [box EXCEPT ![c] = <<>>]

\* Losing an event when the mailbox is full is a stuttering step.
Accept(c, e) ==
  /\ state[c] = "open"
  /\ Len(box[c]) < Cap
  /\ box' = [box EXCEPT ![c] = Append(@, e)]
  /\ UNCHANGED state

Take(c) ==
  /\ state[c] = "open"
  /\ box[c] # <<>>
  /\ box' = [box EXCEPT ![c] = Tail(@)]
  /\ UNCHANGED state

Shut(c) ==
  /\ state[c] = "open"
  /\ state' = [state EXCEPT ![c] = "shut"]
  /\ UNCHANGED box

\* The mailbox is discarded; another request may be served in its place.
Discard(c) ==
  /\ state[c] = "shut"
  /\ state' = [state EXCEPT ![c] = "none"]
  /\ box' = [box EXCEPT ![c] = <<>>]

Next ==
  \E c \in Clients :
    \/ Open(c) \/ Take(c) \/ Shut(c) \/ Discard(c)
    \/ \E e \in Events : Accept(c, e)

Spec == Init /\ [][Next]_vars

=============================================================================
