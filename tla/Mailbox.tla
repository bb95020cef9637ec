------------------------------- MODULE Mailbox -------------------------------
(***************************************************************************)
(* What one subscription of the event bus promises, whatever threads, lock *)
(* and timeouts implement it: a bounded first-in first-out mailbox.        *)
(*                                                                         *)
(* accepted[s] is everything ever put into mailbox s, oldest first;        *)
(* popped[s] is everything ever removed from it, in removal order, and by  *)
(* whom: the subscription's consumer thread, or a publisher that evicted   *)
(* it to make room.  A mailbox is "open" until it is told to stop; while   *)
(* it is "closing" the consumer may already be waiting inside the queue    *)
(* and takes at most one more event; "closed" it takes none.               *)
(***************************************************************************)
EXTENDS Naturals, Sequences

CONSTANTS
  Subs,           \* the subscriptions
  Events,         \* the events
  OverflowPolicy, \* OverflowPolicy[s]: "BLOCK" or "DROP_OLDEST"
  QueueSize       \* QueueSize[s]: the capacity of mailbox s

VARIABLES accepted, popped, phase

vars == <<accepted, popped, phase>>

\* The events still inside mailbox s.
Depth(s) == Len(accepted[s]) - Len(popped[s])

Holds(s, e) == \E i \in 1..Len(accepted[s]) : accepted[s][i] = e

Init ==
  /\ accepted = [s \in Subs |-> <<>>]
  /\ popped = [s \in Subs |-> <<>>]
  /\ phase = [s \in Subs |-> "open"]

\* An event enters at the back, at most once, and only if there is room.
Accept(s, e) ==
  /\ Depth(s) < QueueSize[s]
  /\ ~Holds(s, e)
  /\ accepted' = [accepted EXCEPT ![s] = Append(@, e)]
  /\ UNCHANGED <<popped, phase>>

Remove(s, who) ==
  /\ Depth(s) > 0
  /\ popped' = [popped EXCEPT ![s] =
                  Append(@, [event |-> accepted[s][Len(@) + 1], by |-> who])]
  /\ UNCHANGED accepted

\* The consumer removes the oldest event.
Take(s) ==
  /\ phase[s] # "closed"
  /\ Remove(s, "consumer")
  /\ phase' = [phase EXCEPT ![s] = IF @ = "closing" THEN "closed" ELSE @]

\* A publisher discards the oldest event: never on a BLOCK subscription.
Discard(s) ==
  /\ OverflowPolicy[s] = "DROP_OLDEST"
  /\ Remove(s, "publisher")
  /\ UNCHANGED phase

\* The mailbox is told to stop, or has stopped; it never reopens.
Close(s) ==
  /\ phase' \in {[phase EXCEPT ![s] = "closing"], [phase EXCEPT ![s] = "closed"]}
  /\ phase[s] # "closed"
  /\ UNCHANGED <<accepted, popped>>

Next ==
  \E s \in Subs :
    \/ \E e \in Events : Accept(s, e)
    \/ Take(s)
    \/ Discard(s)
    \/ Close(s)

Spec == Init /\ [][Next]_vars
==============================================================================
