------------------------------ MODULE EventBus -------------------------------
(***************************************************************************)
(* runtime/events/bus.py: topic-routed publish/subscribe.  Every           *)
(* subscription owns a bounded queue and a consumer thread; publishers put *)
(* an event into the queues of the subscriptions bound to its type, one    *)
(* after the other, outside the bus's lock.                                *)
(*                                                                         *)
(* Threads are the outside callers and the consumer threads themselves: a  *)
(* handler runs on its subscription's consumer thread and may call the bus *)
(* back, so consumer thread s is named by its subscription s.  A critical  *)
(* section of the bus's lock never blocks and is one atomic step; so is    *)
(* one operation of a queue.Queue, whose internal lock makes it one.       *)
(* Timeouts carry no clock: an expired timeout is a step of its own.       *)
(***************************************************************************)
EXTENDS Naturals, Sequences, SequencesExt, FiniteSets

CONSTANTS
  Callers,        \* threads outside the bus
  Subs,           \* the Subscription objects a run may create
  Events,         \* the events a run may publish, each by one publish call
  NoEvent,        \* no event
  Topics,         \* event types
  SubTopic,       \* SubTopic[s]: the event_type s is bound to
  EventTopic,     \* EventTopic[e]: the event_type of e
  OverflowPolicy, \* OverflowPolicy[s]: "BLOCK" or "DROP_OLDEST"
  QueueSize,      \* QueueSize[s]: the capacity of the queue of s
  Publishers,     \* the threads that call publish
  Controllers     \* the threads that call subscribe, unsubscribe or shutdown

Threads == Callers \cup Subs

ASSUME SetsAssumption ==
  /\ Callers \cap Subs = {}
  /\ Publishers \subseteq Threads
  /\ Controllers \subseteq Threads
  /\ IsFiniteSet(Callers)
  /\ IsFiniteSet(Subs)
  /\ NoEvent \notin Events

\* A queue.Queue of size 0 would be unbounded; subscribe() replaces a size of
\* 0 by the bus's default, so every queue is bounded.
ASSUME SubscriptionAssumption ==
  /\ SubTopic \in [Subs -> Topics]
  /\ EventTopic \in [Events -> Topics]
  /\ OverflowPolicy \in [Subs -> {"BLOCK", "DROP_OLDEST"}]
  /\ QueueSize \in [Subs -> Nat \ {0}]

VARIABLES
  subscriptions, \* [Topics -> Seq(Subs)]: EventBus._subscriptions
  queue,         \* [Subs -> Seq(Events)]: Subscription._queue
  stopRequested, \* [Subs -> BOOLEAN]: Subscription._stop_requested
  consumer,      \* where the consumer thread of s stands
  inHand,        \* the event whose handler the consumer thread of s is running
  delivered, dropped, handlerErrors, \* Subscription.stats
  pc,            \* where the bus call thread t is in stands
  todo,          \* the subscriptions that call has still to deal with
  event,         \* the event thread t is publishing
  accepted,      \* history: every event put into the queue of s, in order
  popped,        \* history: every event removed from it, in order, and by whom
  issued,        \* history: the events thread t published, in order
  snapshot,      \* history: the targets publish(e) read under the lock
  outcome        \* history: how publish(e) ended

threadVars == <<pc, todo, event>>
subVars == <<queue, stopRequested, consumer, inHand>>
stats == <<delivered, dropped, handlerErrors>>
history == <<accepted, popped, issued, snapshot, outcome>>
vars == <<subscriptions, subVars, stats, threadVars, history>>

ConsumerStates == {"absent", "check", "waiting", "handling", "exited"}
CallStates ==
  {"idle", "registering", "putting", "evicting", "counting", "signalling", "joining"}

Init ==
  /\ subscriptions = [k \in Topics |-> <<>>]
  /\ queue = [s \in Subs |-> <<>>]
  /\ stopRequested = [s \in Subs |-> FALSE]
  /\ consumer = [s \in Subs |-> "absent"]
  /\ inHand = [s \in Subs |-> NoEvent]
  /\ delivered = [s \in Subs |-> 0]
  /\ dropped = [s \in Subs |-> 0]
  /\ handlerErrors = [s \in Subs |-> 0]
  /\ pc = [t \in Threads |-> "idle"]
  /\ todo = [t \in Threads |-> <<>>]
  /\ event = [t \in Threads |-> NoEvent]
  /\ accepted = [s \in Subs |-> <<>>]
  /\ popped = [s \in Subs |-> <<>>]
  /\ issued = [t \in Threads |-> <<>>]
  /\ snapshot = [e \in Events |-> <<>>]
  /\ outcome = [e \in Events |-> "unpublished"]

------------------------------------------------------------------------------
(* Calls into the bus.                                                     *)

\* A consumer thread calls the bus only from inside its handler.
CanCall(t) == pc[t] = "idle" /\ (t \in Subs => consumer[t] = "handling")

\* Mutant: a finished call keeps its event.
EndCall_KeepsEvent(t) ==
  /\ pc' = [pc EXCEPT ![t] = "idle"]
  /\ todo' = [todo EXCEPT ![t] = <<>>]
  /\ UNCHANGED event

EndCall(t) ==
  /\ pc' = [pc EXCEPT ![t] = "idle"]
  /\ todo' = [todo EXCEPT ![t] = <<>>]
  /\ event' = [event EXCEPT ![t] = NoEvent]

Room(s) == Len(queue[s]) < QueueSize[s]

Registered(s) == \E k \in Topics : s \in ToSet(subscriptions[k])

\* Mutant: unsubscribe only stops the subscription.
Without_Kept(bucket, s) == bucket

\* list.remove: the list without the first occurrence of s.
Without(bucket, s) ==
  IF s \in ToSet(bucket)
    THEN RemoveAt(bucket, CHOOSE i \in 1..Len(bucket) : bucket[i] = s)
    ELSE bucket

\* Subscription.__init__ starts the consumer thread before subscribe() has
\* taken the lock.
Subscribe(t, s) ==
  /\ t \in Controllers /\ CanCall(t)
  /\ consumer[s] = "absent"
  /\ consumer' = [consumer EXCEPT ![s] = "check"]
  /\ pc' = [pc EXCEPT ![t] = "registering"]
  /\ todo' = [todo EXCEPT ![t] = <<s>>]
  /\ UNCHANGED <<subscriptions, queue, stopRequested, inHand, stats, event, history>>

Register(t) ==
  LET s == Head(todo[t]) IN
  /\ pc[t] = "registering"
  /\ subscriptions' = [subscriptions EXCEPT ![SubTopic[s]] = Append(@, s)]
  /\ EndCall(t)
  /\ UNCHANGED <<subVars, stats, history>>

\* A caller holds the Subscription only once subscribe() has returned it.
Returned(s) ==
  /\ consumer[s] # "absent"
  /\ \A t \in Threads : ~(pc[t] = "registering" /\ s \in ToSet(todo[t]))

Unsubscribe(t, s) ==
  /\ t \in Controllers /\ CanCall(t)
  /\ Returned(s)
  /\ subscriptions' = [subscriptions EXCEPT ![SubTopic[s]] = Without(@, s)]
  /\ pc' = [pc EXCEPT ![t] = "signalling"]
  /\ todo' = [todo EXCEPT ![t] = <<s>>]
  /\ UNCHANGED <<subVars, stats, event, history>>

\* Clears the table under the lock, then stops every subscription in turn (in
\* the order of a dict of lists: here, in any order).
Shutdown(t) ==
  /\ t \in Controllers /\ CanCall(t)
  /\ subscriptions' = [k \in Topics |-> <<>>]
  /\ \E order \in SetToSeqs({s \in Subs : Registered(s)}) :
       IF order = <<>> THEN UNCHANGED <<pc, todo>>
       ELSE /\ pc' = [pc EXCEPT ![t] = "signalling"]
            /\ todo' = [todo EXCEPT ![t] = order]
  /\ UNCHANGED <<subVars, stats, event, history>>

\* Subscription.stop: set the flag ...
Signal(t) ==
  /\ pc[t] = "signalling"
  /\ stopRequested' = [stopRequested EXCEPT ![Head(todo[t])] = TRUE]
  /\ pc' = [pc EXCEPT ![t] = "joining"]
  /\ UNCHANGED <<subscriptions, queue, consumer, inHand, stats, todo, event, history>>

\* Mutant: join without a timeout.
Join_NoTimeout(t) ==
  /\ pc[t] = "joining"
  /\ Head(todo[t]) = t \/ consumer[Head(todo[t])] = "exited"
  /\ IF Head(todo[t]) = t \/ Tail(todo[t]) = <<>> THEN EndCall(t)
     ELSE /\ pc' = [pc EXCEPT ![t] = "signalling"]
          /\ todo' = [todo EXCEPT ![t] = Tail(@)]
          /\ UNCHANGED event
  /\ UNCHANGED <<subscriptions, subVars, stats, history>>

\* ... and join the thread, which returns when the thread has ended or after
\* two seconds, whichever is first, and raises when the thread joins itself:
\* the exception leaves unsubscribe() or shutdown() at once.
Join(t) ==
  /\ pc[t] = "joining"
  /\ IF Head(todo[t]) = t \/ Tail(todo[t]) = <<>> THEN EndCall(t)
     ELSE /\ pc' = [pc EXCEPT ![t] = "signalling"]
          /\ todo' = [todo EXCEPT ![t] = Tail(@)]
          /\ UNCHANGED event
  /\ UNCHANGED <<subscriptions, subVars, stats, history>>

\* publish: the targets are read under the lock, the queues filled without it.
Publish(t, e) ==
  LET targets == subscriptions[EventTopic[e]] IN
  /\ t \in Publishers /\ CanCall(t)
  /\ outcome[e] = "unpublished"
  /\ snapshot' = [snapshot EXCEPT ![e] = targets]
  /\ issued' = [issued EXCEPT ![t] = Append(@, e)]
  /\ IF targets = <<>>
       THEN /\ outcome' = [outcome EXCEPT ![e] = "returned"]
            /\ UNCHANGED threadVars
       ELSE /\ outcome' = [outcome EXCEPT ![e] = "publishing"]
            /\ pc' = [pc EXCEPT ![t] = "putting"]
            /\ todo' = [todo EXCEPT ![t] = targets]
            /\ event' = [event EXCEPT ![t] = e]
  /\ UNCHANGED <<subscriptions, subVars, stats, accepted, popped>>

\* put / put_nowait succeeds; publish moves on to its next target.
Put(t) ==
  LET s == Head(todo[t]) IN
  /\ pc[t] = "putting"
  /\ Room(s)
  /\ queue' = [queue EXCEPT ![s] = Append(@, event[t])]
  /\ accepted' = [accepted EXCEPT ![s] = Append(@, event[t])]
  /\ IF Tail(todo[t]) = <<>>
       THEN /\ EndCall(t)
            /\ outcome' = [outcome EXCEPT ![event[t]] = "returned"]
       ELSE /\ todo' = [todo EXCEPT ![t] = Tail(@)]
            /\ UNCHANGED <<pc, event, outcome>>
  /\ UNCHANGED <<subscriptions, stopRequested, consumer, inHand, stats,
                 popped, issued, snapshot>>

\* Mutant: the full queue is swallowed, and the event counted as enqueued.
PutTimeout_Swallowed(t) ==
  LET s == Head(todo[t]) IN
  /\ pc[t] = "putting"
  /\ OverflowPolicy[s] = "BLOCK"
  /\ ~Room(s)
  /\ EndCall(t)
  /\ outcome' = [outcome EXCEPT ![event[t]] = "returned"]
  /\ UNCHANGED <<subscriptions, subVars, stats, accepted, popped, issued, snapshot>>

\* Mutant: put blocks without a timeout.
PutTimeout_Never(t) == FALSE

\* BLOCK: the queue stayed full for block_timeout_seconds, and
\* EventBusBackpressureError leaves publish with its other targets unserved.
PutTimeout(t) ==
  LET s == Head(todo[t]) IN
  /\ pc[t] = "putting"
  /\ OverflowPolicy[s] = "BLOCK"
  /\ ~Room(s)
  /\ EndCall(t)
  /\ outcome' = [outcome EXCEPT ![event[t]] = "raised"]
  /\ UNCHANGED <<subscriptions, subVars, stats, accepted, popped, issued, snapshot>>

\* DROP_OLDEST: put_nowait found the queue full ...
PutFull(t) ==
  LET s == Head(todo[t]) IN
  /\ pc[t] = "putting"
  /\ OverflowPolicy[s] = "DROP_OLDEST"
  /\ ~Room(s)
  /\ pc' = [pc EXCEPT ![t] = "evicting"]
  /\ UNCHANGED <<subscriptions, subVars, stats, todo, event, history>>

\* ... so get_nowait discards the oldest event, if the queue still has one by
\* now, ...
Evict(t) ==
  LET s == Head(todo[t]) IN
  /\ pc[t] = "evicting"
  /\ IF queue[s] = <<>>
       THEN /\ pc' = [pc EXCEPT ![t] = "putting"]
            /\ UNCHANGED <<queue, popped>>
       ELSE /\ pc' = [pc EXCEPT ![t] = "counting"]
            /\ queue' = [queue EXCEPT ![s] = Tail(@)]
            /\ popped' = [popped EXCEPT ![s] =
                            Append(@, [event |-> Head(queue[s]), by |-> "publisher"])]
  /\ UNCHANGED <<subscriptions, stopRequested, consumer, inHand, stats,
                 todo, event, accepted, issued, snapshot, outcome>>

\* ... which is then counted, and put_nowait tried again.
CountDrop(t) ==
  /\ pc[t] = "counting"
  /\ pc' = [pc EXCEPT ![t] = "putting"]
  /\ dropped' = [dropped EXCEPT ![Head(todo[t])] = @ + 1]
  /\ UNCHANGED <<subscriptions, subVars, delivered, handlerErrors, todo, event, history>>

------------------------------------------------------------------------------
(* The consumer thread: Subscription._run.                                 *)

\* Mutant: while True.
CheckStop_Ignored(s) ==
  /\ consumer[s] = "check"
  /\ consumer' = [consumer EXCEPT ![s] = "waiting"]
  /\ UNCHANGED <<subscriptions, queue, stopRequested, inHand, stats, threadVars, history>>

\* while not self._stop_requested.is_set()
CheckStop(s) ==
  /\ consumer[s] = "check"
  /\ consumer' = [consumer EXCEPT ![s] = IF stopRequested[s] THEN "exited" ELSE "waiting"]
  /\ UNCHANGED <<subscriptions, queue, stopRequested, inHand, stats, threadVars, history>>

\* get(timeout=0.1) expires, which it does only on an empty queue.
GetTimeout(s) ==
  /\ consumer[s] = "waiting"
  /\ queue[s] = <<>>
  /\ consumer' = [consumer EXCEPT ![s] = "check"]
  /\ UNCHANGED <<subscriptions, queue, stopRequested, inHand, stats, threadVars, history>>

Get(s) ==
  /\ consumer[s] = "waiting"
  /\ queue[s] # <<>>
  /\ consumer' = [consumer EXCEPT ![s] = "handling"]
  /\ inHand' = [inHand EXCEPT ![s] = Head(queue[s])]
  /\ queue' = [queue EXCEPT ![s] = Tail(@)]
  /\ popped' = [popped EXCEPT ![s] =
                  Append(@, [event |-> Head(queue[s]), by |-> "consumer"])]
  /\ UNCHANGED <<subscriptions, stopRequested, stats, threadVars,
                 accepted, issued, snapshot, outcome>>

FinishHandling(s) ==
  /\ consumer[s] = "handling"
  /\ pc[s] = "idle"
  /\ consumer' = [consumer EXCEPT ![s] = "check"]
  /\ inHand' = [inHand EXCEPT ![s] = NoEvent]
  /\ UNCHANGED <<subscriptions, queue, stopRequested, threadVars, history>>

HandlerReturns(s) ==
  /\ FinishHandling(s)
  /\ delivered' = [delivered EXCEPT ![s] = @ + 1]
  /\ UNCHANGED <<dropped, handlerErrors>>

\* Mutant: the exception path does not count the event.
HandlerRaises_Uncounted(s) == FinishHandling(s) /\ UNCHANGED stats

\* Mutant: the exception ends the consumer thread.
HandlerRaises_EndsThread(s) ==
  /\ consumer[s] = "handling"
  /\ pc[s] = "idle"
  /\ consumer' = [consumer EXCEPT ![s] = "exited"]
  /\ inHand' = [inHand EXCEPT ![s] = NoEvent]
  /\ handlerErrors' = [handlerErrors EXCEPT ![s] = @ + 1]
  /\ UNCHANGED <<subscriptions, queue, stopRequested, threadVars, history, delivered, dropped>>

\* An exception of the handler is counted and logged; the event is not retried.
HandlerRaises(s) ==
  /\ FinishHandling(s)
  /\ handlerErrors' = [handlerErrors EXCEPT ![s] = @ + 1]
  /\ UNCHANGED <<delivered, dropped>>

------------------------------------------------------------------------------
StartCall(t) ==
  \/ \E s \in Subs : Subscribe(t, s) \/ Unsubscribe(t, s)
  \/ Shutdown(t)
  \/ \E e \in Events : Publish(t, e)

ContinueCall(t) ==
  \/ Register(t) \/ Signal(t) \/ Join(t)
  \/ Put(t) \/ PutTimeout(t) \/ PutFull(t) \/ Evict(t) \/ CountDrop(t)

Consume(s) == CheckStop(s) \/ GetTimeout(s) \/ Get(s)

Handle(s) == HandlerReturns(s) \/ HandlerRaises(s)

Next ==
  \/ \E t \in Threads : StartCall(t) \/ ContinueCall(t)
  \/ \E s \in Subs : Consume(s) \/ Handle(s)

Spec == Init /\ [][Next]_vars

\* Started threads keep running: a call that has begun goes on and its
\* timeouts expire, and a consumer thread keeps polling.  Nothing makes a
\* caller start a call, and nothing makes a handler finish.
FairSpec ==
  /\ Spec
  /\ \A t \in Threads : WF_vars(ContinueCall(t))
  /\ \A s \in Subs : WF_vars(Consume(s))
------------------------------------------------------------------------------
(* Properties.                                                             *)

\* What leaves a queue, and who took it.
Removals == [event : Events, by : {"consumer", "publisher"}]

\* The types of the bus's data and of the histories.
DataOK ==
  /\ subscriptions \in [Topics -> Seq(Subs)]
  /\ queue \in [Subs -> Seq(Events)]
  /\ stopRequested \in [Subs -> BOOLEAN]
  /\ delivered \in [Subs -> Nat]
  /\ dropped \in [Subs -> Nat]
  /\ handlerErrors \in [Subs -> Nat]
  /\ accepted \in [Subs -> Seq(Events)]
  /\ popped \in [Subs -> Seq(Removals)]
  /\ issued \in [Threads -> Seq(Events)]
  /\ snapshot \in [Events -> Seq(Subs)]
  /\ outcome \in [Events -> {"unpublished", "publishing", "returned", "raised"}]

\* A call in progress has subscriptions left to deal with, and an event
\* exactly while it is publishing.
CallsOK ==
  /\ pc \in [Threads -> CallStates]
  /\ todo \in [Threads -> Seq(Subs)]
  /\ event \in [Threads -> Events \cup {NoEvent}]
  /\ \A t \in Threads :
       /\ pc[t] = "idle" <=> todo[t] = <<>>
       /\ pc[t] \in {"putting", "evicting", "counting"} <=> event[t] # NoEvent

\* A consumer thread holds an event exactly while its handler runs, and is in
\* a call into the bus only then.
ConsumersOK ==
  /\ consumer \in [Subs -> ConsumerStates]
  /\ inHand \in [Subs -> Events \cup {NoEvent}]
  /\ \A s \in Subs :
       /\ consumer[s] = "handling" <=> inHand[s] # NoEvent
       /\ pc[s] # "idle" => consumer[s] = "handling"

\* The types, and what ties the variables of one thread together.
TypeOK == DataOK /\ CallsOK /\ ConsumersOK

\* Every subscription publish can find in the table is live: it was never
\* told to stop and its consumer thread runs.  (A publish may still hold an
\* older snapshot.)  unsubscribe and shutdown remove before they stop.
RoutedSubscriptionsAreLive ==
  \A s \in Subs : Registered(s) =>
    ~stopRequested[s] /\ consumer[s] \notin {"absent", "exited"}

\* The counters stats() reports, the queue depth, the event being handled and
\* those that publishers have evicted and not yet counted account for every
\* event the subscription ever accepted: none vanishes between a publisher's
\* eviction and the consumer, and none is counted twice.
Dropping(s) == {t \in Threads : pc[t] = "counting" /\ Head(todo[t]) = s}

StatsAccountForEveryEvent ==
  \A s \in Subs :
    Len(accepted[s]) = delivered[s] + handlerErrors[s] + dropped[s] + Len(queue[s])
                       + (IF consumer[s] = "handling" THEN 1 ELSE 0)
                       + Cardinality(Dropping(s))

\* What publish tells its caller is what happened.  When it returns, exactly
\* the targets it counted have accepted the event, once each; when it raises,
\* the targets before some BLOCK subscription have, and no later one has.
PublishReportsWhatItDid ==
  \A e \in Events :
    LET n == Len(snapshot[e])
        times(s) == Cardinality({i \in 1..Len(accepted[s]) : accepted[s][i] = e})
        served(k) == \A s \in Subs :
          times(s) = Cardinality({i \in 1..k : snapshot[e][i] = s})
    IN /\ outcome[e] = "returned" => served(n)
       /\ outcome[e] = "raised" =>
            \E k \in 1..n : OverflowPolicy[snapshot[e][k]] = "BLOCK" /\ served(k - 1)

\* The ordering the docs promise for one flow: the events one thread
\* publishes reach every handler in the order they were published, although
\* other threads publish to, and evict from, the same queues.
Handed(s, n, e) == popped[s][n] = [event |-> e, by |-> "consumer"]

FlowsArriveInOrder ==
  \A s \in Subs, t \in Threads :
    \A i, j \in 1..Len(issued[t]) : \A k, l \in 1..Len(popped[s]) :
      k < l /\ Handed(s, k, issued[t][i]) /\ Handed(s, l, issued[t][j]) => i < j

\* Each subscription is a bounded FIFO mailbox: no event twice, none out of
\* order, at most one more after a stop, none discarded under BLOCK; so the
\* flows arrive in order.
Phase(s) ==
  IF ~stopRequested[s] THEN "open"
  ELSE IF consumer[s] = "waiting" THEN "closing" ELSE "closed"

Mailboxes == INSTANCE Mailbox WITH phase <- [s \in Subs |-> Phase(s)]
ImplementsMailbox == Mailboxes!Spec /\ []FlowsArriveInOrder

\* A call into the bus always ends, whatever the handlers do: the put timeout
\* and the join timeout break every wait for a handler that never comes back,
\* two handlers that stop each other's subscriptions included.
EveryCallEnds == \A t \in Threads : pc[t] # "idle" ~> pc[t] = "idle"

\* The queue of a subscription is empty again and again, so that every event
\* leaves it, or the subscription is told to stop, as long as its own handlers
\* come back, whatever the others do.
QueuesDrain ==
  \A s \in Subs :
    []<>(consumer[s] # "handling") => []<>(queue[s] = <<>> \/ stopRequested[s])
------------------------------------------------------------------------------
(* Claims of the docs that the code does not keep.                         *)

\* docs/runtime/EVENT_BUS.md:41, "nor silently drop events": a subscription
\* that asked for BLOCK "where losing an event is unacceptable" loses none.
\* stop() ends the consumer thread with events still queued.
BlockedEventsAreNeverLost ==
  \A s \in Subs :
    OverflowPolicy[s] = "BLOCK" /\ consumer[s] = "exited" => queue[s] = <<>>

\* runtime/events/bus.py:95, "one slow or misbehaving subscriber can never
\* delay delivery to any other subscriber": a target with room in its queue
\* gets the event whatever another target does.
SlowSubscriberDelaysNoOther ==
  \A e \in Events : outcome[e] = "raised" =>
    \A s \in ToSet(snapshot[e]) : e \in ToSet(accepted[s]) \/ ~Room(s)
==============================================================================
