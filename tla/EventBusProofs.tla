---------------------------- MODULE EventBusProofs ---------------------------
(***************************************************************************)
(* Proofs about the event bus, for any threads, subscriptions, events,     *)
(* queue sizes and overflow policies: every event is accounted for,        *)
(* publish finds only live subscriptions in the table and tells its caller *)
(* what it did, every subscription is a mailbox, and the flows arrive in   *)
(* order.                                                                  *)
(***************************************************************************)
EXTENDS EventBus, FiniteSetTheorems, SequenceTheorems, TLAPS

\* Removing a subscription from a bucket leaves a bucket.
LEMMA WithoutType ==
  ASSUME NEW bucket \in Seq(Subs), NEW s
  PROVE  Without(bucket, s) \in Seq(Subs)
<1>1. CASE s \in ToSet(bucket)
  <2> DEFINE i == CHOOSE i \in 1..Len(bucket) : bucket[i] = s
  <2>1. i \in 1..Len(bucket) /\ bucket[i] = s
    BY <1>1 DEF ToSet
  <2> HIDE DEF i
  <2>2. SubSeq(bucket, 1, i - 1) \in Seq(Subs) /\ SubSeq(bucket, i + 1, Len(bucket)) \in Seq(Subs)
    BY <2>1
  <2>3. Without(bucket, s) = SubSeq(bucket, 1, i - 1) \o SubSeq(bucket, i + 1, Len(bucket))
    BY <1>1 DEF Without, RemoveAt, i
  <2> QED BY <2>2, <2>3
<1>2. CASE s \notin ToSet(bucket)
  BY <1>2 DEF Without
<1> QED BY <1>1, <1>2

\* Every order in which shutdown may stop a set of subscriptions is a sequence
\* of them, without repetitions, that is empty only if the set is.
LEMMA OrderType ==
  ASSUME NEW S \in SUBSET Subs, NEW order \in SetToSeqs(S)
  PROVE  /\ order \in Seq(Subs)
         /\ ToSet(order) \subseteq S
         /\ \A i, j \in DOMAIN order : i # j => order[i] # order[j]
<1>1. IsFiniteSet(S)
  BY FS_Subset, SetsAssumption
<1>2. Cardinality(S) \in Nat
  BY <1>1, FS_CardinalityType
<1>3. order \in [1..Cardinality(S) -> S] /\ \A i, j \in 1..Cardinality(S) : i # j => order[i] # order[j]
  BY DEF SetToSeqs
<1> QED BY <1>2, <1>3 DEF ToSet

\* One more element at the end of one of a family of sequences.
LEMMA AppendAt ==
  ASSUME NEW I, NEW S, NEW f \in [I -> Seq(S)], NEW i \in I, NEW x \in S
  PROVE  [f EXCEPT ![i] = Append(@, x)] \in [I -> Seq(S)]
<1>1. Append(f[i], x) \in Seq(S)
  OBVIOUS
<1> QED BY <1>1

\* The first element of one of a family of sequences removed.
LEMMA TailAt ==
  ASSUME NEW I, NEW S, NEW f \in [I -> Seq(S)], NEW i \in I, f[i] # <<>>
  PROVE  [f EXCEPT ![i] = Tail(@)] \in [I -> Seq(S)]
<1>1. Tail(f[i]) \in Seq(S)
  OBVIOUS
<1> QED BY <1>1

------------------------------------------------------------------------------
(* Type correctness.                                                       *)

\* A step of thread t that leaves its program counter, its remaining targets
\* and its event consistent keeps the calls consistent.
LEMMA CallStep ==
  ASSUME CallsOK,
         NEW t \in Threads,
         NEW p \in CallStates, NEW q \in Seq(Subs), NEW x \in Events \cup {NoEvent},
         p = "idle" <=> q = <<>>,
         p \in {"putting", "evicting", "counting"} <=> x # NoEvent,
         pc' = [pc EXCEPT ![t] = p],
         todo' = [todo EXCEPT ![t] = q],
         event' = [event EXCEPT ![t] = x]
  PROVE  CallsOK'
<1>1. pc' \in [Threads -> CallStates] /\ todo' \in [Threads -> Seq(Subs)]
      /\ event' \in [Threads -> Events \cup {NoEvent}]
  BY DEF CallsOK
<1>2. ASSUME NEW u \in Threads
      PROVE  /\ pc'[u] = "idle" <=> todo'[u] = <<>>
             /\ pc'[u] \in {"putting", "evicting", "counting"} <=> event'[u] # NoEvent
  <2>1. CASE u = t
    BY <2>1 DEF CallsOK
  <2>2. CASE u # t
    BY <2>2 DEF CallsOK
  <2> QED BY <2>1, <2>2
<1> QED BY <1>1, <1>2 DEF CallsOK

\* A call that ends leaves the calls consistent.
LEMMA EndCallStep ==
  ASSUME CallsOK, NEW t \in Threads, EndCall(t)
  PROVE  CallsOK'
BY CallStep, "idle" \in CallStates, <<>> \in Seq(Subs) DEF EndCall, CallStates

\* A thread that runs the handler of a subscription, or runs none, may take a
\* step of a call without disturbing the consumers.
LEMMA CallerStep ==
  ASSUME CallsOK, ConsumersOK,
         NEW t \in Threads, NEW p,
         t \in Subs => consumer[t] = "handling",
         pc' = [pc EXCEPT ![t] = p],
         UNCHANGED <<consumer, inHand>>
  PROVE  ConsumersOK'
BY DEF CallsOK, ConsumersOK, Threads

\* A call in progress: what the invariant says of its thread.
LEMMA InCall ==
  ASSUME CallsOK, ConsumersOK, NEW t \in Threads, pc[t] # "idle"
  PROVE  /\ todo[t] \in Seq(Subs) /\ todo[t] # <<>>
         /\ Head(todo[t]) \in Subs /\ Tail(todo[t]) \in Seq(Subs)
         /\ t \in Subs => consumer[t] = "handling"
BY DEF CallsOK, ConsumersOK

LEMMA InitType == Init => TypeOK
BY SetsAssumption
   DEF Init, TypeOK, DataOK, CallsOK, ConsumersOK, ConsumerStates, CallStates, Threads

LEMMA StepType == TypeOK /\ [Next]_vars => TypeOK'
<1> SUFFICES ASSUME DataOK, CallsOK, ConsumersOK, [Next]_vars
             PROVE  DataOK' /\ CallsOK' /\ ConsumersOK'
  BY DEF TypeOK
<1> USE DEF threadVars, subVars, stats, history
<1>1. ASSUME NEW t \in Threads, NEW s \in Subs, Subscribe(t, s)
      PROVE  DataOK' /\ CallsOK' /\ ConsumersOK'
  <2>1. DataOK'
    BY <1>1 DEF Subscribe, DataOK
  <2>2. event' = [event EXCEPT ![t] = event[t]] /\ event[t] = NoEvent
    BY <1>1 DEF Subscribe, CanCall, CallsOK
  <2>3. CallsOK'
    <3>1. "registering" \in CallStates /\ <<s>> \in Seq(Subs) /\ <<s>> # <<>>
      BY DEF CallStates
    <3>2. pc' = [pc EXCEPT ![t] = "registering"] /\ todo' = [todo EXCEPT ![t] = <<s>>]
      BY <1>1 DEF Subscribe
    <3> QED BY <2>2, <3>1, <3>2, CallStep
  <2>4. ConsumersOK'
    <3>1. consumer' \in [Subs -> ConsumerStates] /\ UNCHANGED inHand
      BY <1>1 DEF Subscribe, ConsumersOK, ConsumerStates
    <3>2. consumer[s] = "absent" /\ pc[s] = "idle" /\ inHand[s] = NoEvent
      BY <1>1 DEF Subscribe, ConsumersOK
    <3>3. t # s
      BY <1>1, <3>2 DEF Subscribe, CanCall
    <3>4. \A u \in Subs : /\ consumer'[u] = IF u = s THEN "check" ELSE consumer[u]
                         /\ pc'[u] = IF u = t THEN "registering" ELSE pc[u]
      BY <1>1 DEF Subscribe, ConsumersOK, CallsOK, Threads
    <3>5. t \in Subs => consumer[t] = "handling"
      BY <1>1 DEF Subscribe, CanCall
    <3> QED BY <3>1, <3>2, <3>3, <3>4, <3>5 DEF ConsumersOK
  <2> QED BY <2>1, <2>3, <2>4
<1>2. ASSUME NEW t \in Threads, NEW s \in Subs, Unsubscribe(t, s)
      PROVE  DataOK' /\ CallsOK' /\ ConsumersOK'
  <2>1. DataOK'
    BY <1>2, WithoutType DEF Unsubscribe, DataOK
  <2>2. event' = [event EXCEPT ![t] = event[t]] /\ event[t] = NoEvent
    BY <1>2 DEF Unsubscribe, CanCall, CallsOK
  <2>3. CallsOK'
    <3>1. "signalling" \in CallStates /\ <<s>> \in Seq(Subs) /\ <<s>> # <<>>
      BY DEF CallStates
    <3>2. pc' = [pc EXCEPT ![t] = "signalling"] /\ todo' = [todo EXCEPT ![t] = <<s>>]
      BY <1>2 DEF Unsubscribe
    <3> QED BY <2>2, <3>1, <3>2, CallStep
  <2>4. ConsumersOK'
    BY <1>2, CallerStep DEF Unsubscribe, CanCall
  <2> QED BY <2>1, <2>3, <2>4
<1>3. ASSUME NEW t \in Threads, Shutdown(t)
      PROVE  DataOK' /\ CallsOK' /\ ConsumersOK'
  <2>1. DataOK'
    <3>1. subscriptions' \in [Topics -> Seq(Subs)]
      BY <1>3 DEF Shutdown
    <3>2. UNCHANGED <<queue, stopRequested, delivered, dropped, handlerErrors,
                      accepted, popped, issued, snapshot, outcome>>
      BY <1>3 DEF Shutdown
    <3> QED BY <3>1, <3>2 DEF DataOK
  <2>2. PICK order \in SetToSeqs({s \in Subs : Registered(s)}) :
          IF order = <<>> THEN UNCHANGED <<pc, todo>>
          ELSE pc' = [pc EXCEPT ![t] = "signalling"] /\ todo' = [todo EXCEPT ![t] = order]
    BY <1>3 DEF Shutdown
  <2>3. order \in Seq(Subs)
    BY OrderType
  <2>4. event' = [event EXCEPT ![t] = event[t]] /\ event[t] = NoEvent
    BY <1>3 DEF Shutdown, CanCall, CallsOK
  <2>5. t \in Subs => consumer[t] = "handling"
    BY <1>3 DEF Shutdown, CanCall
  <2>6. UNCHANGED <<consumer, inHand, event>>
    BY <1>3 DEF Shutdown
  <2>7. CASE order = <<>>
    BY <2>1, <2>2, <2>6, <2>7 DEF CallsOK, ConsumersOK
  <2>8. CASE order # <<>>
    <3>1. "signalling" \in CallStates
      BY DEF CallStates
    <3>2. pc' = [pc EXCEPT ![t] = "signalling"] /\ todo' = [todo EXCEPT ![t] = order]
      BY <2>2, <2>8
    <3>3. CallsOK'
      BY <2>3, <2>4, <2>8, <3>1, <3>2, CallStep
    <3>4. ConsumersOK'
      BY <2>5, <2>6, <3>2, CallerStep
    <3> QED BY <2>1, <3>3, <3>4
  <2> QED BY <2>7, <2>8
<1>4. ASSUME NEW t \in Threads, NEW e \in Events, Publish(t, e)
      PROVE  DataOK' /\ CallsOK' /\ ConsumersOK'
  <2> DEFINE targets == subscriptions[EventTopic[e]]
  <2>1. targets \in Seq(Subs)
    BY SubscriptionAssumption DEF DataOK
  <2>2. DataOK'
    <3>1. snapshot' \in [Events -> Seq(Subs)]
      BY <1>4, <2>1 DEF Publish, DataOK
    <3>2. issued' \in [Threads -> Seq(Events)]
      BY <1>4 DEF Publish, DataOK
    <3>3. outcome' \in [Events -> {"unpublished", "publishing", "returned", "raised"}]
      BY <1>4 DEF Publish, DataOK
    <3>4. UNCHANGED <<subscriptions, queue, stopRequested, delivered,
                      dropped, handlerErrors, accepted, popped>>
      BY <1>4 DEF Publish
    <3> QED BY <3>1, <3>2, <3>3, <3>4 DEF DataOK
  <2>3. t \in Subs => consumer[t] = "handling"
    BY <1>4 DEF Publish, CanCall
  <2>4. UNCHANGED <<consumer, inHand>>
    BY <1>4 DEF Publish
  <2>5. CASE targets = <<>>
    BY <1>4, <2>2, <2>4, <2>5 DEF Publish, CallsOK, ConsumersOK
  <2>6. CASE targets # <<>>
    <3>1. "putting" \in CallStates /\ e # NoEvent
      BY SetsAssumption DEF CallStates
    <3>2. pc' = [pc EXCEPT ![t] = "putting"] /\ todo' = [todo EXCEPT ![t] = targets]
          /\ event' = [event EXCEPT ![t] = e]
      BY <1>4, <2>6 DEF Publish
    <3> HIDE DEF targets
    <3>3. CallsOK'
      BY <2>1, <2>6, <3>1, <3>2, CallStep
    <3>4. ConsumersOK'
      BY <2>3, <2>4, <3>2, CallerStep
    <3> QED BY <2>2, <3>3, <3>4
  <2> QED BY <2>5, <2>6
<1>5. ASSUME NEW t \in Threads, Register(t)
      PROVE  DataOK' /\ CallsOK' /\ ConsumersOK'
  <2>1. pc[t] # "idle" /\ EndCall(t)
    BY <1>5 DEF Register
  <2>2. Head(todo[t]) \in Subs /\ (t \in Subs => consumer[t] = "handling")
    BY <2>1, InCall
  <2>3. DataOK'
    <3>1. subscriptions' \in [Topics -> Seq(Subs)]
      BY <1>5, <2>2, SubscriptionAssumption DEF Register, DataOK
    <3>2. UNCHANGED <<queue, stopRequested, delivered, dropped, handlerErrors,
                      accepted, popped, issued, snapshot, outcome>>
      BY <1>5 DEF Register
    <3> QED BY <3>1, <3>2 DEF DataOK
  <2>4. CallsOK'
    BY <2>1, EndCallStep
  <2>5. ConsumersOK'
    BY <1>5, <2>1, <2>2, CallerStep DEF Register, EndCall
  <2> QED BY <2>3, <2>4, <2>5
<1>6. ASSUME NEW t \in Threads, Signal(t)
      PROVE  DataOK' /\ CallsOK' /\ ConsumersOK'
  <2>1. pc[t] # "idle" /\ pc' = [pc EXCEPT ![t] = "joining"]
    BY <1>6 DEF Signal
  <2>2. Head(todo[t]) \in Subs /\ (t \in Subs => consumer[t] = "handling")
    BY <2>1, InCall
  <2>3. DataOK'
    BY <1>6, <2>2 DEF Signal, DataOK
  <2>4. CallsOK'
    BY <1>6 DEF Signal, CallsOK, CallStates
  <2>5. ConsumersOK'
    BY <1>6, <2>1, <2>2, CallerStep DEF Signal
  <2> QED BY <2>3, <2>4, <2>5
<1>7. ASSUME NEW t \in Threads, Join(t)
      PROVE  DataOK' /\ CallsOK' /\ ConsumersOK'
  <2>1. pc[t] # "idle"
    BY <1>7 DEF Join
  <2>2. Tail(todo[t]) \in Seq(Subs) /\ (t \in Subs => consumer[t] = "handling")
    BY <2>1, InCall
  <2>3. DataOK' /\ UNCHANGED <<consumer, inHand>>
    BY <1>7 DEF Join, DataOK
  <2>4. CASE EndCall(t)
    BY <2>2, <2>3, <2>4, EndCallStep, CallerStep DEF EndCall
  <2>5. CASE ~EndCall(t)
    <3>1. /\ Tail(todo[t]) # <<>>
          /\ pc' = [pc EXCEPT ![t] = "signalling"]
          /\ todo' = [todo EXCEPT ![t] = Tail(todo[t])]
          /\ event' = [event EXCEPT ![t] = event[t]] /\ event[t] = NoEvent
      BY <1>7, <2>5 DEF Join, CallsOK
    <3>2. "signalling" \in CallStates /\ event[t] \in Events \cup {NoEvent}
      BY DEF CallStates, CallsOK
    <3>3. CallsOK'
      BY <2>2, <3>1, <3>2, CallStep
    <3>4. ConsumersOK'
      BY <2>2, <2>3, <3>1, CallerStep
    <3> QED BY <2>3, <3>3, <3>4
  <2> QED BY <2>4, <2>5
<1>8. ASSUME NEW t \in Threads, Put(t)
      PROVE  DataOK' /\ CallsOK' /\ ConsumersOK'
  <2>1. pc[t] = "putting"
    BY <1>8 DEF Put
  <2>2. Head(todo[t]) \in Subs /\ Tail(todo[t]) \in Seq(Subs)
        /\ (t \in Subs => consumer[t] = "handling")
    BY <2>1, InCall
  <2>3. event[t] \in Events
    BY <2>1 DEF CallsOK
  <2>4. DataOK'
    <3> DEFINE s == Head(todo[t])
    <3>0. /\ queue' = [queue EXCEPT ![s] = Append(@, event[t])]
          /\ accepted' = [accepted EXCEPT ![s] = Append(@, event[t])]
          /\ queue \in [Subs -> Seq(Events)] /\ accepted \in [Subs -> Seq(Events)]
      BY <1>8 DEF Put, DataOK
    <3> HIDE DEF s
    <3>1. queue' \in [Subs -> Seq(Events)]
      BY <2>2, <2>3, <3>0, AppendAt DEF s
    <3>2. accepted' \in [Subs -> Seq(Events)]
      BY <2>2, <2>3, <3>0, AppendAt DEF s
    <3>3. outcome' \in [Events -> {"unpublished", "publishing", "returned", "raised"}]
      BY <1>8, <2>3 DEF Put, DataOK
    <3>4. UNCHANGED <<subscriptions, stopRequested, delivered, dropped,
                      handlerErrors, popped, issued, snapshot>>
      BY <1>8 DEF Put
    <3> QED BY <3>1, <3>2, <3>3, <3>4 DEF DataOK
  <2>5. UNCHANGED <<consumer, inHand>>
    BY <1>8 DEF Put
  <2>6. CASE EndCall(t)
    BY <2>2, <2>4, <2>5, <2>6, EndCallStep, CallerStep DEF EndCall
  <2>7. CASE ~EndCall(t)
    <3>1. Tail(todo[t]) # <<>> /\ todo' = [todo EXCEPT ![t] = Tail(todo[t])]
          /\ UNCHANGED <<pc, event>>
      BY <1>8, <2>7 DEF Put
    <3>2. pc' = [pc EXCEPT ![t] = "putting"] /\ event' = [event EXCEPT ![t] = event[t]]
      BY <2>1, <3>1 DEF CallsOK
    <3>3. "putting" \in CallStates /\ event[t] # NoEvent /\ event[t] \in Events \cup {NoEvent}
      BY <2>1 DEF CallStates, CallsOK
    <3>4. CallsOK'
      BY <2>1, <2>2, <3>1 DEF CallsOK
    <3>5. ConsumersOK'
      BY <2>2, <2>5, <3>2, CallerStep
    <3> QED BY <2>4, <3>4, <3>5
  <2> QED BY <2>6, <2>7
<1>9. ASSUME NEW t \in Threads, PutTimeout(t)
      PROVE  DataOK' /\ CallsOK' /\ ConsumersOK'
  <2>1. pc[t] = "putting" /\ EndCall(t) /\ UNCHANGED <<consumer, inHand>>
    BY <1>9 DEF PutTimeout
  <2>2. t \in Subs => consumer[t] = "handling"
    BY <2>1, InCall
  <2>3. DataOK'
    BY <1>9 DEF PutTimeout, DataOK
  <2>4. CallsOK'
    BY <2>1, EndCallStep
  <2>5. ConsumersOK'
    BY <2>1, <2>2, CallerStep DEF EndCall
  <2> QED BY <2>3, <2>4, <2>5
<1>10. ASSUME NEW t \in Threads, PutFull(t)
       PROVE  DataOK' /\ CallsOK' /\ ConsumersOK'
  BY <1>10 DEF PutFull, DataOK, CallsOK, ConsumersOK, CallStates, Threads
<1>11. ASSUME NEW t \in Threads, Evict(t)
       PROVE  DataOK' /\ CallsOK' /\ ConsumersOK'
  <2>1. pc[t] = "evicting" /\ UNCHANGED <<todo, event, consumer, inHand>>
    BY <1>11 DEF Evict
  <2>2. Head(todo[t]) \in Subs /\ (t \in Subs => consumer[t] = "handling")
    BY <2>1, InCall
  <2>3. PICK p \in {"putting", "counting"} : pc' = [pc EXCEPT ![t] = p]
    BY <1>11 DEF Evict
  <2>4. DataOK'
    <3>1. CASE queue[Head(todo[t])] = <<>>
      BY <1>11, <3>1 DEF Evict, DataOK
    <3>2. CASE queue[Head(todo[t])] # <<>>
      <4>1. Head(queue[Head(todo[t])]) \in Events /\ Tail(queue[Head(todo[t])]) \in Seq(Events)
        BY <2>2, <3>2 DEF DataOK
      <4>2. queue' \in [Subs -> Seq(Events)]
        BY <1>11, <2>2, <3>2, <4>1 DEF Evict, DataOK
      <4>3. popped' \in [Subs -> Seq(Removals)]
        <5>1. popped' = [popped EXCEPT ![Head(todo[t])] =
                Append(@, [event |-> Head(queue[Head(todo[t])]), by |-> "publisher"])]
          BY <1>11, <3>2 DEF Evict
        <5>2. popped \in [Subs -> Seq(Removals)]
              /\ [event |-> Head(queue[Head(todo[t])]), by |-> "publisher"] \in Removals
          BY <4>1 DEF DataOK, Removals
        <5> QED BY <2>2, <5>1, <5>2, AppendAt
      <4>4. UNCHANGED <<subscriptions, stopRequested, delivered, dropped, handlerErrors,
                        accepted, issued, snapshot, outcome>>
        BY <1>11, <3>2 DEF Evict
      <4> QED BY <4>2, <4>3, <4>4 DEF DataOK
    <3> QED BY <3>1, <3>2
  <2>5. CallsOK'
    BY <2>1, <2>3 DEF CallsOK, CallStates
  <2>6. ConsumersOK'
    BY <2>1, <2>2, <2>3, CallerStep
  <2> QED BY <2>4, <2>5, <2>6
<1>18. ASSUME NEW t \in Threads, CountDrop(t)
       PROVE  DataOK' /\ CallsOK' /\ ConsumersOK'
  <2>1. pc[t] = "counting" /\ pc' = [pc EXCEPT ![t] = "putting"]
        /\ UNCHANGED <<todo, event, consumer, inHand>>
    BY <1>18 DEF CountDrop
  <2>2. Head(todo[t]) \in Subs /\ (t \in Subs => consumer[t] = "handling")
    BY <2>1, InCall
  <2>3. DataOK'
    <3>0. dropped \in [Subs -> Nat] /\ dropped' = [dropped EXCEPT ![Head(todo[t])] = @ + 1]
      BY <1>18 DEF CountDrop, DataOK
    <3>1. dropped' \in [Subs -> Nat]
      BY <2>2, <3>0
    <3>2. UNCHANGED <<subscriptions, queue, stopRequested, delivered, handlerErrors,
                      accepted, popped, issued, snapshot, outcome>>
      BY <1>18 DEF CountDrop
    <3> QED BY <3>1, <3>2 DEF DataOK
  <2>4. CallsOK'
    BY <2>1 DEF CallsOK, CallStates
  <2>5. ConsumersOK'
    BY <2>1, <2>2, CallerStep
  <2> QED BY <2>3, <2>4, <2>5
<1>12. ASSUME NEW s \in Subs, CheckStop(s)
       PROVE  DataOK' /\ CallsOK' /\ ConsumersOK'
  BY <1>12 DEF CheckStop, DataOK, CallsOK, ConsumersOK, ConsumerStates
<1>13. ASSUME NEW s \in Subs, GetTimeout(s)
       PROVE  DataOK' /\ CallsOK' /\ ConsumersOK'
  BY <1>13 DEF GetTimeout, DataOK, CallsOK, ConsumersOK, ConsumerStates
<1>14. ASSUME NEW s \in Subs, Get(s)
       PROVE  DataOK' /\ CallsOK' /\ ConsumersOK'
  <2>1. Head(queue[s]) \in Events /\ Tail(queue[s]) \in Seq(Events)
    BY <1>14 DEF Get, DataOK
  <2>2. DataOK'
    <3>1. queue' \in [Subs -> Seq(Events)]
      BY <1>14, <2>1 DEF Get, DataOK
    <3>2. popped' \in [Subs -> Seq(Removals)]
      <4>1. popped' = [popped EXCEPT ![s] =
              Append(@, [event |-> Head(queue[s]), by |-> "consumer"])]
        BY <1>14 DEF Get
      <4>2. popped \in [Subs -> Seq(Removals)]
            /\ [event |-> Head(queue[s]), by |-> "consumer"] \in Removals
        BY <2>1 DEF DataOK, Removals
      <4> QED BY <4>1, <4>2, AppendAt
    <3>3. UNCHANGED <<subscriptions, stopRequested, delivered, dropped, handlerErrors,
                      accepted, issued, snapshot, outcome>>
      BY <1>14 DEF Get
    <3> QED BY <3>1, <3>2, <3>3 DEF DataOK
  <2>3. CallsOK'
    BY <1>14 DEF Get, CallsOK
  <2>4. ConsumersOK'
    BY <1>14, <2>1, SetsAssumption DEF Get, ConsumersOK, ConsumerStates
  <2> QED BY <2>2, <2>3, <2>4
<1>15. ASSUME NEW s \in Subs, HandlerReturns(s)
       PROVE  DataOK' /\ CallsOK' /\ ConsumersOK'
  <2>1. DataOK'
    <3>1. delivered' \in [Subs -> Nat]
      BY <1>15 DEF HandlerReturns, DataOK
    <3>2. UNCHANGED <<subscriptions, queue, stopRequested, dropped, handlerErrors,
                      accepted, popped, issued, snapshot, outcome>>
      BY <1>15 DEF HandlerReturns, FinishHandling
    <3> QED BY <3>1, <3>2 DEF DataOK
  <2>2. CallsOK' /\ ConsumersOK'
    BY <1>15 DEF HandlerReturns, FinishHandling, CallsOK, ConsumersOK, ConsumerStates
  <2> QED BY <2>1, <2>2
<1>16. ASSUME NEW s \in Subs, HandlerRaises(s)
       PROVE  DataOK' /\ CallsOK' /\ ConsumersOK'
  <2>1. DataOK'
    <3>1. handlerErrors' \in [Subs -> Nat]
      BY <1>16 DEF HandlerRaises, DataOK
    <3>2. UNCHANGED <<subscriptions, queue, stopRequested, delivered, dropped,
                      accepted, popped, issued, snapshot, outcome>>
      BY <1>16 DEF HandlerRaises, FinishHandling
    <3> QED BY <3>1, <3>2 DEF DataOK
  <2>2. CallsOK' /\ ConsumersOK'
    BY <1>16 DEF HandlerRaises, FinishHandling, CallsOK, ConsumersOK, ConsumerStates
  <2> QED BY <2>1, <2>2
<1>17. CASE UNCHANGED vars
  BY <1>17 DEF vars, DataOK, CallsOK, ConsumersOK
<1> QED
  BY <1>1, <1>2, <1>3, <1>4, <1>5, <1>6, <1>7, <1>8, <1>9, <1>10, <1>11, <1>12, <1>13, <1>14,
<1>15, <1>16, <1>17, <1>18 DEF Next, StartCall, ContinueCall, Consume, Handle

\* The bus keeps its types, and a thread inside a call always has the
\* subscriptions and the event that call is about (runtime/events/bus.py).
THEOREM TypeCorrect == Spec => []TypeOK
BY InitType, StepType, PTL DEF Spec
------------------------------------------------------------------------------
(* The counters.  An event is counted where it leaves a queue or a handler, *)
(* by a thread other than the one that put it in, and an evicted one only   *)
(* after it has left; with the evictions under way the equation is          *)
(* inductive, given the types.                                              *)

\* What one subscription's counters must add up to.
Accepted(s) == Len(accepted[s])
Counted(s) == delivered[s] + handlerErrors[s] + dropped[s]
Queued(s) == Len(queue[s])
Handled(s) == IF consumer[s] = "handling" THEN 1 ELSE 0
Evicted(s) == Cardinality(Dropping(s))
Balanced(s) == Accepted(s) = Counted(s) + Queued(s) + Handled(s) + Evicted(s)

LEMMA Balance == StatsAccountForEveryEvent <=> \A s \in Subs : Balanced(s)
BY DEF StatsAccountForEveryEvent, Balanced, Accepted, Counted, Queued, Handled, Evicted

\* A step that touches none of a subscription's counters, neither its queue
\* nor whether its handler runs nor the evictions, keeps them balanced.
LEMMA Untouched ==
  ASSUME NEW s \in Subs, Balanced(s),
         accepted'[s] = accepted[s], delivered'[s] = delivered[s],
         handlerErrors'[s] = handlerErrors[s], dropped'[s] = dropped[s],
         queue'[s] = queue[s],
         consumer'[s] = "handling" <=> consumer[s] = "handling",
         Dropping(s)' = Dropping(s)
  PROVE  Balanced(s)'
BY DEF Balanced, Accepted, Counted, Queued, Handled, Evicted

\* The publishers that are between an eviction and its count are finitely many.
LEMMA DroppingFinite ==
  ASSUME NEW s
  PROVE  IsFiniteSet(Dropping(s)) /\ Cardinality(Dropping(s)) \in Nat
<1>1. IsFiniteSet(Threads)
  BY SetsAssumption, FS_Union DEF Threads
<1>2. Dropping(s) \subseteq Threads
  BY DEF Dropping
<1> QED BY <1>1, <1>2, FS_Subset, FS_CardinalityType

\* What is added up are natural numbers.
LEMMA Numbers ==
  ASSUME TypeOK, NEW s \in Subs
  PROVE  /\ Accepted(s) \in Nat /\ Counted(s) \in Nat /\ Queued(s) \in Nat
         /\ Handled(s) \in Nat /\ Evicted(s) \in Nat
<1>1. Accepted(s) \in Nat /\ Queued(s) \in Nat
  BY DEF TypeOK, DataOK, Accepted, Queued
<1>2. Counted(s) \in Nat
  BY DEF TypeOK, DataOK, Counted
<1>3. Handled(s) \in Nat /\ Evicted(s) \in Nat
  BY DroppingFinite DEF Handled, Evicted
<1> QED BY <1>1, <1>2, <1>3

\* A step of a thread that is in no eviction before nor after it.
LEMMA NoEviction ==
  ASSUME CallsOK, NEW t \in Threads, pc[t] # "counting", pc'[t] # "counting",
         \A v \in Threads \ {t} : pc'[v] = pc[v] /\ todo'[v] = todo[v]
  PROVE  \A s : Dropping(s)' = Dropping(s)
BY DEF Dropping

\* The steps that put nothing into a queue, take nothing out of one and count
\* nothing.
LEMMA QuietStep ==
  ASSUME TypeOK, NEW u \in Subs, Balanced(u), NEW t \in Threads,
         pc[t] # "counting", pc'[t] # "counting",
         \A v \in Threads \ {t} : pc'[v] = pc[v] /\ todo'[v] = todo[v],
         consumer'[u] = "handling" <=> consumer[u] = "handling",
         UNCHANGED <<accepted, queue, stats>>
  PROVE  Balanced(u)'
<1>1. Dropping(u)' = Dropping(u)
  BY NoEviction DEF TypeOK
<1> QED BY <1>1, Untouched DEF stats

\* Every step keeps the counters of every subscription balanced.
LEMMA StepStats ==
  ASSUME TypeOK, StatsAccountForEveryEvent, [Next]_vars
  PROVE  StatsAccountForEveryEvent'
<1> SUFFICES ASSUME NEW u \in Subs PROVE Balanced(u)'
  BY DEF StatsAccountForEveryEvent, Balanced, Accepted, Counted, Queued, Handled, Evicted
<1> USE DEF threadVars, subVars, history
<1>0. /\ Balanced(u)
      /\ consumer \in [Subs -> ConsumerStates]
      /\ delivered \in [Subs -> Nat] /\ dropped \in [Subs -> Nat]
      /\ handlerErrors \in [Subs -> Nat]
      /\ queue \in [Subs -> Seq(Events)] /\ accepted \in [Subs -> Seq(Events)]
      /\ pc \in [Threads -> CallStates] /\ todo \in [Threads -> Seq(Subs)]
  BY Balance DEF TypeOK, DataOK, CallsOK, ConsumersOK
<1>20. /\ Balanced(u)
       /\ Accepted(u) \in Nat /\ Counted(u) \in Nat /\ Queued(u) \in Nat
       /\ Handled(u) \in Nat /\ Evicted(u) \in Nat
  BY <1>0, Numbers
<1>19. UNCHANGED <<pc, todo>> => \A s : Dropping(s)' = Dropping(s)
  BY DEF Dropping
<1>1. ASSUME NEW t \in Threads, NEW s \in Subs, Subscribe(t, s) PROVE Balanced(u)'
  <2>1. consumer'[u] = "handling" <=> consumer[u] = "handling"
    BY <1>0, <1>1 DEF Subscribe
  <2>2. pc[t] # "counting" /\ pc'[t] # "counting"
        /\ \A v \in Threads \ {t} : pc'[v] = pc[v] /\ todo'[v] = todo[v]
    BY <1>0, <1>1 DEF Subscribe, CanCall
  <2>3. UNCHANGED <<accepted, queue, stats>>
    BY <1>1 DEF Subscribe
  <2> QED BY <1>0, <2>1, <2>2, <2>3, QuietStep
<1>2. ASSUME NEW t \in Threads, NEW s \in Subs, Unsubscribe(t, s) PROVE Balanced(u)'
  <2>1. pc[t] # "counting" /\ pc'[t] # "counting"
        /\ \A v \in Threads \ {t} : pc'[v] = pc[v] /\ todo'[v] = todo[v]
    BY <1>0, <1>2 DEF Unsubscribe, CanCall
  <2>2. UNCHANGED <<accepted, queue, stats, consumer>>
    BY <1>2 DEF Unsubscribe
  <2> QED BY <1>0, <2>1, <2>2, QuietStep
<1>3. ASSUME NEW t \in Threads, Shutdown(t) PROVE Balanced(u)'
  <2>1. pc[t] # "counting" /\ pc'[t] # "counting"
        /\ \A v \in Threads \ {t} : pc'[v] = pc[v] /\ todo'[v] = todo[v]
    BY <1>0, <1>3 DEF Shutdown, CanCall
  <2>2. UNCHANGED <<accepted, queue, stats, consumer>>
    BY <1>3 DEF Shutdown
  <2> QED BY <1>0, <2>1, <2>2, QuietStep
<1>4. ASSUME NEW t \in Threads, NEW e \in Events, Publish(t, e) PROVE Balanced(u)'
  <2>1. pc[t] # "counting" /\ pc'[t] # "counting"
        /\ \A v \in Threads \ {t} : pc'[v] = pc[v] /\ todo'[v] = todo[v]
    BY <1>0, <1>4 DEF Publish, CanCall
  <2>2. UNCHANGED <<accepted, queue, stats, consumer>>
    BY <1>4 DEF Publish
  <2> QED BY <1>0, <2>1, <2>2, QuietStep
<1>5. ASSUME NEW t \in Threads, Register(t) PROVE Balanced(u)'
  <2>1. pc[t] # "counting" /\ pc'[t] # "counting"
        /\ \A v \in Threads \ {t} : pc'[v] = pc[v] /\ todo'[v] = todo[v]
    BY <1>0, <1>5 DEF Register, EndCall
  <2>2. UNCHANGED <<accepted, queue, stats, consumer>>
    BY <1>5 DEF Register
  <2> QED BY <1>0, <2>1, <2>2, QuietStep
<1>6. ASSUME NEW t \in Threads, Signal(t) PROVE Balanced(u)'
  <2>1. pc[t] # "counting" /\ pc'[t] # "counting"
        /\ \A v \in Threads \ {t} : pc'[v] = pc[v] /\ todo'[v] = todo[v]
    BY <1>0, <1>6 DEF Signal
  <2>2. UNCHANGED <<accepted, queue, stats, consumer>>
    BY <1>6 DEF Signal
  <2> QED BY <1>0, <2>1, <2>2, QuietStep
<1>7. ASSUME NEW t \in Threads, Join(t) PROVE Balanced(u)'
  <2>1. pc[t] # "counting" /\ pc'[t] # "counting"
        /\ \A v \in Threads \ {t} : pc'[v] = pc[v] /\ todo'[v] = todo[v]
    BY <1>0, <1>7 DEF Join, EndCall
  <2>2. UNCHANGED <<accepted, queue, stats, consumer>>
    BY <1>7 DEF Join
  <2> QED BY <1>0, <2>1, <2>2, QuietStep
<1>8. ASSUME NEW t \in Threads, Put(t) PROVE Balanced(u)'
  <2> DEFINE s == Head(todo[t])
  <2>1. s \in Subs /\ event[t] \in Events
    BY <1>8, InCall DEF Put, TypeOK, CallsOK
  <2>2. /\ queue' = [queue EXCEPT ![s] = Append(queue[s], event[t])]
        /\ accepted' = [accepted EXCEPT ![s] = Append(accepted[s], event[t])]
        /\ UNCHANGED <<delivered, handlerErrors, dropped, consumer>>
    BY <1>8 DEF Put, stats
  <2>3. Dropping(u)' = Dropping(u)
    <3>1. pc[t] # "counting" /\ pc'[t] # "counting"
          /\ \A v \in Threads \ {t} : pc'[v] = pc[v] /\ todo'[v] = todo[v]
      BY <1>0, <1>8 DEF Put, EndCall
    <3> QED BY <3>1, NoEviction DEF TypeOK
  <2> HIDE DEF s
  <2>4. CASE u # s
    BY <1>0, <2>1, <2>2, <2>3, <2>4, Untouched
  <2>5. CASE u = s
    <3>1. Queued(u)' = Queued(u) + 1
      BY <1>0, <2>1, <2>2, <2>5 DEF Queued
    <3>2. Accepted(u)' = Accepted(u) + 1
      BY <1>0, <2>1, <2>2, <2>5 DEF Accepted
    <3>3. Counted(u)' = Counted(u) /\ Handled(u)' = Handled(u) /\ Evicted(u)' = Evicted(u)
      BY <2>2, <2>3 DEF Counted, Handled, Evicted
    <3> QED BY <1>20, <3>1, <3>2, <3>3 DEF Balanced
  <2> QED BY <2>4, <2>5
<1>9. ASSUME NEW t \in Threads, PutTimeout(t) PROVE Balanced(u)'
  <2>1. pc[t] # "counting" /\ pc'[t] # "counting"
        /\ \A v \in Threads \ {t} : pc'[v] = pc[v] /\ todo'[v] = todo[v]
    BY <1>0, <1>9 DEF PutTimeout, EndCall
  <2>2. UNCHANGED <<accepted, queue, stats, consumer>>
    BY <1>9 DEF PutTimeout
  <2> QED BY <1>0, <2>1, <2>2, QuietStep
<1>10. ASSUME NEW t \in Threads, PutFull(t) PROVE Balanced(u)'
  <2>1. pc[t] # "counting" /\ pc'[t] # "counting"
        /\ \A v \in Threads \ {t} : pc'[v] = pc[v] /\ todo'[v] = todo[v]
    BY <1>0, <1>10 DEF PutFull
  <2>2. UNCHANGED <<accepted, queue, stats, consumer>>
    BY <1>10 DEF PutFull
  <2> QED BY <1>0, <2>1, <2>2, QuietStep
<1>11. ASSUME NEW t \in Threads, Evict(t) PROVE Balanced(u)'
  <2> DEFINE s == Head(todo[t])
  <2>1. s \in Subs /\ pc[t] = "evicting"
    BY <1>11, InCall DEF Evict, TypeOK
  <2>2. UNCHANGED <<accepted, stats, consumer, todo>>
    BY <1>11 DEF Evict
  <2>3. CASE queue[s] = <<>>
    <3>1. pc'[t] # "counting" /\ \A v \in Threads \ {t} : pc'[v] = pc[v]
      BY <1>0, <1>11, <2>3 DEF Evict
    <3>2. UNCHANGED queue
      BY <1>11, <2>3 DEF Evict
    <3> QED BY <1>0, <2>1, <2>2, <3>1, <3>2, QuietStep
  <2>4. CASE queue[s] # <<>>
    <3>1. /\ queue' = [queue EXCEPT ![s] = Tail(queue[s])]
          /\ pc' = [pc EXCEPT ![t] = "counting"]
      BY <1>11, <2>4 DEF Evict
    <3>2. CASE u # s
      <4>1. Dropping(u)' = Dropping(u)
        BY <1>0, <2>1, <2>2, <3>1, <3>2 DEF Dropping
      <4> QED BY <1>0, <2>1, <2>2, <3>1, <3>2, <4>1, Untouched DEF stats
    <3>3. CASE u = s
      <4>1. Dropping(u)' = Dropping(u) \cup {t} /\ t \notin Dropping(u)
        BY <1>0, <2>1, <2>2, <3>1, <3>3 DEF Dropping
      <4>2. Evicted(u)' = Evicted(u) + 1
        BY <4>1, DroppingFinite, FS_AddElement DEF Evicted
      <4> HIDE DEF s
      <4>3. Queued(u)' = Queued(u) - 1
        BY <1>0, <2>1, <2>4, <3>1, <3>3 DEF Queued
      <4>4. Accepted(u)' = Accepted(u) /\ Counted(u)' = Counted(u) /\ Handled(u)' = Handled(u)
        BY <2>2 DEF stats, Accepted, Counted, Handled
      <4> QED BY <1>20, <4>2, <4>3, <4>4 DEF Balanced
    <3> QED BY <3>2, <3>3
  <2> QED BY <2>3, <2>4
<1>18. ASSUME NEW t \in Threads, CountDrop(t) PROVE Balanced(u)'
  <2> DEFINE s == Head(todo[t])
  <2>1. s \in Subs /\ pc[t] = "counting"
    BY <1>18, InCall DEF CountDrop, TypeOK
  <2>2. /\ UNCHANGED <<accepted, delivered, handlerErrors, queue, consumer, todo>>
        /\ pc' = [pc EXCEPT ![t] = "putting"]
        /\ dropped' = [dropped EXCEPT ![s] = dropped[s] + 1]
    BY <1>18 DEF CountDrop
  <2>3. CASE u # s
    <3>1. Dropping(u)' = Dropping(u)
      BY <1>0, <2>1, <2>2, <2>3 DEF Dropping
    <3> QED BY <1>0, <2>1, <2>2, <2>3, <3>1, Untouched
  <2>4. CASE u = s
    <3>1. Dropping(u)' = Dropping(u) \ {t} /\ t \in Dropping(u)
      BY <1>0, <2>1, <2>2, <2>4 DEF Dropping
    <3>2. Evicted(u)' = Evicted(u) - 1
      BY <3>1, DroppingFinite, FS_RemoveElement DEF Evicted
    <3> HIDE DEF s
    <3>3. Counted(u)' = Counted(u) + 1
      BY <1>0, <2>1, <2>2, <2>4 DEF Counted
    <3>4. Accepted(u)' = Accepted(u) /\ Queued(u)' = Queued(u) /\ Handled(u)' = Handled(u)
      BY <2>2 DEF Accepted, Queued, Handled
    <3> QED BY <1>20, <3>2, <3>3, <3>4 DEF Balanced
  <2> QED BY <2>3, <2>4
<1>12. ASSUME NEW s \in Subs, CheckStop(s) PROVE Balanced(u)'
  <2>1. consumer'[u] = "handling" <=> consumer[u] = "handling"
    BY <1>0, <1>12 DEF CheckStop
  <2>2. UNCHANGED <<accepted, queue, stats, pc, todo>>
    BY <1>12 DEF CheckStop
  <2> QED BY <1>0, <1>19, <2>1, <2>2, Untouched DEF stats
<1>13. ASSUME NEW s \in Subs, GetTimeout(s) PROVE Balanced(u)'
  <2>1. consumer'[u] = "handling" <=> consumer[u] = "handling"
    BY <1>0, <1>13 DEF GetTimeout
  <2>2. UNCHANGED <<accepted, queue, stats, pc, todo>>
    BY <1>13 DEF GetTimeout
  <2> QED BY <1>0, <1>19, <2>1, <2>2, Untouched DEF stats
<1>14. ASSUME NEW s \in Subs, Get(s) PROVE Balanced(u)'
  <2>1. /\ queue[s] # <<>> /\ queue' = [queue EXCEPT ![s] = Tail(queue[s])]
        /\ consumer[s] = "waiting" /\ consumer' = [consumer EXCEPT ![s] = "handling"]
        /\ UNCHANGED <<accepted, delivered, handlerErrors, dropped, pc, todo>>
    BY <1>14 DEF Get, stats
  <2>2. CASE u # s
    BY <1>0, <1>19, <2>1, <2>2, Untouched
  <2>3. CASE u = s
    <3>1. Queued(u)' = Queued(u) - 1
      BY <1>0, <2>1, <2>3 DEF Queued
    <3>2. Handled(u)' = Handled(u) + 1
      BY <1>0, <2>1, <2>3 DEF Handled
    <3>3. Accepted(u)' = Accepted(u) /\ Counted(u)' = Counted(u) /\ Evicted(u)' = Evicted(u)
      BY <1>19, <2>1 DEF Accepted, Counted, Evicted
    <3> QED BY <1>20, <3>1, <3>2, <3>3 DEF Balanced
  <2> QED BY <2>2, <2>3
<1>15. ASSUME NEW s \in Subs, HandlerReturns(s) PROVE Balanced(u)'
  <2>1. /\ consumer[s] = "handling" /\ consumer' = [consumer EXCEPT ![s] = "check"]
        /\ delivered' = [delivered EXCEPT ![s] = delivered[s] + 1]
        /\ UNCHANGED <<accepted, queue, handlerErrors, dropped, pc, todo>>
    BY <1>15 DEF HandlerReturns, FinishHandling
  <2>2. CASE u # s
    BY <1>0, <1>19, <2>1, <2>2, Untouched
  <2>3. CASE u = s
    <3>1. Counted(u)' = Counted(u) + 1
      BY <1>0, <2>1, <2>3 DEF Counted
    <3>2. Handled(u)' = Handled(u) - 1
      BY <1>0, <2>1, <2>3 DEF Handled
    <3>3. Accepted(u)' = Accepted(u) /\ Queued(u)' = Queued(u) /\ Evicted(u)' = Evicted(u)
      BY <1>19, <2>1 DEF Accepted, Queued, Evicted
    <3> QED BY <1>20, <3>1, <3>2, <3>3 DEF Balanced
  <2> QED BY <2>2, <2>3
<1>16. ASSUME NEW s \in Subs, HandlerRaises(s) PROVE Balanced(u)'
  <2>1. /\ consumer[s] = "handling" /\ consumer' = [consumer EXCEPT ![s] = "check"]
        /\ handlerErrors' = [handlerErrors EXCEPT ![s] = handlerErrors[s] + 1]
        /\ UNCHANGED <<accepted, queue, delivered, dropped, pc, todo>>
    BY <1>16 DEF HandlerRaises, FinishHandling
  <2>2. CASE u # s
    BY <1>0, <1>19, <2>1, <2>2, Untouched
  <2>3. CASE u = s
    <3>1. Counted(u)' = Counted(u) + 1
      BY <1>0, <2>1, <2>3 DEF Counted
    <3>2. Handled(u)' = Handled(u) - 1
      BY <1>0, <2>1, <2>3 DEF Handled
    <3>3. Accepted(u)' = Accepted(u) /\ Queued(u)' = Queued(u) /\ Evicted(u)' = Evicted(u)
      BY <1>19, <2>1 DEF Accepted, Queued, Evicted
    <3> QED BY <1>20, <3>1, <3>2, <3>3 DEF Balanced
  <2> QED BY <2>2, <2>3
<1>17. CASE UNCHANGED vars
  BY <1>0, <1>17, <1>19, Untouched DEF vars, stats
<1> QED
  BY <1>1, <1>2, <1>3, <1>4, <1>5, <1>6, <1>7, <1>8, <1>9, <1>10, <1>11, <1>12, <1>13, <1>14,
     <1>15, <1>16, <1>17, <1>18 DEF Next, StartCall, ContinueCall, Consume, Handle

\* What stats() reports, with the queue, the handler and the evictions under
\* way, accounts for every event a subscription accepted, whatever publishers
\* evict and whatever the handlers do (runtime/events/bus.py).
THEOREM StatsAccount == Spec => []StatsAccountForEveryEvent
<1>1. Init => StatsAccountForEveryEvent
  <2> SUFFICES ASSUME Init, NEW s \in Subs PROVE Balanced(s)
    BY Balance
  <2>1. Dropping(s) = {}
    BY DEF Init, Dropping
  <2>2. Cardinality(Dropping(s)) = 0
    BY <2>1, FS_EmptySet
  <2> QED BY <2>2 DEF Init, Balanced, Accepted, Counted, Queued, Handled, Evicted
<1>2. TypeOK /\ StatsAccountForEveryEvent /\ [Next]_vars => StatsAccountForEveryEvent'
  BY StepStats
<1> QED BY <1>1, <1>2, TypeCorrect, PTL DEF Spec

------------------------------------------------------------------------------
(* The table.                                                              *)

\* The subscriptions a call has still to deal with.
Todo(t) == ToSet(todo[t])

\* The one it deals with next.
Target(t) == Head(todo[t])

\* The table holds a subscription only under its topic, and once.
TableOK ==
  \A k \in Topics : \A i, j \in 1..Len(subscriptions[k]) :
    /\ SubTopic[subscriptions[k][i]] = k
    /\ i # j => subscriptions[k][i] # subscriptions[k][j]

\* A subscription nobody has made is nowhere.
CreatedOK ==
  \A s \in Subs : consumer[s] = "absent" =>
    /\ ~stopRequested[s] /\ ~Registered(s)
    /\ \A t \in Threads : s \notin Todo(t)

\* While subscribe() registers a subscription no other call knows it.
RegisteringOK ==
  \A t \in Threads : pc[t] = "registering" =>
    /\ todo[t] = <<Target(t)>>
    /\ ~stopRequested[Target(t)] /\ ~Registered(Target(t))
    /\ \A v \in Threads \ {t} : Target(t) \notin Todo(v)

\* What unsubscribe() and shutdown() are about to stop is out of the table.
StoppingOK ==
  \A t \in Threads : pc[t] \in {"signalling", "joining"} =>
    \A s \in Todo(t) : ~Registered(s)

\* What is stopped is out of the table, and a consumer ends only if stopped.
StoppedOK ==
  \A s \in Subs :
    /\ stopRequested[s] => ~Registered(s)
    /\ consumer[s] = "exited" => stopRequested[s]

Routing == TableOK /\ CreatedOK /\ RegisteringOK /\ StoppingOK /\ StoppedOK

------------------------------------------------------------------------------
(* Sequences seen as sets.                                                 *)

LEMMA TailToSet ==
  ASSUME NEW S, NEW q \in Seq(S), q # <<>>
  PROVE  /\ ToSet(Tail(q)) \subseteq ToSet(q) /\ Head(q) \in ToSet(q)
         /\ ToSet(q) \subseteq S
BY DEF ToSet

\* What is left of a bucket without repetitions when s is removed.
LEMMA WithoutElements ==
  ASSUME NEW bucket \in Seq(Subs), NEW s,
         \A i, j \in 1..Len(bucket) : i # j => bucket[i] # bucket[j]
  PROVE  \A i, j \in 1..Len(Without(bucket, s)) :
           /\ Without(bucket, s)[i] \in ToSet(bucket) \ {s}
           /\ i # j => Without(bucket, s)[i] # Without(bucket, s)[j]
<1>1. CASE s \in ToSet(bucket)
  <2> DEFINE at == CHOOSE i \in 1..Len(bucket) : bucket[i] = s
             w == Without(bucket, s)
  <2>1. at \in 1..Len(bucket) /\ bucket[at] = s
    BY <1>1 DEF ToSet
  <2>2. w = SubSeq(bucket, 1, at - 1) \o SubSeq(bucket, at + 1, Len(bucket))
    BY <1>1 DEF Without, RemoveAt
  <2> DEFINE front == SubSeq(bucket, 1, at - 1)
             back == SubSeq(bucket, at + 1, Len(bucket))
  <2> HIDE DEF at, w
  <2>3. front \in Seq(Subs) /\ Len(front) = at - 1
        /\ \A i \in 1..(at - 1) : front[i] = bucket[i]
    BY <2>1
  <2>4. back \in Seq(Subs) /\ Len(back) = Len(bucket) - at
        /\ \A i \in 1..(Len(bucket) - at) : back[i] = bucket[at + i]
    BY <2>1
  <2> HIDE DEF front, back
  <2>5. /\ Len(w) = Len(front) + Len(back)
        /\ \A i \in 1..Len(w) : w[i] = IF i <= Len(front) THEN front[i] ELSE back[i - Len(front)]
    <3>1. w = front \o back
      BY <2>2 DEF front, back
    <3>2. /\ Len(front \o back) = Len(front) + Len(back)
          /\ \A i \in 1..Len(front) + Len(back) :
               (front \o back)[i] = IF i <= Len(front) THEN front[i] ELSE back[i - Len(front)]
      BY <2>3, <2>4, ConcatProperties, ZenonT(40)
    <3> QED BY <3>1, <3>2, Zenon
  <2>6. /\ Len(w) = Len(bucket) - 1
        /\ \A i \in 1..Len(w) : w[i] = IF i < at THEN bucket[i] ELSE bucket[i + 1]
    <3>1. Len(w) = Len(bucket) - 1
      BY <2>1, <2>3, <2>4, <2>5
    <3>2. ASSUME NEW i \in 1..Len(w), i < at PROVE w[i] = bucket[i]
      BY <2>1, <2>3, <2>5, <3>1, <3>2
    <3>3. ASSUME NEW i \in 1..Len(w), ~(i < at) PROVE w[i] = bucket[i + 1]
      <4>1. i - (at - 1) \in 1..(Len(bucket) - at) /\ at + (i - (at - 1)) = i + 1
        BY <2>1, <3>1, <3>3
      <4>2. w[i] = back[i - (at - 1)]
        BY <2>1, <2>3, <2>5, <3>1, <3>3
      <4> QED BY <2>4, <4>1, <4>2
    <3> QED BY <3>1, <3>2, <3>3
  <2>7. ASSUME NEW i \in 1..Len(w), NEW j \in 1..Len(w)
        PROVE  w[i] \in ToSet(bucket) \ {s} /\ (i # j => w[i] # w[j])
    <3>1. \A k \in 1..Len(w) : \E m \in 1..Len(bucket) :
            /\ m = IF k < at THEN k ELSE k + 1
            /\ m # at /\ w[k] = bucket[m]
      BY <2>1, <2>6
    <3>2. w[i] \in ToSet(bucket) \ {s}
      BY <2>1, <3>1 DEF ToSet
    <3>3. ASSUME i # j PROVE w[i] # w[j]
      BY <2>1, <2>6, <3>1, <3>3
    <3> QED BY <3>2, <3>3
  <2> QED BY <2>7 DEF w
<1>2. CASE s \notin ToSet(bucket)
  BY <1>2 DEF Without, ToSet
<1> QED BY <1>1, <1>2

------------------------------------------------------------------------------
(* The invariant is inductive, given the types.                            *)

\* The steps that leave the table and the stop flags alone, start no consumer
\* and no call, and end a consumer only if it was stopped.
LEMMA QuietRouting ==
  ASSUME TypeOK, Routing,
         UNCHANGED <<subscriptions, stopRequested>>,
         \A s \in Subs : consumer'[s] = "absent" => consumer[s] = "absent",
         \A s \in Subs : consumer'[s] = "exited" => consumer[s] = "exited" \/ stopRequested[s],
         \A t \in Threads : Todo(t)' \subseteq Todo(t),
         \A t \in Threads : pc'[t] = "registering" =>
           pc[t] = "registering" /\ todo'[t] = todo[t],
         \A t \in Threads : pc'[t] \in {"signalling", "joining"} =>
           pc[t] \in {"signalling", "joining"}
  PROVE  Routing'
<1>1. \A s : Registered(s)' <=> Registered(s)
  BY DEF Registered
<1>2. TableOK'
  BY DEF Routing, TableOK
<1>3. CreatedOK'
  BY <1>1 DEF Routing, CreatedOK
<1>4. RegisteringOK'
  BY <1>1 DEF Routing, RegisteringOK, Target
<1>5. StoppingOK'
  BY <1>1 DEF Routing, StoppingOK
<1>6. StoppedOK'
  BY <1>1 DEF Routing, StoppedOK
<1> QED BY <1>2, <1>3, <1>4, <1>5, <1>6 DEF Routing

\* A call of thread t that goes on with no more targets than before.
LEMMA QuietCall ==
  ASSUME TypeOK, Routing, NEW t \in Threads,
         UNCHANGED <<subscriptions, stopRequested, consumer>>,
         NEW p, pc' = [pc EXCEPT ![t] = p], p # "registering",
         p \in {"signalling", "joining"} => pc[t] \in {"signalling", "joining"},
         NEW q, todo' = [todo EXCEPT ![t] = q],
         q \in {<<>>, todo[t], Tail(todo[t])}, pc[t] # "idle"
  PROVE  Routing'
<1>1. ToSet(q) \subseteq Todo(t)
  <2>1. todo[t] \in Seq(Subs) /\ todo[t] # <<>>
    BY InCall DEF TypeOK
  <2>2. ToSet(Tail(todo[t])) \subseteq Todo(t)
    BY <2>1, TailToSet DEF Todo
  <2>3. ToSet(<<>>) = {}
    BY DEF ToSet
  <2> QED BY <2>2, <2>3 DEF Todo
<1>2. \A v \in Threads : Todo(v)' \subseteq Todo(v)
  BY <1>1 DEF Todo, TypeOK, CallsOK
<1>3. pc \in [Threads -> CallStates] /\ todo \in [Threads -> Seq(Subs)]
  BY DEF TypeOK, CallsOK
<1>4. \A v \in Threads : pc'[v] = "registering" => pc[v] = "registering" /\ todo'[v] = todo[v]
  BY <1>3
<1>5. \A v \in Threads : pc'[v] \in {"signalling", "joining"} => pc[v] \in {"signalling", "joining"}
  BY <1>3
<1> QED BY <1>2, <1>4, <1>5, QuietRouting

\* A step of a consumer thread.
LEMMA QuietConsumer ==
  ASSUME TypeOK, Routing, NEW s \in Subs,
         UNCHANGED <<subscriptions, stopRequested, pc, todo>>,
         NEW c, consumer' = [consumer EXCEPT ![s] = c],
         c # "absent", c = "exited" => stopRequested[s]
  PROVE  Routing'
<1>1. consumer \in [Subs -> ConsumerStates]
  BY DEF TypeOK, ConsumersOK
<1>2. \A t \in Threads : Todo(t)' = Todo(t)
  BY DEF Todo
<1> QED BY <1>1, <1>2, QuietRouting

\* A call that ends is quiet.
LEMMA QuietEnd ==
  ASSUME TypeOK, Routing, NEW t \in Threads, EndCall(t), pc[t] # "idle",
         UNCHANGED <<subscriptions, stopRequested, consumer>>
  PROVE  Routing'
<1>1. pc' = [pc EXCEPT ![t] = "idle"] /\ todo' = [todo EXCEPT ![t] = <<>>]
  BY DEF EndCall
<1> QED BY <1>1, QuietCall

\* A subscription is made: it is nowhere but in the hands of its maker.
LEMMA SubscribeRouting ==
  ASSUME TypeOK, Routing, NEW t \in Threads, NEW s \in Subs, Subscribe(t, s)
  PROVE  Routing'
<1>0. /\ subscriptions \in [Topics -> Seq(Subs)] /\ stopRequested \in [Subs -> BOOLEAN]
      /\ consumer \in [Subs -> ConsumerStates]
      /\ pc \in [Threads -> CallStates] /\ todo \in [Threads -> Seq(Subs)]
  BY DEF TypeOK, DataOK, CallsOK, ConsumersOK
<1>1. /\ consumer[s] = "absent" /\ consumer' = [consumer EXCEPT ![s] = "check"]
      /\ pc' = [pc EXCEPT ![t] = "registering"] /\ todo' = [todo EXCEPT ![t] = <<s>>]
      /\ UNCHANGED <<subscriptions, stopRequested>>
  BY DEF Subscribe
<1>2. \A r : Registered(r)' <=> Registered(r)
  BY <1>1 DEF Registered
<1>3. /\ todo'[t] = <<s>> /\ Target(t)' = s /\ Todo(t)' = {s}
      /\ \A v \in Threads \ {t} : todo'[v] = todo[v] /\ pc'[v] = pc[v] /\ Todo(v)' = Todo(v) /\ Target(v)' = Target(v)
  BY <1>0, <1>1 DEF Todo, ToSet, Target
<1>4. /\ ~stopRequested[s] /\ ~Registered(s) /\ \A v \in Threads : s \notin Todo(v)
  BY <1>1 DEF Routing, CreatedOK
<1>5. TableOK'
  BY <1>1 DEF Routing, TableOK
<1>6. CreatedOK'
  BY <1>0, <1>1, <1>2, <1>3 DEF Routing, CreatedOK
<1>7. RegisteringOK'
  <2>1. ASSUME NEW v \in Threads \ {t}, pc[v] = "registering"
        PROVE  Target(v) # s /\ Target(v) \in Todo(v)
    BY <1>4, <2>1, TailToSet, InCall DEF Todo, Target, TypeOK
  <2>2. ASSUME NEW v \in Threads, pc'[v] = "registering"
        PROVE  /\ todo'[v] = <<Target(v)'>>
               /\ ~stopRequested[Target(v)]' /\ ~Registered(Target(v))'
               /\ \A w \in Threads \ {v} : Target(v)' \notin Todo(w)'
    <3>1. CASE v = t
      <4>1. ~stopRequested'[s] /\ ~Registered(s)' /\ \A w \in Threads \ {t} : s \notin Todo(w)'
        BY <1>1, <1>2, <1>3, <1>4
      <4> QED BY <1>3, <3>1, <4>1
    <3>2. CASE v # t
      <4>1. pc[v] = "registering" /\ todo'[v] = todo[v] /\ Target(v)' = Target(v)
        BY <1>3, <2>2, <3>2
      <4>2. /\ todo[v] = <<Target(v)>>
            /\ ~stopRequested[Target(v)] /\ ~Registered(Target(v))
            /\ \A w \in Threads \ {v} : Target(v) \notin Todo(w)
        BY <4>1 DEF Routing, RegisteringOK
      <4>3. \A w \in Threads \ {v} : Target(v) \notin Todo(w)'
        BY <1>3, <2>1, <3>2, <4>1, <4>2
      <4> QED BY <1>1, <1>2, <4>1, <4>2, <4>3
    <3> QED BY <3>1, <3>2
  <2> QED BY <2>2 DEF RegisteringOK
<1>8. StoppingOK'
  BY <1>0, <1>1, <1>2, <1>3 DEF Routing, StoppingOK
<1>9. StoppedOK'
  BY <1>0, <1>1, <1>2 DEF Routing, StoppedOK
<1> QED BY <1>5, <1>6, <1>7, <1>8, <1>9 DEF Routing

\* A subscription enters the table, and nobody but its maker knew it.
LEMMA RegisterRouting ==
  ASSUME TypeOK, Routing, NEW t \in Threads, Register(t)
  PROVE  Routing'
<1>0. /\ subscriptions \in [Topics -> Seq(Subs)] /\ stopRequested \in [Subs -> BOOLEAN]
      /\ consumer \in [Subs -> ConsumerStates]
      /\ pc \in [Threads -> CallStates] /\ todo \in [Threads -> Seq(Subs)]
  BY DEF TypeOK, DataOK, CallsOK, ConsumersOK
<1> DEFINE s == Target(t)
           k == SubTopic[s]
<1>1. /\ pc[t] = "registering"
      /\ subscriptions' = [subscriptions EXCEPT ![k] = Append(subscriptions[k], s)]
      /\ pc' = [pc EXCEPT ![t] = "idle"] /\ todo' = [todo EXCEPT ![t] = <<>>]
      /\ UNCHANGED <<stopRequested, consumer>>
  BY DEF Register, EndCall, subVars, Target
<1>2. s \in Subs /\ s \in Todo(t) /\ k \in Topics
  BY <1>1, InCall, TailToSet, SubscriptionAssumption DEF Todo, Target, TypeOK
<1>3. /\ ~stopRequested[s] /\ ~Registered(s)
      /\ \A v \in Threads \ {t} : s \notin Todo(v)
  BY <1>1 DEF Routing, RegisteringOK
<1>4. consumer[s] # "absent"
  BY <1>2 DEF Routing, CreatedOK
<1> HIDE DEF s
<1>12. \A l \in Topics : ToSet(subscriptions'[l]) \subseteq ToSet(subscriptions[l]) \cup {s}
  <2> SUFFICES ASSUME NEW l \in Topics
               PROVE  ToSet(subscriptions'[l]) \subseteq ToSet(subscriptions[l]) \cup {s}
    OBVIOUS
  <2>1. CASE l = k
    <3>1. subscriptions'[l] = Append(subscriptions[l], s) /\ subscriptions[l] \in Seq(Subs)
      BY <1>0, <1>1, <1>2, <2>1
    <3> QED BY <1>2, <3>1 DEF ToSet
  <2>2. CASE l # k
    BY <1>0, <1>1, <2>2
  <2> QED BY <2>1, <2>2
<1>5. \A r \in Subs : Registered(r)' => Registered(r) \/ r = s
  BY <1>12 DEF Registered
<1>6. /\ Todo(t)' = {}
      /\ \A v \in Threads \ {t} : todo'[v] = todo[v] /\ pc'[v] = pc[v] /\ Todo(v)' = Todo(v) /\ Target(v)' = Target(v)
  BY <1>0, <1>1 DEF Todo, ToSet, Target
<1>7. TableOK'
  <2>1. \A i \in 1..Len(subscriptions[k]) : subscriptions[k][i] # s
    BY <1>0, <1>2, <1>3 DEF Registered, ToSet
  <2>2. ASSUME NEW l \in Topics, NEW i \in 1..Len(subscriptions'[l]), NEW j \in 1..Len(subscriptions'[l])
        PROVE  /\ SubTopic[subscriptions'[l][i]] = l
               /\ i # j => subscriptions'[l][i] # subscriptions'[l][j]
    <3>1. CASE l # k
      BY <1>0, <1>1, <3>1 DEF Routing, TableOK
    <3>2. CASE l = k
      <4>1. subscriptions'[l] = Append(subscriptions[k], s)
        BY <1>0, <1>1, <1>2, <3>2
      <4>2. /\ Len(subscriptions'[l]) = Len(subscriptions[k]) + 1
            /\ \A m \in 1..Len(subscriptions'[l]) : subscriptions'[l][m] =
                 IF m <= Len(subscriptions[k]) THEN subscriptions[k][m] ELSE s
        BY <1>0, <1>2, <4>1
      <4>3. \A m, n \in 1..Len(subscriptions[k]) :
              SubTopic[subscriptions[k][m]] = k /\ (m # n => subscriptions[k][m] # subscriptions[k][n])
        BY <1>2 DEF Routing, TableOK
      <4>4. Len(subscriptions[k]) \in Nat /\ SubTopic[s] = k
        BY <1>0, <1>2
      <4> DEFINE n == Len(subscriptions[k])
                 b == subscriptions'[l]
      <4>5. \A m \in 1..Len(b) : (m \in 1..n /\ b[m] = subscriptions[k][m]) \/ (m = n + 1 /\ b[m] = s)
        BY <4>2, <4>4
      <4>6. SubTopic[b[i]] = l
        BY <3>2, <4>3, <4>4, <4>5
      <4>7. ASSUME i # j PROVE b[i] # b[j]
        <5>1. i \in 1..Len(b) /\ j \in 1..Len(b)
          BY <2>2
        <5> HIDE DEF n, b
        <5>2. (i \in 1..n /\ b[i] = subscriptions[k][i]) \/ (i = n + 1 /\ b[i] = s)
          BY <4>5, <5>1
        <5>3. (j \in 1..n /\ b[j] = subscriptions[k][j]) \/ (j = n + 1 /\ b[j] = s)
          BY <4>5, <5>1
        <5> QED BY <2>1, <4>3, <4>7, <5>2, <5>3 DEF n
      <4> QED BY <4>6, <4>7
    <3> QED BY <3>1, <3>2
  <2> QED BY <2>2 DEF TableOK
<1>8. CreatedOK'
  <2>1. ASSUME NEW r \in Subs, consumer'[r] = "absent"
        PROVE  /\ ~stopRequested'[r] /\ ~Registered(r)'
               /\ \A v \in Threads : r \notin Todo(v)'
    <3>1. /\ r # s /\ ~stopRequested[r] /\ ~Registered(r)
          /\ \A v \in Threads : r \notin Todo(v)
      BY <1>1, <1>4, <2>1 DEF Routing, CreatedOK
    <3> QED BY <1>1, <1>5, <1>6, <3>1
  <2> QED BY <2>1 DEF CreatedOK
<1>9. RegisteringOK'
  <2>1. ASSUME NEW v \in Threads \ {t}, pc[v] = "registering"
        PROVE  Target(v) # s /\ Target(v) \in Subs
    BY <1>3, <2>1, TailToSet, InCall DEF Todo, Target, TypeOK
  <2>2. ASSUME NEW v \in Threads, pc'[v] = "registering"
        PROVE  /\ todo'[v] = <<Target(v)'>>
               /\ ~stopRequested[Target(v)]' /\ ~Registered(Target(v))'
               /\ \A w \in Threads \ {v} : Target(v)' \notin Todo(w)'
    <3>1. v # t /\ pc[v] = "registering" /\ todo'[v] = todo[v] /\ Target(v)' = Target(v)
      BY <1>0, <1>1, <1>6, <2>2
    <3>2. /\ todo[v] = <<Target(v)>>
          /\ ~stopRequested[Target(v)] /\ ~Registered(Target(v))
          /\ \A w \in Threads \ {v} : Target(v) \notin Todo(w)
      BY <3>1 DEF Routing, RegisteringOK
    <3>3. ~Registered(Target(v))'
      BY <1>5, <2>1, <3>1, <3>2
    <3>4. \A w \in Threads \ {v} : Target(v) \notin Todo(w)'
      BY <1>6, <3>2
    <3> QED BY <1>1, <3>1, <3>2, <3>3, <3>4
  <2> QED BY <2>2 DEF RegisteringOK
<1>10. StoppingOK'
  <2>1. ASSUME NEW v \in Threads, pc'[v] \in {"signalling", "joining"}, NEW r \in Todo(v)'
        PROVE  ~Registered(r)'
    <3>1. v # t /\ pc[v] \in {"signalling", "joining"} /\ r \in Todo(v)
      BY <1>0, <1>1, <1>6, <2>1
    <3>2. ~Registered(r) /\ r # s
      BY <1>3, <3>1 DEF Routing, StoppingOK
    <3>4. r \in Subs
      BY <1>0, <3>1 DEF Todo, ToSet
    <3> QED BY <1>5, <3>2, <3>4
  <2> QED BY <2>1 DEF StoppingOK
<1>11. StoppedOK'
  BY <1>0, <1>1, <1>3, <1>5 DEF Routing, StoppedOK
<1> QED BY <1>7, <1>8, <1>9, <1>10, <1>11 DEF Routing

\* A call starts with subscriptions that exist, that no call is registering
\* and that are out of the table if the call is to stop them; the table only
\* loses subscriptions.
LEMMA StartRouting ==
  ASSUME TypeOK, Routing, NEW t \in Threads, TableOK',
         UNCHANGED <<stopRequested, consumer>>,
         \A s \in Subs : Registered(s)' => Registered(s),
         NEW p, pc' = [pc EXCEPT ![t] = p], p # "registering",
         NEW q \in Seq(Subs), todo' = [todo EXCEPT ![t] = q],
         pc[t] # "registering",
         \A s \in ToSet(q) :
           /\ consumer[s] # "absent"
           /\ \A v \in Threads : pc[v] = "registering" => s # Target(v)
           /\ p \in {"signalling", "joining"} => ~Registered(s)'
  PROVE  Routing'
<1>0. /\ pc \in [Threads -> CallStates] /\ todo \in [Threads -> Seq(Subs)]
  BY DEF TypeOK, CallsOK
<1>1. /\ pc'[t] = p /\ Todo(t)' = ToSet(q)
      /\ \A v \in Threads \ {t} : todo'[v] = todo[v] /\ pc'[v] = pc[v] /\ Todo(v)' = Todo(v) /\ Target(v)' = Target(v)
  BY <1>0 DEF Todo, Target
<1>2. \A v \in Threads : Todo(v) \subseteq Subs
  BY <1>0 DEF Todo, ToSet
<1>3. CreatedOK'
  BY <1>1 DEF Routing, CreatedOK
<1>4. RegisteringOK'
  <2>1. ASSUME NEW v \in Threads, pc'[v] = "registering"
        PROVE  /\ todo'[v] = <<Target(v)'>>
               /\ ~stopRequested[Target(v)]' /\ ~Registered(Target(v))'
               /\ \A w \in Threads \ {v} : Target(v)' \notin Todo(w)'
    <3>1. v # t /\ pc[v] = "registering" /\ todo'[v] = todo[v] /\ Target(v)' = Target(v)
      BY <1>1, <2>1
    <3>2. /\ todo[v] = <<Target(v)>>
          /\ ~stopRequested[Target(v)] /\ ~Registered(Target(v))
          /\ \A w \in Threads \ {v} : Target(v) \notin Todo(w)
      BY <3>1 DEF Routing, RegisteringOK
    <3>3. Target(v) \in Subs
      BY <3>1, InCall DEF Target, TypeOK
    <3>4. \A w \in Threads \ {v} : Target(v) \notin Todo(w)'
      BY <1>1, <3>1, <3>2
    <3> QED BY <3>1, <3>2, <3>3, <3>4
  <2> QED BY <2>1 DEF RegisteringOK
<1>5. StoppingOK'
  <2>1. ASSUME NEW v \in Threads, pc'[v] \in {"signalling", "joining"}, NEW r \in Todo(v)'
        PROVE  ~Registered(r)'
    <3>1. CASE v = t
      BY <1>1, <2>1, <3>1
    <3>2. CASE v # t
      <4>1. pc[v] \in {"signalling", "joining"} /\ r \in Todo(v) /\ r \in Subs
        BY <1>1, <1>2, <2>1, <3>2
      <4> QED BY <4>1 DEF Routing, StoppingOK
    <3> QED BY <3>1, <3>2
  <2> QED BY <2>1 DEF StoppingOK
<1>6. StoppedOK'
  BY DEF Routing, StoppedOK
<1> QED BY <1>3, <1>4, <1>5, <1>6 DEF Routing

\* What is in the table exists, and no call is registering it.
LEMMA InTable ==
  ASSUME TypeOK, Routing, NEW s \in Subs, Registered(s)
  PROVE  /\ consumer[s] # "absent"
         /\ \A v \in Threads : pc[v] = "registering" => s # Target(v)
BY DEF Routing, CreatedOK, RegisteringOK

\* unsubscribe removes its subscription, which was in one bucket, once.
LEMMA UnsubscribeRouting ==
  ASSUME TypeOK, Routing, NEW t \in Threads, NEW s \in Subs, Unsubscribe(t, s)
  PROVE  Routing'
<1> DEFINE k == SubTopic[s]
<1>1. /\ subscriptions \in [Topics -> Seq(Subs)] /\ k \in Topics
      /\ subscriptions' = [subscriptions EXCEPT ![k] = Without(subscriptions[k], s)]
      /\ pc' = [pc EXCEPT ![t] = "signalling"] /\ todo' = [todo EXCEPT ![t] = <<s>>]
      /\ UNCHANGED <<stopRequested, consumer>> /\ pc[t] = "idle" /\ Returned(s)
  BY SubscriptionAssumption DEF Unsubscribe, CanCall, subVars, TypeOK, DataOK
<1>2. /\ \A l \in Topics \ {k} : subscriptions'[l] = subscriptions[l]
      /\ subscriptions'[k] = Without(subscriptions[k], s)
  BY <1>1
<1>3. \A l \in Topics : \A i, j \in 1..Len(subscriptions[l]) :
        /\ SubTopic[subscriptions[l][i]] = l
        /\ i # j => subscriptions[l][i] # subscriptions[l][j]
  BY DEF Routing, TableOK
<1>4. \A i, j \in 1..Len(subscriptions'[k]) :
        /\ subscriptions'[k][i] \in ToSet(subscriptions[k]) \ {s}
        /\ i # j => subscriptions'[k][i] # subscriptions'[k][j]
  <2> DEFINE bucket == subscriptions[k]
  <2>1. bucket \in Seq(Subs) /\ \A i, j \in 1..Len(bucket) : i # j => bucket[i] # bucket[j]
    BY <1>1, <1>3
  <2> HIDE DEF bucket
  <2>2. \A i, j \in 1..Len(Without(bucket, s)) :
          /\ Without(bucket, s)[i] \in ToSet(bucket) \ {s}
          /\ i # j => Without(bucket, s)[i] # Without(bucket, s)[j]
    BY <2>1, WithoutElements
  <2> QED BY <1>2, <2>2 DEF bucket
<1>5. TableOK'
  <2>1. ASSUME NEW l \in Topics, NEW i \in 1..Len(subscriptions'[l]), NEW j \in 1..Len(subscriptions'[l])
        PROVE  /\ SubTopic[subscriptions'[l][i]] = l
               /\ i # j => subscriptions'[l][i] # subscriptions'[l][j]
    <3>1. CASE l = k
      <4>1. subscriptions'[k][i] \in ToSet(subscriptions[k])
        BY <1>4, <2>1, <3>1
      <4>2. DOMAIN subscriptions[k] = 1..Len(subscriptions[k])
        BY <1>1
      <4>3. PICK m \in 1..Len(subscriptions[k]) : subscriptions'[k][i] = subscriptions[k][m]
        BY <4>1, <4>2 DEF ToSet
      <4>4. SubTopic[subscriptions'[k][i]] = k
        BY <1>1, <1>3, <4>3
      <4>5. i # j => subscriptions'[k][i] # subscriptions'[k][j]
        BY <1>4, <2>1, <3>1
      <4> QED BY <3>1, <4>4, <4>5
    <3>2. CASE l # k
      BY <1>2, <1>3, <2>1, <3>2
    <3> QED BY <3>1, <3>2
  <2> QED BY <2>1 DEF TableOK
<1>6. /\ \A l \in Topics : ToSet(subscriptions'[l]) \subseteq ToSet(subscriptions[l])
      /\ s \notin ToSet(subscriptions'[k])
  <2>1. subscriptions'[k] \in Seq(Subs)
    BY <1>1, <1>2, WithoutType
  <2>2. DOMAIN subscriptions'[k] = 1..Len(subscriptions'[k])
    BY <2>1
  <2>3. ToSet(subscriptions'[k]) \subseteq ToSet(subscriptions[k]) \ {s}
    BY <1>4, <2>2 DEF ToSet
  <2> QED BY <1>2, <2>3
<1>7. \A r \in Subs : Registered(r)' => Registered(r)
  BY <1>6 DEF Registered
<1>8. ~Registered(s)'
  <2>1. \A l \in Topics \ {k} : s \notin ToSet(subscriptions[l])
    BY <1>3 DEF ToSet
  <2> QED BY <1>2, <1>6, <2>1 DEF Registered
<1>9. \A v \in Threads : pc[v] = "registering" => s # Target(v)
  BY <1>1, InCall, TailToSet DEF Returned, Target, TypeOK
<1>10. ToSet(<<s>>) = {s} /\ <<s>> \in Seq(Subs)
  BY DEF ToSet
<1>11. consumer[s] # "absent"
  BY <1>1 DEF Returned
<1> QED BY <1>1, <1>5, <1>7, <1>8, <1>9, <1>10, <1>11, StartRouting

\* shutdown empties the table and takes what was in it.
LEMMA ShutdownRouting ==
  ASSUME TypeOK, Routing, NEW t \in Threads, Shutdown(t)
  PROVE  Routing'
<1>1. /\ subscriptions' = [k \in Topics |-> <<>>]
      /\ UNCHANGED <<stopRequested, consumer>> /\ pc[t] = "idle"
  BY DEF Shutdown, CanCall, subVars
<1>2. PICK order \in SetToSeqs({s \in Subs : Registered(s)}) :
        IF order = <<>> THEN UNCHANGED <<pc, todo>>
        ELSE pc' = [pc EXCEPT ![t] = "signalling"] /\ todo' = [todo EXCEPT ![t] = order]
  BY DEF Shutdown
<1>3. order \in Seq(Subs) /\ ToSet(order) \subseteq {s \in Subs : Registered(s)}
  BY OrderType
<1>4. TableOK' /\ \A s : ~Registered(s)'
  BY <1>1 DEF TableOK, Registered, ToSet
<1>5. \A s \in ToSet(order) :
        consumer[s] # "absent" /\ \A v \in Threads : pc[v] = "registering" => s # Target(v)
  BY <1>3, InTable
<1>6. CASE order = <<>>
  <2>1. /\ pc' = [pc EXCEPT ![t] = "idle"] /\ todo' = [todo EXCEPT ![t] = <<>>]
    BY <1>1, <1>2, <1>6 DEF TypeOK, CallsOK
  <2>2. ToSet(<<>>) = {} /\ <<>> \in Seq(Subs)
    BY DEF ToSet
  <2> QED BY <1>1, <1>4, <2>1, <2>2, StartRouting
<1>7. CASE order # <<>>
  <2>1. pc' = [pc EXCEPT ![t] = "signalling"] /\ todo' = [todo EXCEPT ![t] = order]
    BY <1>2, <1>7
  <2>2. \A s \in ToSet(order) :
          /\ consumer[s] # "absent"
          /\ \A v \in Threads : pc[v] = "registering" => s # Target(v)
          /\ "signalling" \in {"signalling", "joining"} => ~Registered(s)'
    BY <1>4, <1>5
  <2> QED BY <1>1, <1>3, <1>4, <2>1, <2>2, StartRouting
<1> QED BY <1>6, <1>7

\* publish takes what is in the bucket of its topic.
LEMMA PublishRouting ==
  ASSUME TypeOK, Routing, NEW t \in Threads, NEW e \in Events, Publish(t, e)
  PROVE  Routing'
<1> DEFINE targets == subscriptions[EventTopic[e]]
<1>1. UNCHANGED <<subscriptions, stopRequested, consumer>> /\ pc[t] = "idle"
  BY DEF Publish, CanCall, subVars
<1>2. EventTopic[e] \in Topics /\ targets \in Seq(Subs)
  BY SubscriptionAssumption DEF TypeOK, DataOK
<1>3. TableOK' /\ \A s : Registered(s)' <=> Registered(s)
  BY <1>1 DEF Routing, TableOK, Registered
<1>4. CASE targets = <<>>
  <2>1. UNCHANGED <<pc, todo>>
    BY <1>4 DEF Publish, threadVars
  <2> QED BY <1>1, <2>1, QuietRouting DEF Todo
<1>5. CASE targets # <<>>
  <2>1. pc' = [pc EXCEPT ![t] = "putting"] /\ todo' = [todo EXCEPT ![t] = targets]
    BY <1>5 DEF Publish
  <2>2. \A s \in ToSet(targets) : s \in Subs /\ Registered(s)
    BY <1>2 DEF Registered, ToSet
  <2>3. \A s \in ToSet(targets) :
          consumer[s] # "absent" /\ \A v \in Threads : pc[v] = "registering" => s # Target(v)
    BY <2>2, InTable
  <2> HIDE DEF targets
  <2>4. \A s \in ToSet(targets) :
          /\ consumer[s] # "absent"
          /\ \A v \in Threads : pc[v] = "registering" => s # Target(v)
          /\ "putting" \in {"signalling", "joining"} => ~Registered(s)'
    BY <2>3
  <2> QED BY <1>1, <1>2, <1>3, <2>1, <2>4, StartRouting
<1> QED BY <1>4, <1>5

\* A stop flag is set only on a subscription that is out of the table.
LEMMA SignalRouting ==
  ASSUME TypeOK, Routing, NEW t \in Threads, Signal(t)
  PROVE  Routing'
<1>0. /\ stopRequested \in [Subs -> BOOLEAN]
      /\ pc \in [Threads -> CallStates] /\ todo \in [Threads -> Seq(Subs)]
  BY DEF TypeOK, DataOK, CallsOK
<1>1. /\ pc[t] = "signalling" /\ pc' = [pc EXCEPT ![t] = "joining"]
      /\ stopRequested' = [stopRequested EXCEPT ![Target(t)] = TRUE]
      /\ UNCHANGED <<subscriptions, consumer, todo>>
  BY DEF Signal, Target
<1>2. Target(t) \in Subs /\ Target(t) \in Todo(t)
  BY <1>1, InCall, TailToSet DEF Todo, Target, TypeOK
<1>3. ~Registered(Target(t))
  BY <1>1, <1>2 DEF Routing, StoppingOK
<1>4. consumer[Target(t)] # "absent"
  BY <1>2 DEF Routing, CreatedOK
<1>5. /\ \A r : Registered(r)' <=> Registered(r)
      /\ \A v \in Threads : Todo(v)' = Todo(v) /\ Target(v)' = Target(v)
  BY <1>1 DEF Registered, Todo, Target
<1>6. TableOK'
  BY <1>1 DEF Routing, TableOK
<1>7. CreatedOK'
  BY <1>0, <1>1, <1>4, <1>5 DEF Routing, CreatedOK
<1>8. RegisteringOK'
  <2>1. ASSUME NEW v \in Threads, pc'[v] = "registering"
        PROVE  /\ todo'[v] = <<Target(v)'>>
               /\ ~stopRequested[Target(v)]' /\ ~Registered(Target(v))'
               /\ \A w \in Threads \ {v} : Target(v)' \notin Todo(w)'
    <3>1. v # t /\ pc[v] = "registering" /\ todo'[v] = todo[v] /\ Target(v)' = Target(v)
      BY <1>0, <1>1, <1>5, <2>1
    <3>2. /\ todo[v] = <<Target(v)>>
          /\ ~stopRequested[Target(v)] /\ ~Registered(Target(v))
          /\ \A w \in Threads \ {v} : Target(v) \notin Todo(w)
      BY <3>1 DEF Routing, RegisteringOK
    <3>3. Target(v) # Target(t) /\ Target(v) \in Subs
      BY <1>2, <3>1, <3>2, InCall DEF Target, TypeOK
    <3>4. ~stopRequested'[Target(v)]
      BY <1>0, <1>1, <3>2, <3>3
    <3> QED BY <1>5, <3>1, <3>2, <3>4
  <2> QED BY <2>1 DEF RegisteringOK
<1>9. StoppingOK'
  BY <1>0, <1>1, <1>5 DEF Routing, StoppingOK
<1>10. StoppedOK'
  BY <1>0, <1>1, <1>3, <1>5 DEF Routing, StoppedOK
<1> QED BY <1>6, <1>7, <1>8, <1>9, <1>10 DEF Routing

\* Every step keeps the invariant.
LEMMA StepRouting ==
  ASSUME TypeOK, Routing, [Next]_vars
  PROVE  Routing'
<1> USE DEF threadVars, subVars, stats, history
<1>0. pc \in [Threads -> CallStates] /\ todo \in [Threads -> Seq(Subs)]
  BY DEF TypeOK, CallsOK
<1>1. ASSUME NEW t \in Threads, NEW s \in Subs, Subscribe(t, s) PROVE Routing'
  BY <1>1, SubscribeRouting
<1>2. ASSUME NEW t \in Threads, NEW s \in Subs, Unsubscribe(t, s) PROVE Routing'
  BY <1>2, UnsubscribeRouting
<1>3. ASSUME NEW t \in Threads, Shutdown(t) PROVE Routing'
  BY <1>3, ShutdownRouting
<1>4. ASSUME NEW t \in Threads, NEW e \in Events, Publish(t, e) PROVE Routing'
  BY <1>4, PublishRouting
<1>5. ASSUME NEW t \in Threads, Register(t) PROVE Routing'
  BY <1>5, RegisterRouting
<1>6. ASSUME NEW t \in Threads, Signal(t) PROVE Routing'
  BY <1>6, SignalRouting
<1>7. ASSUME NEW t \in Threads, Join(t) PROVE Routing'
  <2>1. pc[t] = "joining" /\ UNCHANGED <<subscriptions, stopRequested, consumer>>
    BY <1>7 DEF Join
  <2>2. CASE EndCall(t)
    BY <2>1, <2>2, QuietEnd
  <2>3. CASE ~EndCall(t)
    <3>1. pc' = [pc EXCEPT ![t] = "signalling"] /\ todo' = [todo EXCEPT ![t] = Tail(todo[t])]
      BY <1>7, <2>3 DEF Join
    <3> QED BY <2>1, <3>1, QuietCall
  <2> QED BY <2>2, <2>3
<1>8. ASSUME NEW t \in Threads, Put(t) PROVE Routing'
  <2>1. pc[t] = "putting" /\ UNCHANGED <<subscriptions, stopRequested, consumer>>
    BY <1>8 DEF Put
  <2>2. CASE EndCall(t)
    BY <2>1, <2>2, QuietEnd
  <2>3. CASE ~EndCall(t)
    <3>1. pc' = [pc EXCEPT ![t] = "putting"] /\ todo' = [todo EXCEPT ![t] = Tail(todo[t])]
      BY <1>0, <1>8, <2>1, <2>3 DEF Put
    <3> QED BY <2>1, <3>1, QuietCall
  <2> QED BY <2>2, <2>3
<1>9. ASSUME NEW t \in Threads, PutTimeout(t) PROVE Routing'
  <2>1. /\ pc[t] = "putting" /\ EndCall(t)
        /\ UNCHANGED <<subscriptions, stopRequested, consumer>>
    BY <1>9 DEF PutTimeout
  <2> QED BY <2>1, QuietEnd
<1>10. ASSUME NEW t \in Threads, PutFull(t) \/ Evict(t) \/ CountDrop(t) PROVE Routing'
  <2>1. /\ pc[t] \in {"putting", "evicting", "counting"}
        /\ UNCHANGED <<subscriptions, stopRequested, consumer, todo>>
    BY <1>10 DEF PutFull, Evict, CountDrop
  <2>2. PICK p \in {"putting", "evicting", "counting"} : pc' = [pc EXCEPT ![t] = p]
    BY <1>10 DEF PutFull, Evict, CountDrop
  <2>3. todo' = [todo EXCEPT ![t] = todo[t]]
    BY <1>0, <2>1
  <2> QED BY <2>1, <2>2, <2>3, QuietCall
<1>11. ASSUME NEW s \in Subs, Consume(s) \/ Handle(s) PROVE Routing'
  <2>1. UNCHANGED <<subscriptions, stopRequested, pc, todo>>
    BY <1>11 DEF Consume, Handle, CheckStop, GetTimeout, Get, HandlerReturns, HandlerRaises,
                 FinishHandling
  <2>2. PICK c \in {"check", "waiting", "handling", "exited"} :
          consumer' = [consumer EXCEPT ![s] = c] /\ (c = "exited" => stopRequested[s])
    BY <1>11 DEF Consume, Handle, CheckStop, GetTimeout, Get, HandlerReturns, HandlerRaises,
                 FinishHandling
  <2> QED BY <2>1, <2>2, QuietConsumer
<1>12. CASE UNCHANGED vars
  BY <1>12, QuietRouting DEF vars, Todo
<1> QED
  BY <1>1, <1>2, <1>3, <1>4, <1>5, <1>6, <1>7, <1>8, <1>9, <1>10, <1>11, <1>12
     DEF Next, StartCall, ContinueCall

\* publish finds only live subscriptions in the table, however subscribe,
\* unsubscribe, shutdown and the consumer threads interleave: nothing is told
\* to stop before it has left the table, and nothing enters the table after it
\* has been told to stop (runtime/events/bus.py).
THEOREM OnlyLiveSubscriptionsAreRouted == Spec => []RoutedSubscriptionsAreLive
<1>1. Init => Routing
  BY DEF Init, Routing, TableOK, CreatedOK, RegisteringOK, StoppingOK, StoppedOK,
         Registered, Todo, ToSet
<1>2. TypeOK /\ Routing /\ [Next]_vars => Routing'
  BY StepRouting
<1>3. Routing => RoutedSubscriptionsAreLive
  BY DEF Routing, CreatedOK, StoppedOK, RoutedSubscriptionsAreLive
<1> QED BY <1>1, <1>2, <1>3, TypeCorrect, PTL DEF Spec
------------------------------------------------------------------------------
(* The queues.                                                             *)

\* What queue s holds is what was put into it and has not been removed, in order.
QueueOK(s) ==
  /\ Len(accepted[s]) = Len(popped[s]) + Len(queue[s])
  /\ Len(queue[s]) <= QueueSize[s]
  /\ \A i \in 1..Len(queue[s]) : queue[s][i] = accepted[s][Len(popped[s]) + i]

QueuesOK == \A s \in Subs : QueueOK(s)

Publishing(t) == event[t] # NoEvent

\* An event is published once, by one thread, to targets that are all different
\* and have not had it, and evictions are for DROP_OLDEST.
PublishingOK ==
  /\ \A t \in Threads : Publishing(t) =>
       /\ outcome[event[t]] = "publishing"
       /\ \A u \in Threads : event[u] = event[t] => u = t
       /\ \A i, j \in 1..Len(todo[t]) : i # j => todo[t][i] # todo[t][j]
       /\ \A s \in Todo(t) : event[t] \notin ToSet(accepted[s])
  /\ \A e \in Events : outcome[e] = "unpublished" => \A s \in Subs : e \notin ToSet(accepted[s])
  /\ \A t \in Threads : pc[t] = "evicting" => OverflowPolicy[Target(t)] = "DROP_OLDEST"

\* Steps that publish, put and remove nothing.
LEMMA QueuesRest ==
  ASSUME QueuesOK, UNCHANGED <<queue, accepted, popped>>
  PROVE  QueuesOK'
BY DEF QueuesOK, QueueOK

LEMMA PublishingRests ==
  ASSUME PublishingOK, UNCHANGED <<accepted, outcome, event>>,
         \A t \in Threads : Publishing(t) => todo'[t] = todo[t],
         \A t \in Threads : pc'[t] = "evicting" => pc[t] = "evicting" /\ todo'[t] = todo[t]
  PROVE  PublishingOK'
BY DEF PublishingOK, Publishing, Todo, Target

\* A queue that one event enters or leaves.
LEMMA QueuePut ==
  ASSUME TypeOK, QueuesOK, NEW s \in Subs, NEW e \in Events, Room(s),
         queue' = [queue EXCEPT ![s] = Append(@, e)],
         accepted' = [accepted EXCEPT ![s] = Append(@, e)], popped' = popped
  PROVE  QueuesOK'
<1>1. /\ queue[s] \in Seq(Events) /\ accepted[s] \in Seq(Events) /\ popped[s] \in Seq(Removals)
      /\ QueueSize[s] \in Nat /\ Len(queue[s]) < QueueSize[s]
      /\ queue \in [Subs -> Seq(Events)] /\ accepted \in [Subs -> Seq(Events)]
  BY SubscriptionAssumption DEF TypeOK, DataOK, Room
<1> DEFINE q == queue[s]
           a == accepted[s]
           n == Len(popped[s])
<1>2. Len(a) = n + Len(q) /\ \A i \in 1..Len(q) : q[i] = a[n + i]
  BY DEF QueuesOK, QueueOK
<1>3. n \in Nat
  BY <1>1
<1>4. /\ queue'[s] = Append(q, e) /\ accepted'[s] = Append(a, e) /\ popped'[s] = popped[s]
      /\ \A u \in Subs \ {s} : queue'[u] = queue[u] /\ accepted'[u] = accepted[u] /\ popped'[u] = popped[u]
  BY <1>1
<1> HIDE DEF q, a, n
<1>5. q \in Seq(Events) /\ a \in Seq(Events) /\ Len(q) < QueueSize[s] /\ QueueSize[s] \in Nat
  BY <1>1 DEF q, a
<1>6. /\ Len(Append(q, e)) = Len(q) + 1 /\ Len(q) \in Nat
      /\ Append(q, e)[Len(q) + 1] = e /\ \A i \in 1..Len(q) : Append(q, e)[i] = q[i]
      /\ Len(Append(a, e)) = Len(a) + 1 /\ Len(a) \in Nat
      /\ Append(a, e)[Len(a) + 1] = e /\ \A i \in 1..Len(a) : Append(a, e)[i] = a[i]
  BY <1>5
<1>7. ASSUME NEW i \in 1..Len(q) + 1 PROVE Append(q, e)[i] = Append(a, e)[n + i]
  <2>1. CASE i \in 1..Len(q)
    <3>1. n + i \in 1..Len(a)
      BY <1>2, <1>3, <1>6, <2>1
    <3>2. Append(q, e)[i] = q[i] /\ Append(a, e)[n + i] = a[n + i]
      BY <1>6, <2>1, <3>1
    <3> QED BY <1>2, <2>1, <3>2
  <2>2. CASE i = Len(q) + 1
    <3>1. n + i = Len(a) + 1
      BY <1>2, <1>3, <1>6, <2>2
    <3>2. Append(q, e)[i] = e /\ Append(a, e)[n + i] = e
      BY <1>6, <2>2, <3>1
    <3> QED BY <3>2
  <2>3. Len(q) \in Nat
    BY <1>6
  <2>4. i \in 1..Len(q) \/ i = Len(q) + 1
    BY <2>3
  <2> QED BY <2>1, <2>2, <2>4
<1>8. Len(Append(a, e)) = n + Len(Append(q, e)) /\ Len(Append(q, e)) <= QueueSize[s]
  BY <1>2, <1>3, <1>5, <1>6
<1>9. QueueOK(s)'
  BY <1>4, <1>6, <1>7, <1>8 DEF QueueOK, n
<1>10. ASSUME NEW u \in Subs \ {s} PROVE QueueOK(u)'
  <2>1. QueueOK(u) /\ queue'[u] = queue[u] /\ accepted'[u] = accepted[u] /\ popped'[u] = popped[u]
    BY <1>4 DEF QueuesOK
  <2> QED BY <2>1 DEF QueueOK
<1> QED BY <1>9, <1>10 DEF QueuesOK

LEMMA QueueRemoved ==
  ASSUME TypeOK, QueuesOK, NEW s \in Subs, queue[s] # <<>>, NEW r \in Removals,
         queue' = [queue EXCEPT ![s] = Tail(@)],
         popped' = [popped EXCEPT ![s] = Append(@, r)], accepted' = accepted
  PROVE  QueuesOK'
<1>1. /\ queue[s] \in Seq(Events) /\ accepted[s] \in Seq(Events) /\ popped[s] \in Seq(Removals)
      /\ QueueSize[s] \in Nat /\ Len(queue[s]) <= QueueSize[s]
      /\ queue \in [Subs -> Seq(Events)] /\ popped \in [Subs -> Seq(Removals)]
  BY SubscriptionAssumption DEF TypeOK, DataOK, QueuesOK, QueueOK
<1> DEFINE q == queue[s]
           a == accepted[s]
           p == popped[s]
<1>2. Len(a) = Len(p) + Len(q) /\ \A i \in 1..Len(q) : q[i] = a[Len(p) + i]
  BY DEF QueuesOK, QueueOK
<1>3. /\ queue'[s] = Tail(q) /\ popped'[s] = Append(p, r) /\ accepted'[s] = a
      /\ \A u \in Subs \ {s} : queue'[u] = queue[u] /\ accepted'[u] = accepted[u] /\ popped'[u] = popped[u]
  BY <1>1
<1>4. q \in Seq(Events) /\ q # <<>> /\ p \in Seq(Removals) /\ Len(q) <= QueueSize[s]
  BY <1>1
<1> HIDE DEF q, a, p
<1>5. /\ Len(Tail(q)) = Len(q) - 1 /\ Len(q) \in Nat \ {0}
      /\ \A i \in 1..Len(q) - 1 : Tail(q)[i] = q[i + 1]
      /\ Len(Append(p, r)) = Len(p) + 1 /\ Len(p) \in Nat
  BY <1>4
<1>6. \A i \in 1..Len(q) - 1 : Tail(q)[i] = a[Len(Append(p, r)) + i]
  <2> SUFFICES ASSUME NEW i \in 1..Len(q) - 1 PROVE Tail(q)[i] = a[Len(Append(p, r)) + i]
    OBVIOUS
  <2>1. i + 1 \in 1..Len(q) /\ Len(p) + (i + 1) = (Len(p) + 1) + i
    BY <1>5
  <2> QED BY <1>2, <1>5, <2>1
<1>7. Len(a) = Len(Append(p, r)) + Len(Tail(q)) /\ Len(Tail(q)) <= QueueSize[s]
  BY <1>1, <1>2, <1>4, <1>5
<1>8. QueueOK(s)'
  BY <1>3, <1>5, <1>6, <1>7 DEF QueueOK
<1>9. ASSUME NEW u \in Subs \ {s} PROVE QueueOK(u)'
  <2>1. QueueOK(u) /\ queue'[u] = queue[u] /\ accepted'[u] = accepted[u] /\ popped'[u] = popped[u]
    BY <1>3 DEF QueuesOK
  <2> QED BY <2>1 DEF QueueOK
<1> QED BY <1>8, <1>9 DEF QueuesOK

------------------------------------------------------------------------------
(* The steps as steps of mailboxes.                                        *)

MailboxOK == TypeOK /\ Routing /\ QueuesOK /\ PublishingOK

Mailed == Mailboxes!Next \/ UNCHANGED Mailboxes!vars

\* Most steps put and remove nothing and leave a subscription as open as it was.
LEMMA NothingMailed ==
  ASSUME UNCHANGED <<accepted, popped, stopRequested>>,
         \A s \in Subs : stopRequested[s] => (consumer'[s] = "waiting" <=> consumer[s] = "waiting")
  PROVE  Mailed
<1>1. \A s \in Subs : Phase(s)' = Phase(s)
  BY DEF Phase
<1>2. [s \in Subs |-> Phase(s)]' = [s \in Subs |-> Phase(s)]
  BY <1>1
<1> QED BY <1>2 DEF Mailed, Mailboxes!vars

\* A subscription that closes.
LEMMA MailboxCloses ==
  ASSUME UNCHANGED <<accepted, popped>>, NEW s \in Subs, Phase(s) # "closed",
         Phase(s)' \in {"closing", "closed"}, \A u \in Subs \ {s} : Phase(u)' = Phase(u)
  PROVE  Mailed
<1> DEFINE phase == [u \in Subs |-> Phase(u)]
<1>1. phase[s] # "closed"
  OBVIOUS
<1>2. phase' = [phase EXCEPT ![s] = Phase(s)']
  OBVIOUS
<1>3. phase' \in {[phase EXCEPT ![s] = "closing"], [phase EXCEPT ![s] = "closed"]}
  BY <1>2
<1>4. Mailboxes!Close(s)
  BY <1>1, <1>3 DEF Mailboxes!Close
<1> QED BY <1>4 DEF Mailed, Mailboxes!Next

\* An event that enters, and one that leaves.
LEMMA Accepts ==
  ASSUME TypeOK, QueuesOK, NEW s \in Subs, NEW e \in Events, Room(s), e \notin ToSet(accepted[s]),
         accepted' = [accepted EXCEPT ![s] = Append(@, e)], UNCHANGED <<popped, stopRequested, consumer>>
  PROVE  Mailed
<1>1. /\ Len(accepted[s]) = Len(popped[s]) + Len(queue[s]) /\ Len(queue[s]) < QueueSize[s]
      /\ Len(popped[s]) \in Nat /\ Len(queue[s]) \in Nat /\ QueueSize[s] \in Nat
  <2>1. queue[s] \in Seq(Events) /\ popped[s] \in Seq(Removals) /\ QueueSize[s] \in Nat
    BY SubscriptionAssumption DEF TypeOK, DataOK
  <2>2. Len(accepted[s]) = Len(popped[s]) + Len(queue[s])
    BY DEF QueuesOK, QueueOK
  <2> QED BY <2>1, <2>2 DEF Room
<1>2. Mailboxes!Depth(s) < QueueSize[s]
  BY <1>1 DEF Mailboxes!Depth
<1>3. ~Mailboxes!Holds(s, e)
  <2>1. DOMAIN accepted[s] = 1..Len(accepted[s])
    BY DEF TypeOK, DataOK
  <2> QED BY <2>1 DEF Mailboxes!Holds, ToSet
<1>4. [u \in Subs |-> Phase(u)]' = [u \in Subs |-> Phase(u)]
  BY DEF Phase
<1>5. Mailboxes!Accept(s, e)
  BY <1>2, <1>3, <1>4 DEF Mailboxes!Accept
<1> QED BY <1>5 DEF Mailed, Mailboxes!Next

LEMMA Removes ==
  ASSUME TypeOK, QueuesOK, NEW s \in Subs, queue[s] # <<>>, NEW who,
         popped' = [popped EXCEPT ![s] = Append(@, [event |-> Head(queue[s]), by |-> who])],
         accepted' = accepted
  PROVE  Mailboxes!Remove(s, who)
<1> DEFINE n == Len(popped[s])
<1>1. queue[s] \in Seq(Events) /\ popped[s] \in Seq(Removals) /\ popped \in [Subs -> Seq(Removals)]
  BY DEF TypeOK, DataOK
<1>2. Len(queue[s]) \in Nat \ {0} /\ Head(queue[s]) = queue[s][1] /\ n \in Nat
  BY <1>1
<1>3. Len(accepted[s]) = n + Len(queue[s]) /\ queue[s][1] = accepted[s][n + 1]
  <2>1. QueueOK(s) /\ 1 \in 1..Len(queue[s])
    BY <1>2 DEF QueuesOK
  <2> QED BY <2>1 DEF QueueOK
<1>4. Mailboxes!Depth(s) > 0
  BY <1>2, <1>3 DEF Mailboxes!Depth
<1>5. popped' = [popped EXCEPT ![s] = Append(@, [event |-> accepted[s][Len(@) + 1], by |-> who])]
  BY <1>2, <1>3
<1> QED BY <1>4, <1>5 DEF Mailboxes!Remove

LEMMA Takes ==
  ASSUME TypeOK, QueuesOK, NEW s \in Subs, Get(s)
  PROVE  Mailed
<1> DEFINE phase == [u \in Subs |-> Phase(u)]
<1>1. Mailboxes!Remove(s, "consumer")
  BY Removes DEF Get
<1>2. phase[s] # "closed" /\ phase[s] = Phase(s)
  BY DEF Get, Phase
<1>3. \A u \in Subs : Phase(u)' = IF u = s /\ Phase(u) = "closing" THEN "closed" ELSE Phase(u)
  <2>1. stopRequested' = stopRequested /\ consumer[s] = "waiting" /\ consumer' = [consumer EXCEPT ![s] = "handling"]
    BY DEF Get
  <2>2. consumer \in [Subs -> ConsumerStates]
    BY DEF TypeOK, ConsumersOK
  <2> QED BY <2>1, <2>2 DEF Phase
<1>4. phase' = [phase EXCEPT ![s] = IF @ = "closing" THEN "closed" ELSE @]
  BY <1>3
<1>5. Mailboxes!Take(s)
  BY <1>1, <1>2, <1>4 DEF Mailboxes!Take
<1> QED BY <1>5 DEF Mailed, Mailboxes!Next

LEMMA Discards ==
  ASSUME TypeOK, QueuesOK, PublishingOK, NEW t \in Threads, Evict(t), queue[Target(t)] # <<>>
  PROVE  Mailed
<1> DEFINE s == Target(t)
<1>1. s \in Subs /\ OverflowPolicy[s] = "DROP_OLDEST"
  <2>1. pc[t] = "evicting"
    BY DEF Evict
  <2> QED BY <2>1, InCall DEF PublishingOK, TypeOK, Target
<1>2. /\ popped' = [popped EXCEPT ![s] = Append(@, [event |-> Head(queue[s]), by |-> "publisher"])]
      /\ UNCHANGED <<accepted, stopRequested, consumer>>
  BY DEF Evict, Target
<1> HIDE DEF s
<1>3. Mailboxes!Remove(s, "publisher")
  BY <1>1, <1>2, Removes DEF s
<1>4. [u \in Subs |-> Phase(u)]' = [u \in Subs |-> Phase(u)]
  BY <1>2 DEF Phase
<1>5. Mailboxes!Discard(s)
  BY <1>1, <1>3, <1>4 DEF Mailboxes!Discard
<1> QED BY <1>1, <1>5 DEF Mailed, Mailboxes!Next

------------------------------------------------------------------------------
(* What is being published.                                                *)

\* One target of a publish is dealt with, or the rest is given up.
LEMMA PublishGoesOn ==
  ASSUME TypeOK, PublishingOK, NEW t \in Threads, Publishing(t),
         \A s \in Subs : s # Target(t) => ToSet(accepted'[s]) = ToSet(accepted[s]),
         ToSet(accepted'[Target(t)]) \subseteq ToSet(accepted[Target(t)]) \cup {event[t]},
         \A u \in Threads \ {t} : event'[u] = event[u] /\ todo'[u] = todo[u] /\ pc'[u] = pc[u],
         pc'[t] # "evicting",
         \/ event'[t] = NoEvent
         \/ event'[t] = event[t] /\ todo'[t] = Tail(todo[t]) /\ outcome'[event[t]] = "publishing",
         \A e \in Events \ {event[t]} : outcome'[e] = outcome[e],
         outcome'[event[t]] # "unpublished"
  PROVE  PublishingOK'
<1> DEFINE e == event[t]
           q == todo[t]
<1>1. /\ e \in Events /\ e # NoEvent /\ q \in Seq(Subs) /\ q # <<>> /\ Target(t) = q[1]
      /\ \A u \in Threads : event[u] \in Events \cup {NoEvent}
  BY DEF Publishing, TypeOK, CallsOK, Target
<1>2. /\ outcome[e] = "publishing" /\ \A u \in Threads : event[u] = e => u = t
      /\ \A i, j \in 1..Len(q) : i # j => q[i] # q[j]
      /\ \A s \in Todo(t) : e \notin ToSet(accepted[s])
  BY DEF PublishingOK
<1>3. ASSUME NEW u \in Threads \ {t}, event[u] # NoEvent
      PROVE  /\ outcome'[event[u]] = "publishing"
             /\ \A i, j \in 1..Len(todo[u]) : i # j => todo[u][i] # todo[u][j]
             /\ \A s \in Todo(u) : event[u] \notin ToSet(accepted'[s])
             /\ \A v \in Threads : event[v] = event[u] => v = u
  <2>1. event[u] # e /\ event[u] \in Events
    BY <1>1, <1>2, <1>3
  <2>2. /\ outcome[event[u]] = "publishing" /\ \A v \in Threads : event[v] = event[u] => v = u
        /\ \A i, j \in 1..Len(todo[u]) : i # j => todo[u][i] # todo[u][j]
        /\ \A s \in Todo(u) : event[u] \notin ToSet(accepted[s])
    BY <1>3 DEF PublishingOK, Publishing
  <2>3. Todo(u) \subseteq Subs
    BY DEF Todo, ToSet, TypeOK, CallsOK
  <2> QED BY <2>1, <2>2, <2>3
<1>4. ASSUME event'[t] = e, todo'[t] = Tail(q), outcome'[e] = "publishing"
      PROVE  /\ \A i, j \in 1..Len(todo'[t]) : i # j => todo'[t][i] # todo'[t][j]
             /\ \A s \in Todo(t)' : e \notin ToSet(accepted'[s])
  <2>1. /\ Len(Tail(q)) = Len(q) - 1 /\ Len(q) \in Nat \ {0}
        /\ \A i \in 1..Len(q) - 1 : Tail(q)[i] = q[i + 1]
        /\ DOMAIN Tail(q) = 1..Len(q) - 1 /\ DOMAIN q = 1..Len(q)
    BY <1>1
  <2>2. \A i \in 1..Len(q) - 1 : i + 1 \in 1..Len(q) /\ i + 1 # 1 /\ 1 \in 1..Len(q)
    BY <2>1
  <2>3. \A i, j \in 1..Len(q) - 1 : i # j => i + 1 # j + 1
    OBVIOUS
  <2>4. \A i, j \in 1..Len(todo'[t]) : i # j => todo'[t][i] # todo'[t][j]
    BY <1>2, <1>4, <2>1, <2>2, <2>3
  <2>5. \A s \in Todo(t)' : s \in Subs /\ s \in Todo(t) /\ s # q[1]
    <3>1. ASSUME NEW i \in 1..Len(q) - 1 PROVE Tail(q)[i] \in Subs /\ Tail(q)[i] \in Todo(t) /\ Tail(q)[i] # q[1]
      BY <1>1, <1>2, <2>1, <2>2 DEF Todo, ToSet
    <3> QED BY <1>4, <2>1, <3>1 DEF Todo, ToSet
  <2> QED BY <1>1, <1>2, <2>4, <2>5
<1>5. ASSUME NEW u \in Threads, Publishing(u)'
      PROVE  /\ outcome'[event'[u]] = "publishing"
             /\ \A v \in Threads : event'[v] = event'[u] => v = u
             /\ \A i, j \in 1..Len(todo'[u]) : i # j => todo'[u][i] # todo'[u][j]
             /\ \A s \in Todo(u)' : event'[u] \notin ToSet(accepted'[s])
  <2>1. \A v \in Threads : event'[v] = event[v] \/ event'[v] = NoEvent
    BY <1>1
  <2>2. CASE u = t
    <3>1. event'[t] = e /\ todo'[t] = Tail(q) /\ outcome'[e] = "publishing"
      BY <1>5, <2>2 DEF Publishing
    <3> QED BY <1>1, <1>2, <1>4, <2>1, <2>2, <3>1
  <2>3. CASE u # t
    <3>1. event'[u] = event[u] /\ todo'[u] = todo[u] /\ event[u] # NoEvent
      BY <1>5, <2>3 DEF Publishing
    <3>2. Todo(u)' = Todo(u)
      BY <3>1 DEF Todo
    <3> QED BY <1>3, <2>1, <2>3, <3>1, <3>2
  <2> QED BY <2>2, <2>3
<1>6. ASSUME NEW d \in Events, outcome'[d] = "unpublished", NEW s \in Subs
      PROVE  d \notin ToSet(accepted'[s])
  <2>1. d # e /\ outcome[d] = "unpublished"
    BY <1>6
  <2>2. d \notin ToSet(accepted[s])
    BY <2>1 DEF PublishingOK
  <2> QED BY <2>1, <2>2
<1>7. ASSUME NEW u \in Threads, pc'[u] = "evicting"
      PROVE  OverflowPolicy[Target(u)'] = "DROP_OLDEST"
  <2>1. u # t /\ pc[u] = "evicting" /\ todo'[u] = todo[u]
    BY <1>7
  <2> QED BY <2>1 DEF PublishingOK, Target
<1> QED BY <1>5, <1>6, <1>7 DEF PublishingOK

\* A publish begins, with targets or without.
LEMMA PublishBegins ==
  ASSUME TypeOK, Routing, PublishingOK, NEW t \in Threads, NEW e \in Events, Publish(t, e)
  PROVE  PublishingOK'
<1> DEFINE targets == subscriptions[EventTopic[e]]
<1>1. /\ outcome[e] = "unpublished" /\ pc[t] = "idle" /\ accepted' = accepted
      /\ outcome \in [Events -> {"unpublished", "publishing", "returned", "raised"}]
      /\ event \in [Threads -> Events \cup {NoEvent}] /\ pc \in [Threads -> CallStates]
      /\ todo \in [Threads -> Seq(Subs)] /\ EventTopic[e] \in Topics
  BY SubscriptionAssumption DEF Publish, CanCall, TypeOK, DataOK, CallsOK
<1>2. event[t] = NoEvent /\ e # NoEvent /\ \A u \in Threads : event[u] # e
  <2>1. \A u \in Threads : event[u] = e => outcome[e] = "publishing"
    BY SetsAssumption DEF PublishingOK, Publishing
  <2> QED BY <1>1, <2>1, SetsAssumption DEF TypeOK, CallsOK
<1>3. /\ \A d \in Events \ {e} : outcome'[d] = outcome[d]
      /\ outcome'[e] \in {"publishing", "returned"}
  BY <1>1 DEF Publish
<1>4. /\ \A i, j \in 1..Len(targets) : i # j => targets[i] # targets[j]
      /\ \A s \in ToSet(targets) : s \in Subs /\ e \notin ToSet(accepted[s])
  <2>1. targets \in Seq(Subs)
    BY <1>1 DEF TypeOK, DataOK
  <2>2. ToSet(targets) \subseteq Subs
    BY <2>1 DEF ToSet
  <2>3. \A s \in Subs : e \notin ToSet(accepted[s])
    BY <1>1 DEF PublishingOK
  <2> QED BY <1>1, <2>2, <2>3 DEF Routing, TableOK
<1>5. \/ UNCHANGED <<pc, todo, event>>
      \/ /\ pc' = [pc EXCEPT ![t] = "putting"] /\ todo' = [todo EXCEPT ![t] = targets]
         /\ event' = [event EXCEPT ![t] = e] /\ outcome'[e] = "publishing"
  BY <1>1 DEF Publish, threadVars
<1> HIDE DEF targets
<1>6. ASSUME NEW u \in Threads, Publishing(u)'
      PROVE  /\ outcome'[event'[u]] = "publishing"
             /\ \A v \in Threads : event'[v] = event'[u] => v = u
             /\ \A i, j \in 1..Len(todo'[u]) : i # j => todo'[u][i] # todo'[u][j]
             /\ \A s \in Todo(u)' : event'[u] \notin ToSet(accepted'[s])
  <2>1. CASE u = t
    <3>1. event'[t] = e /\ todo'[t] = targets /\ outcome'[e] = "publishing"
          /\ \A v \in Threads \ {t} : event'[v] = event[v]
      BY <1>1, <1>2, <1>5, <1>6, <2>1 DEF Publishing
    <3>2. Todo(t)' = ToSet(targets)
      BY <3>1 DEF Todo
    <3> QED BY <1>1, <1>2, <1>4, <2>1, <3>1, <3>2
  <2>2. CASE u # t
    <3>1. event'[u] = event[u] /\ todo'[u] = todo[u] /\ event[u] # NoEvent /\ event[u] \in Events /\ event[u] # e
      BY <1>1, <1>2, <1>5, <1>6, <2>2 DEF Publishing
    <3>2. /\ outcome[event[u]] = "publishing" /\ \A v \in Threads : event[v] = event[u] => v = u
          /\ \A i, j \in 1..Len(todo[u]) : i # j => todo[u][i] # todo[u][j]
          /\ \A s \in Todo(u) : event[u] \notin ToSet(accepted[s])
      BY <3>1 DEF PublishingOK, Publishing
    <3>3. \A v \in Threads : event'[v] = event[v] \/ event'[v] = e
      BY <1>1, <1>5
    <3>4. Todo(u)' = Todo(u)
      BY <3>1 DEF Todo
    <3>5. outcome'[event'[u]] = "publishing"
      BY <1>3, <3>1, <3>2
    <3>6. \A v \in Threads : event'[v] = event'[u] => v = u
      BY <3>1, <3>2, <3>3
    <3> QED BY <1>1, <3>1, <3>2, <3>4, <3>5, <3>6
  <2> QED BY <2>1, <2>2
<1>7. ASSUME NEW d \in Events, outcome'[d] = "unpublished", NEW s \in Subs
      PROVE  d \notin ToSet(accepted'[s])
  <2>1. outcome[d] = "unpublished"
    BY <1>3, <1>7
  <2> QED BY <1>1, <2>1 DEF PublishingOK
<1>8. ASSUME NEW u \in Threads, pc'[u] = "evicting"
      PROVE  OverflowPolicy[Target(u)'] = "DROP_OLDEST"
  <2>1. pc[u] = "evicting" /\ todo'[u] = todo[u]
    BY <1>1, <1>5, <1>8
  <2> QED BY <2>1 DEF PublishingOK, Target
<1> QED BY <1>6, <1>7, <1>8 DEF PublishingOK

------------------------------------------------------------------------------
(* Every step.                                                             *)

\* What a step must keep beyond types and routing, and what it must be.
Goes == QueuesOK' /\ PublishingOK' /\ Mailed

\* A step of a call that publishes nothing.
LEMMA CallGoes ==
  ASSUME MailboxOK, NEW t \in Threads, event[t] = NoEvent,
         UNCHANGED <<queue, accepted, popped, outcome, event>>,
         \A u \in Threads \ {t} : pc'[u] = pc[u] /\ todo'[u] = todo[u],
         pc'[t] # "evicting"
  PROVE  QueuesOK' /\ PublishingOK'
<1>1. \A u \in Threads : Publishing(u) => todo'[u] = todo[u]
  BY DEF Publishing
<1>2. \A u \in Threads : pc'[u] = "evicting" => pc[u] = "evicting" /\ todo'[u] = todo[u]
  OBVIOUS
<1> QED BY <1>1, <1>2, QueuesRest, PublishingRests DEF MailboxOK

LEMMA EndGoes ==
  ASSUME TypeOK, NEW t \in Threads, EndCall(t), event[t] = NoEvent
  PROVE  event' = event /\ pc'[t] = "idle" /\ \A u \in Threads \ {t} : pc'[u] = pc[u] /\ todo'[u] = todo[u]
BY DEF EndCall, TypeOK, CallsOK

LEMMA CallsGo ==
  ASSUME MailboxOK, NEW t \in Threads,
         \/ \E s \in Subs : Subscribe(t, s) \/ Unsubscribe(t, s)
         \/ Shutdown(t) \/ Register(t) \/ Join(t)
  PROVE  Goes
<1>1. event[t] = NoEvent
  BY DEF MailboxOK, TypeOK, CallsOK, Subscribe, Unsubscribe, Shutdown, Register, Join, CanCall
<1>2. UNCHANGED <<queue, accepted, popped, outcome, stopRequested>>
  BY DEF Subscribe, Unsubscribe, Shutdown, Register, Join, subVars, history
<1>3. pc \in [Threads -> CallStates] /\ todo \in [Threads -> Seq(Subs)] /\ consumer \in [Subs -> ConsumerStates]
  BY DEF MailboxOK, TypeOK, CallsOK, ConsumersOK
<1>4. event' = event /\ pc'[t] # "evicting" /\ \A u \in Threads \ {t} : pc'[u] = pc[u] /\ todo'[u] = todo[u]
  <2>1. CASE \E s \in Subs : Subscribe(t, s) \/ Unsubscribe(t, s)
    BY <1>3, <2>1 DEF Subscribe, Unsubscribe
  <2>2. CASE Shutdown(t)
    <3>1. pc[t] = "idle" /\ event' = event
      BY <2>2 DEF Shutdown, CanCall
    <3> QED BY <1>3, <2>2, <3>1 DEF Shutdown
  <2>3. CASE Register(t)
    BY <1>1, <2>3, EndGoes DEF Register, MailboxOK
  <2>4. CASE Join(t)
    <3>1. CASE EndCall(t)
      BY <1>1, <3>1, EndGoes DEF MailboxOK
    <3>2. CASE ~EndCall(t)
      BY <1>3, <2>4, <3>2 DEF Join
    <3> QED BY <3>1, <3>2
  <2> QED BY <2>1, <2>2, <2>3, <2>4
<1>5. \A u \in Subs : stopRequested[u] => (consumer'[u] = "waiting" <=> consumer[u] = "waiting")
  BY <1>3 DEF Subscribe, Unsubscribe, Shutdown, Register, Join, subVars
<1> QED BY <1>1, <1>2, <1>4, <1>5, CallGoes, NothingMailed DEF Goes

LEMMA SignalGoes ==
  ASSUME MailboxOK, NEW t \in Threads, Signal(t)
  PROVE  Goes
<1>1. /\ event[t] = NoEvent /\ Head(todo[t]) \in Subs
      /\ pc \in [Threads -> CallStates] /\ stopRequested \in [Subs -> BOOLEAN]
  BY InCall DEF MailboxOK, TypeOK, DataOK, CallsOK, Signal
<1>s. PICK s \in Subs : s = Head(todo[t])
  BY <1>1
<1>2. /\ UNCHANGED <<queue, accepted, popped, outcome, event, todo, consumer>>
      /\ pc' = [pc EXCEPT ![t] = "joining"] /\ stopRequested' = [stopRequested EXCEPT ![s] = TRUE]
  BY <1>s DEF Signal, history
<1>3. QueuesOK' /\ PublishingOK'
  BY <1>1, <1>2, CallGoes
<1>4. CASE stopRequested[s]
  <2>1. stopRequested' = stopRequested
    BY <1>1, <1>2, <1>4
  <2> QED BY <1>2, <1>3, <2>1, NothingMailed DEF Goes
<1>5. CASE ~stopRequested[s]
  <2>1. stopRequested'[s] /\ \A u \in Subs \ {s} : stopRequested'[u] = stopRequested[u]
    BY <1>1, <1>2
  <2>2. Phase(s) # "closed" /\ Phase(s)' \in {"closing", "closed"}
    BY <1>5, <2>1 DEF Phase
  <2>3. \A u \in Subs \ {s} : Phase(u)' = Phase(u)
    BY <1>2, <2>1 DEF Phase
  <2> QED BY <1>1, <1>2, <1>3, <2>2, <2>3, MailboxCloses DEF Goes
<1> QED BY <1>4, <1>5

LEMMA PublishGoes ==
  ASSUME MailboxOK, NEW t \in Threads, NEW e \in Events, Publish(t, e)
  PROVE  Goes
<1>1. UNCHANGED <<queue, accepted, popped, stopRequested, consumer>>
  BY DEF Publish, subVars
<1> QED BY <1>1, QueuesRest, PublishBegins, NothingMailed DEF MailboxOK, Goes

LEMMA PutGoes ==
  ASSUME MailboxOK, NEW t \in Threads, Put(t)
  PROVE  Goes
<1> DEFINE s == Target(t)
           e == event[t]
<1>1. pc[t] = "putting" /\ Room(s) /\ UNCHANGED <<popped, stopRequested, consumer>>
  BY DEF Put, Target
<1>2. s \in Subs /\ e \in Events /\ Publishing(t)
  BY <1>1, InCall DEF MailboxOK, TypeOK, CallsOK, Target, Publishing
<1>3. queue' = [queue EXCEPT ![s] = Append(@, e)] /\ accepted' = [accepted EXCEPT ![s] = Append(@, e)]
  BY DEF Put, Target
<1>4. s \in Todo(t)
  <2>1. todo[t] \in Seq(Subs) /\ todo[t] # <<>>
    BY <1>1, InCall DEF MailboxOK, TypeOK
  <2> QED BY <2>1, TailToSet DEF Todo, Target
<1>5. e \notin ToSet(accepted[s])
  BY <1>2, <1>4 DEF MailboxOK, PublishingOK
<1>6. accepted \in [Subs -> Seq(Events)] /\ pc \in [Threads -> CallStates] /\ todo \in [Threads -> Seq(Subs)]
      /\ event \in [Threads -> Events \cup {NoEvent}]
      /\ outcome \in [Events -> {"unpublished", "publishing", "returned", "raised"}]
  BY DEF MailboxOK, TypeOK, DataOK, CallsOK
<1>7. outcome[e] = "publishing"
  BY <1>2 DEF MailboxOK, PublishingOK
<1>8. /\ \A u \in Threads \ {t} : event'[u] = event[u] /\ todo'[u] = todo[u] /\ pc'[u] = pc[u]
      /\ pc'[t] # "evicting"
      /\ \/ event'[t] = NoEvent
         \/ event'[t] = e /\ todo'[t] = Tail(todo[t]) /\ outcome'[e] = "publishing"
      /\ \A d \in Events \ {e} : outcome'[d] = outcome[d]
      /\ outcome'[e] # "unpublished"
  <2>1. CASE EndCall(t) /\ outcome' = [outcome EXCEPT ![e] = "returned"]
    BY <1>2, <1>6, <2>1 DEF EndCall
  <2>2. CASE todo' = [todo EXCEPT ![t] = Tail(@)] /\ UNCHANGED <<pc, event, outcome>>
    BY <1>1, <1>6, <1>7, <2>2
  <2> QED BY <2>1, <2>2 DEF Put
<1> HIDE DEF s, e
<1>9. \A u \in Subs : u # s => accepted'[u] = accepted[u]
  BY <1>3, <1>6
<1>10. ToSet(accepted'[s]) \subseteq ToSet(accepted[s]) \cup {e}
  <2>1. accepted[s] \in Seq(Events) /\ accepted'[s] = Append(accepted[s], e)
    BY <1>2, <1>3, <1>6
  <2> QED BY <1>2, <2>1 DEF ToSet
<1>11. PublishingOK'
  BY <1>2, <1>8, <1>9, <1>10, PublishGoesOn DEF MailboxOK, s, e
<1>12. QueuesOK'
  BY <1>1, <1>2, <1>3, QueuePut DEF MailboxOK
<1>13. Mailed
  BY <1>1, <1>2, <1>3, <1>5, Accepts DEF MailboxOK
<1> QED BY <1>11, <1>12, <1>13 DEF Goes

LEMMA PutTimeoutGoes ==
  ASSUME MailboxOK, NEW t \in Threads, PutTimeout(t)
  PROVE  Goes
<1> DEFINE e == event[t]
<1>1. /\ pc[t] = "putting" /\ UNCHANGED <<queue, accepted, popped, stopRequested, consumer>>
      /\ EndCall(t) /\ outcome' = [outcome EXCEPT ![e] = "raised"]
  BY DEF PutTimeout, subVars
<1>2. e \in Events /\ Publishing(t)
  BY <1>1 DEF MailboxOK, TypeOK, CallsOK, Publishing
<1>3. /\ pc \in [Threads -> CallStates] /\ todo \in [Threads -> Seq(Subs)]
      /\ event \in [Threads -> Events \cup {NoEvent}]
      /\ outcome \in [Events -> {"unpublished", "publishing", "returned", "raised"}]
  BY DEF MailboxOK, TypeOK, DataOK, CallsOK
<1>4. /\ \A u \in Threads \ {t} : event'[u] = event[u] /\ todo'[u] = todo[u] /\ pc'[u] = pc[u]
      /\ pc'[t] # "evicting" /\ event'[t] = NoEvent
      /\ \A d \in Events \ {e} : outcome'[d] = outcome[d]
      /\ outcome'[e] # "unpublished"
  BY <1>1, <1>2, <1>3 DEF EndCall
<1>5. PublishingOK'
  BY <1>1, <1>2, <1>4, PublishGoesOn DEF MailboxOK
<1> QED BY <1>1, <1>5, QueuesRest, NothingMailed DEF MailboxOK, Goes

\* A full queue: the publisher turns to evict, evicts and counts.
LEMMA EvictionGoes ==
  ASSUME MailboxOK, NEW t \in Threads, PutFull(t) \/ Evict(t) \/ CountDrop(t)
  PROVE  Goes
<1>1. UNCHANGED <<accepted, outcome, event, todo, stopRequested, consumer>>
  BY DEF PutFull, Evict, CountDrop, subVars, history
<1>2. pc \in [Threads -> CallStates] /\ \A u \in Threads \ {t} : pc'[u] = pc[u]
  BY DEF MailboxOK, TypeOK, CallsOK, PutFull, Evict, CountDrop
<1>3. PublishingOK'
  <2>1. CASE PutFull(t)
    <3>1. OverflowPolicy[Target(t)] = "DROP_OLDEST"
      BY <2>1 DEF PutFull, Target
    <3> QED BY <1>1, <1>2, <3>1 DEF MailboxOK, PublishingOK, Publishing, Todo, Target
  <2>2. CASE Evict(t) \/ CountDrop(t)
    <3>1. pc'[t] # "evicting"
      BY <1>2, <2>2 DEF Evict, CountDrop
    <3>2. \A u \in Threads : pc'[u] = "evicting" => pc[u] = "evicting"
      BY <1>2, <3>1
    <3> QED BY <1>1, <3>2, PublishingRests DEF MailboxOK
  <2> QED BY <2>1, <2>2
<1>4. CASE Evict(t) /\ queue[Target(t)] # <<>>
  <2> DEFINE s == Target(t)
             r == [event |-> Head(queue[s]), by |-> "publisher"]
  <2>1. s \in Subs
    BY <1>4, InCall DEF Evict, MailboxOK, TypeOK, Target
  <2>2. queue' = [queue EXCEPT ![s] = Tail(@)] /\ popped' = [popped EXCEPT ![s] = Append(@, r)]
    BY <1>4 DEF Evict, Target
  <2>3. r \in Removals
    <3>1. queue[s] \in Seq(Events) /\ queue[s] # <<>>
      BY <1>4, <2>1 DEF MailboxOK, TypeOK, DataOK
    <3> QED BY <3>1 DEF Removals
  <2> HIDE DEF r, s
  <2>4. QueuesOK'
    BY <1>1, <1>4, <2>1, <2>2, <2>3, QueueRemoved DEF MailboxOK, s
  <2> QED BY <1>3, <1>4, <2>4, Discards DEF MailboxOK, Goes
<1>5. CASE ~(Evict(t) /\ queue[Target(t)] # <<>>)
  <2>1. UNCHANGED <<queue, popped>>
    BY <1>5 DEF PutFull, Evict, CountDrop, subVars, history, Target
  <2> QED BY <1>1, <1>3, <2>1, QueuesRest, NothingMailed DEF MailboxOK, Goes
<1> QED BY <1>4, <1>5

LEMMA ConsumerGoes ==
  ASSUME MailboxOK, NEW s \in Subs, Consume(s) \/ Handle(s)
  PROVE  Goes
<1>1. UNCHANGED <<accepted, outcome, event, todo, pc, stopRequested>>
  BY DEF Consume, Handle, CheckStop, GetTimeout, Get, HandlerReturns, HandlerRaises, FinishHandling, threadVars, history
<1>2. PublishingOK'
  BY <1>1, PublishingRests DEF MailboxOK
<1>3. consumer \in [Subs -> ConsumerStates]
  BY DEF MailboxOK, TypeOK, ConsumersOK
<1>4. CASE Get(s)
  <2> DEFINE r == [event |-> Head(queue[s]), by |-> "consumer"]
  <2>1. /\ queue[s] # <<>> /\ queue' = [queue EXCEPT ![s] = Tail(@)] /\ popped' = [popped EXCEPT ![s] = Append(@, r)]
    BY <1>4 DEF Get
  <2>2. r \in Removals
    <3>1. queue[s] \in Seq(Events)
      BY DEF MailboxOK, TypeOK, DataOK
    <3> QED BY <2>1, <3>1 DEF Removals
  <2> HIDE DEF r
  <2>3. QueuesOK'
    BY <1>1, <2>1, <2>2, QueueRemoved DEF MailboxOK
  <2> QED BY <1>2, <1>4, <2>3, Takes DEF MailboxOK, Goes
<1>5. CASE GetTimeout(s)
  <2>1. UNCHANGED <<queue, popped>> /\ consumer[s] = "waiting" /\ consumer' = [consumer EXCEPT ![s] = "check"]
    BY <1>5 DEF GetTimeout, history
  <2>2. QueuesOK'
    BY <1>1, <2>1, QueuesRest DEF MailboxOK
  <2>3. CASE stopRequested[s]
    <3>1. /\ Phase(s) # "closed" /\ Phase(s)' \in {"closing", "closed"}
          /\ \A u \in Subs \ {s} : Phase(u)' = Phase(u)
      BY <1>1, <1>3, <2>1, <2>3 DEF Phase
    <3> QED BY <1>1, <1>2, <2>1, <2>2, <3>1, MailboxCloses DEF Goes
  <2>4. CASE ~stopRequested[s]
    <3>1. \A u \in Subs : stopRequested[u] => (consumer'[u] = "waiting" <=> consumer[u] = "waiting")
      BY <1>3, <2>1, <2>4
    <3> QED BY <1>1, <1>2, <2>1, <2>2, <3>1, NothingMailed DEF Goes
  <2> QED BY <2>3, <2>4
<1>6. CASE CheckStop(s) \/ Handle(s)
  <2>1. UNCHANGED <<queue, popped>>
    BY <1>6 DEF CheckStop, Handle, HandlerReturns, HandlerRaises, FinishHandling, history
  <2>2. \A u \in Subs : stopRequested[u] => (consumer'[u] = "waiting" <=> consumer[u] = "waiting")
    BY <1>3, <1>6 DEF CheckStop, Handle, HandlerReturns, HandlerRaises, FinishHandling
  <2> QED BY <1>1, <1>2, <2>1, <2>2, QueuesRest, NothingMailed DEF MailboxOK, Goes
<1> QED BY <1>4, <1>5, <1>6 DEF Consume

LEMMA EveryStepGoes ==
  ASSUME MailboxOK, [Next]_vars
  PROVE  Goes
<1>1. CASE UNCHANGED vars
  <2>1. UNCHANGED <<queue, accepted, popped, outcome, event, todo, pc, stopRequested, consumer>>
    BY <1>1 DEF vars, subVars, threadVars, history
  <2> QED BY <2>1, QueuesRest, PublishingRests, NothingMailed DEF MailboxOK, Goes
<1>2. ASSUME NEW t \in Threads, StartCall(t) \/ ContinueCall(t) PROVE Goes
  <2>1. CASE \E s \in Subs : Subscribe(t, s) \/ Unsubscribe(t, s)
    BY <2>1, CallsGo
  <2>2. CASE Shutdown(t) \/ Register(t) \/ Join(t)
    BY <2>2, CallsGo
  <2>3. CASE \E e \in Events : Publish(t, e)
    BY <2>3, PublishGoes
  <2>4. CASE Signal(t)
    BY <2>4, SignalGoes
  <2>5. CASE Put(t)
    BY <2>5, PutGoes
  <2>6. CASE PutTimeout(t)
    BY <2>6, PutTimeoutGoes
  <2>7. CASE PutFull(t) \/ Evict(t) \/ CountDrop(t)
    BY <2>7, EvictionGoes
  <2> QED BY <1>2, <2>1, <2>2, <2>3, <2>4, <2>5, <2>6, <2>7 DEF StartCall, ContinueCall
<1>3. ASSUME NEW s \in Subs, Consume(s) \/ Handle(s) PROVE Goes
  BY <1>3, ConsumerGoes
<1> QED BY <1>1, <1>2, <1>3 DEF Next

LEMMA InitMailbox == Init => Routing /\ QueuesOK /\ PublishingOK
<1> SUFFICES ASSUME Init PROVE Routing /\ QueuesOK /\ PublishingOK
  OBVIOUS
<1>1. QueuesOK
  BY SubscriptionAssumption DEF Init, QueuesOK, QueueOK
<1>2. PublishingOK
  BY DEF Init, PublishingOK, Publishing, ToSet
<1>3. Routing
  BY DEF Init, Routing, TableOK, CreatedOK, RegisteringOK, StoppingOK, StoppedOK, Registered, Todo, ToSet
<1> QED BY <1>1, <1>2, <1>3

LEMMA StepMailbox == MailboxOK /\ [Next]_vars => MailboxOK'
BY StepType, StepRouting, EveryStepGoes DEF MailboxOK, Goes

\* bus.py: whatever threads, subscriptions, queue sizes and policies there are,
\* and however calls, evictions and timeouts interleave, each subscription is a
\* bounded first-in first-out mailbox: it takes an event once and only with room,
\* gives up its oldest event to a publisher only under DROP_OLDEST, and hands its
\* consumer at most one more after it was told to stop.
THEOREM EverySubscriptionIsAMailbox == Spec => Mailboxes!Spec
<1>1. Init => MailboxOK /\ Mailboxes!Init
  <2>1. Init => Mailboxes!Init
    BY DEF Init, Mailboxes!Init, Phase
  <2> QED BY <2>1, InitType, InitMailbox DEF MailboxOK
<1>2. MailboxOK /\ [Next]_vars => MailboxOK' /\ [Mailboxes!Next]_Mailboxes!vars
  BY StepMailbox, EveryStepGoes DEF Goes, Mailed
<1> QED BY <1>1, <1>2, PTL DEF Spec, Mailboxes!Spec

------------------------------------------------------------------------------
(* What publish reports.                                                   *)

\* The first k targets of e have it, and no other subscription has.
ServedTo(e, k) ==
  \A s \in Subs : e \in ToSet(accepted[s]) <=> \E i \in 1..k : snapshot[e][i] = s

TargetsDiffer ==
  \A e \in Events : \A i, j \in 1..Len(snapshot[e]) : i # j => snapshot[e][i] # snapshot[e][j]

AcceptedOnce ==
  \A s \in Subs : \A i, j \in 1..Len(accepted[s]) : i # j => accepted[s][i] # accepted[s][j]

\* What thread t has left to do of publishing e is the end of the snapshot, and
\* the targets before have the event.
HalfWay(t, e) ==
  LET n == Len(snapshot[e])
      m == Len(todo[t])
  IN /\ m <= n
     /\ \A i \in 1..m : todo[t][i] = snapshot[e][n - m + i]
     /\ ServedTo(e, n - m)

Reported(e) ==
  /\ outcome[e] = "returned" => ServedTo(e, Len(snapshot[e]))
  /\ outcome[e] = "raised" =>
       \E k \in 1..Len(snapshot[e]) : OverflowPolicy[snapshot[e][k]] = "BLOCK" /\ ServedTo(e, k - 1)

ReportOK ==
  /\ TargetsDiffer /\ AcceptedOnce
  /\ \A t \in Threads, e \in Events : event[t] = e => HalfWay(t, e)
  /\ \A e \in Events : Reported(e)

\* A sequence without repetitions holds a value once or not at all.
LEMMA OnceOrNever ==
  ASSUME NEW k \in Nat, NEW f, NEW x, \A i, j \in 1..k : i # j => f[i] # f[j]
  PROVE  Cardinality({i \in 1..k : f[i] = x}) = IF \E i \in 1..k : f[i] = x THEN 1 ELSE 0
<1>1. CASE \E i \in 1..k : f[i] = x
  <2>1. PICK i \in 1..k : f[i] = x
    BY <1>1
  <2>2. {j \in 1..k : f[j] = x} = {i}
    BY <2>1
  <2> QED BY <1>1, <2>2, FS_Singleton
<1>2. CASE ~\E i \in 1..k : f[i] = x
  <2>1. {j \in 1..k : f[j] = x} = {}
    BY <1>2
  <2> QED BY <1>2, <2>1, FS_EmptySet
<1> QED BY <1>1, <1>2

\* What the invariant says in numbers is what publish reports.
LEMMA ReportsAreTrue == TypeOK /\ ReportOK => PublishReportsWhatItDid
<1> SUFFICES ASSUME TypeOK, ReportOK, NEW e \in Events
    PROVE  LET n == Len(snapshot[e])
               times(s) == Cardinality({i \in 1..Len(accepted[s]) : accepted[s][i] = e})
               served(k) == \A s \in Subs :
                 times(s) = Cardinality({i \in 1..k : snapshot[e][i] = s})
           IN /\ outcome[e] = "returned" => served(n)
              /\ outcome[e] = "raised" =>
                   \E k \in 1..n : OverflowPolicy[snapshot[e][k]] = "BLOCK" /\ served(k - 1)
  BY DEF PublishReportsWhatItDid
<1> DEFINE n == Len(snapshot[e])
           times(s) == Cardinality({i \in 1..Len(accepted[s]) : accepted[s][i] = e})
           at(k, s) == Cardinality({i \in 1..k : snapshot[e][i] = s})
<1>1. snapshot[e] \in Seq(Subs) /\ n \in Nat /\ \A i, j \in 1..n : i # j => snapshot[e][i] # snapshot[e][j]
  BY DEF TypeOK, DataOK, ReportOK, TargetsDiffer
<1>2. ASSUME NEW k \in 0..n, ServedTo(e, k), NEW s \in Subs PROVE times(s) = at(k, s)
  <2>1. accepted[s] \in Seq(Events) /\ Len(accepted[s]) \in Nat /\ DOMAIN accepted[s] = 1..Len(accepted[s])
    BY DEF TypeOK, DataOK
  <2>2. times(s) = IF \E i \in 1..Len(accepted[s]) : accepted[s][i] = e THEN 1 ELSE 0
    <3>1. \A i, j \in 1..Len(accepted[s]) : i # j => accepted[s][i] # accepted[s][j]
      BY DEF ReportOK, AcceptedOnce
    <3> QED BY <2>1, <3>1, OnceOrNever
  <2>3. at(k, s) = IF \E i \in 1..k : snapshot[e][i] = s THEN 1 ELSE 0
    <3>1. k \in Nat /\ \A i, j \in 1..k : i # j => snapshot[e][i] # snapshot[e][j]
      BY <1>1
    <3> QED BY <3>1, OnceOrNever
  <2>4. (\E i \in 1..Len(accepted[s]) : accepted[s][i] = e) <=> \E i \in 1..k : snapshot[e][i] = s
    BY <1>2, <2>1 DEF ServedTo, ToSet
  <2> HIDE DEF times, at
  <2> QED BY <2>2, <2>3, <2>4
<1>3. outcome[e] = "returned" => \A s \in Subs : times(s) = at(n, s)
  <2> SUFFICES ASSUME outcome[e] = "returned" PROVE \A s \in Subs : times(s) = at(n, s)
    OBVIOUS
  <2>1. ServedTo(e, n)
    BY DEF ReportOK, Reported
  <2>2. n \in 0..n
    BY <1>1
  <2> QED BY <1>2, <2>1, <2>2
<1>4. outcome[e] = "raised" =>
        \E k \in 1..n : OverflowPolicy[snapshot[e][k]] = "BLOCK" /\ \A s \in Subs : times(s) = at(k - 1, s)
  <2> SUFFICES ASSUME outcome[e] = "raised"
               PROVE  \E k \in 1..n : OverflowPolicy[snapshot[e][k]] = "BLOCK" /\ \A s \in Subs : times(s) = at(k - 1, s)
    OBVIOUS
  <2>1. PICK k \in 1..n : OverflowPolicy[snapshot[e][k]] = "BLOCK" /\ ServedTo(e, k - 1)
    BY DEF ReportOK, Reported
  <2>2. k - 1 \in 0..n
    BY <1>1
  <2>3. \A s \in Subs : times(s) = at(k - 1, s)
    BY <1>2, <2>1, <2>2
  <2> HIDE DEF times, at, n
  <2> QED BY <2>1, <2>3
<1> QED BY <1>3, <1>4

\* Most steps deliver nothing.
LEMMA ReportRests ==
  ASSUME ReportOK, UNCHANGED <<accepted, snapshot, outcome, event>>,
         \A t \in Threads : event[t] \in Events => todo'[t] = todo[t]
  PROVE  ReportOK'
<1>1. (TargetsDiffer /\ AcceptedOnce)'
  BY DEF ReportOK, TargetsDiffer, AcceptedOnce
<1>2. \A e \in Events : Reported(e)'
  BY DEF ReportOK, Reported, ServedTo
<1>3. ASSUME NEW t \in Threads, NEW e \in Events, event'[t] = e PROVE HalfWay(t, e)'
  <2>1. HalfWay(t, e) /\ todo'[t] = todo[t]
    BY <1>3 DEF ReportOK
  <2> QED BY <2>1 DEF HalfWay, ServedTo
<1> QED BY <1>1, <1>2, <1>3 DEF ReportOK

\* What is said of other events stays said of them.
LEMMA OtherReports ==
  ASSUME TypeOK, ReportOK, NEW e \in Events, NEW t \in Threads,
         \A d \in Events \ {e} : /\ snapshot'[d] = snapshot[d] /\ outcome'[d] = outcome[d]
                                 /\ \A s \in Subs : d \in ToSet(accepted'[s]) <=> d \in ToSet(accepted[s]),
         \A u \in Threads \ {t} : event'[u] = event[u] /\ todo'[u] = todo[u],
         event'[t] \in {e, NoEvent}
  PROVE  /\ \A d \in Events \ {e} : Reported(d)'
         /\ \A u \in Threads, d \in Events \ {e} : event'[u] = d => HalfWay(u, d)'
<1>1. ASSUME NEW d \in Events \ {e}, NEW k PROVE ServedTo(d, k) => ServedTo(d, k)'
  BY <1>1 DEF ServedTo
<1>2. ASSUME NEW d \in Events \ {e} PROVE Reported(d)'
  <2>1. Reported(d) /\ snapshot'[d] = snapshot[d] /\ outcome'[d] = outcome[d]
    BY DEF ReportOK
  <2>2. CASE outcome[d] = "returned"
    <3>1. ServedTo(d, Len(snapshot[d]))
      BY <2>1, <2>2 DEF Reported
    <3>2. PICK n : n = Len(snapshot[d])
      OBVIOUS
    <3>3. ServedTo(d, n)'
      BY <1>1, <3>1, <3>2
    <3> QED BY <2>1, <2>2, <3>2, <3>3 DEF Reported, ServedTo
  <2>3. CASE outcome[d] = "raised"
    <3>1. PICK k \in 1..Len(snapshot[d]) : OverflowPolicy[snapshot[d][k]] = "BLOCK" /\ ServedTo(d, k - 1)
      BY <2>1, <2>3 DEF Reported
    <3>2. ServedTo(d, k - 1)'
      BY <1>1, <3>1
    <3> QED BY <2>1, <2>3, <3>1, <3>2 DEF Reported
  <2>4. CASE outcome[d] \notin {"returned", "raised"}
    BY <2>1, <2>4 DEF Reported
  <2> QED BY <2>2, <2>3, <2>4
<1>3. ASSUME NEW u \in Threads, NEW d \in Events \ {e}, event'[u] = d PROVE HalfWay(u, d)'
  <2>1. event[u] = d /\ todo'[u] = todo[u]
    BY <1>3, SetsAssumption
  <2>2. HalfWay(u, d) /\ snapshot'[d] = snapshot[d]
    BY <2>1 DEF ReportOK
  <2>3. PICK k : k = Len(snapshot[d]) - Len(todo[u])
    OBVIOUS
  <2>4. ServedTo(d, k)'
    BY <1>1, <2>2, <2>3 DEF HalfWay
  <2>5. /\ k = Len(snapshot'[d]) - Len(todo'[u])
        /\ \A s \in Subs : d \in ToSet(accepted'[s]) <=> \E i \in 1..k : snapshot'[d][i] = s
    BY <2>1, <2>2, <2>3, <2>4 DEF ServedTo
  <2>6. ServedTo(d, Len(snapshot[d]) - Len(todo[u]))'
    BY <2>5 DEF ServedTo
  <2> QED BY <2>1, <2>2, <2>6 DEF HalfWay
<1> QED BY <1>2, <1>3

\* A publish begins.
LEMMA PublishReports ==
  ASSUME MailboxOK, ReportOK, NEW t \in Threads, NEW e \in Events, Publish(t, e)
  PROVE  ReportOK'
<1> DEFINE targets == subscriptions[EventTopic[e]]
           n == Len(targets)
<1>1. /\ outcome[e] = "unpublished" /\ pc[t] = "idle" /\ accepted' = accepted
      /\ snapshot' = [snapshot EXCEPT ![e] = targets]
      /\ snapshot \in [Events -> Seq(Subs)]
      /\ outcome \in [Events -> {"unpublished", "publishing", "returned", "raised"}]
      /\ event \in [Threads -> Events \cup {NoEvent}] /\ todo \in [Threads -> Seq(Subs)]
      /\ accepted \in [Subs -> Seq(Events)]
  BY DEF Publish, CanCall, MailboxOK, TypeOK, DataOK, CallsOK
<1>t. targets \in Seq(Subs) /\ n \in Nat
  <2>1. EventTopic[e] \in Topics /\ subscriptions \in [Topics -> Seq(Subs)]
    BY SubscriptionAssumption DEF MailboxOK, TypeOK, DataOK
  <2> QED BY <2>1
<1>2. event[t] = NoEvent /\ \A u \in Threads : event[u] # e
  <2>1. \A u \in Threads : event[u] = e => outcome[e] = "publishing"
    BY SetsAssumption DEF MailboxOK, PublishingOK, Publishing
  <2> QED BY <1>1, <2>1 DEF MailboxOK, TypeOK, CallsOK
<1>3. \A s \in Subs : e \notin ToSet(accepted[s])
  BY <1>1 DEF MailboxOK, PublishingOK
<1>4. \A i, j \in 1..n : i # j => targets[i] # targets[j]
  BY SubscriptionAssumption DEF MailboxOK, Routing, TableOK
<1>5. \/ targets = <<>> /\ outcome'[e] = "returned" /\ UNCHANGED <<todo, event>>
      \/ /\ outcome'[e] = "publishing"
         /\ todo' = [todo EXCEPT ![t] = targets] /\ event' = [event EXCEPT ![t] = e]
  BY <1>1 DEF Publish, threadVars
<1>6. \A d \in Events \ {e} : outcome'[d] = outcome[d] /\ snapshot'[d] = snapshot[d]
  BY <1>1 DEF Publish
<1>7. snapshot'[e] = targets
  BY <1>1, <1>t
<1> HIDE DEF targets, n
<1>8. (TargetsDiffer /\ AcceptedOnce)'
  <2>1. ASSUME NEW d \in Events, NEW i \in 1..Len(snapshot'[d]), NEW j \in 1..Len(snapshot'[d]), i # j
        PROVE  snapshot'[d][i] # snapshot'[d][j]
    BY <1>4, <1>6, <1>7, <2>1 DEF ReportOK, TargetsDiffer, n
  <2>2. TargetsDiffer'
    BY <2>1 DEF TargetsDiffer
  <2>3. AcceptedOnce'
    BY <1>1 DEF ReportOK, AcceptedOnce
  <2> QED BY <2>2, <2>3
<1>9. ServedTo(e, 0)'
  BY <1>1, <1>3 DEF ServedTo
<1>10. /\ \A d \in Events \ {e} : Reported(d)'
       /\ \A u \in Threads, d \in Events \ {e} : event'[u] = d => HalfWay(u, d)'
  <2>1. \A u \in Threads \ {t} : event'[u] = event[u] /\ todo'[u] = todo[u]
    BY <1>1, <1>5
  <2>2. event'[t] \in {e, NoEvent}
    BY <1>1, <1>2, <1>5
  <2> QED BY <1>1, <1>6, <2>1, <2>2, OtherReports DEF MailboxOK
<1>11. Reported(e)'
  <2>1. CASE targets = <<>> /\ outcome'[e] = "returned"
    <3>1. Len(snapshot'[e]) = 0
      BY <1>7, <2>1
    <3> QED BY <1>9, <2>1, <3>1 DEF Reported, ServedTo
  <2>2. CASE outcome'[e] = "publishing"
    BY <2>2 DEF Reported
  <2> QED BY <1>5, <2>1, <2>2
<1>12. ASSUME NEW u \in Threads, event'[u] = e PROVE HalfWay(u, e)'
  <2>1. u = t /\ todo'[u] = targets /\ n - n = 0
    BY <1>1, <1>t, <1>2, <1>5, <1>12
  <2>2. Len(todo'[u]) = n /\ Len(snapshot'[e]) = n
    BY <1>7, <2>1 DEF n
  <2>3. \A i \in 1..n : todo'[u][i] = snapshot'[e][n - n + i]
    BY <1>t, <1>7, <2>1
  <2>4. ServedTo(e, Len(snapshot[e]) - Len(todo[u]))'
    BY <1>9, <2>1, <2>2 DEF ServedTo
  <2> QED BY <1>t, <2>2, <2>3, <2>4 DEF HalfWay
<1> QED BY <1>8, <1>10, <1>11, <1>12 DEF ReportOK

\* A target accepts the event.
LEMMA PutReports ==
  ASSUME MailboxOK, ReportOK, NEW t \in Threads, Put(t)
  PROVE  ReportOK'
<1>e. PICK e \in Events : e = event[t]
  BY DEF MailboxOK, TypeOK, CallsOK, Put
<1>q. PICK q \in Seq(Subs) : q = todo[t] /\ q # <<>>
  BY InCall DEF MailboxOK, TypeOK, Put
<1>s. PICK s \in Subs : s = q[1] /\ s = Target(t)
  BY <1>q DEF Target
<1>n. PICK n \in Nat : n = Len(snapshot[e])
  BY DEF MailboxOK, TypeOK, DataOK
<1>m. PICK m \in Nat : m = Len(q) - 1
  BY <1>q
<1>1. /\ accepted' = [accepted EXCEPT ![s] = Append(@, e)] /\ snapshot' = snapshot
      /\ accepted \in [Subs -> Seq(Events)]
      /\ event \in [Threads -> Events \cup {NoEvent}] /\ todo \in [Threads -> Seq(Subs)]
      /\ outcome \in [Events -> {"unpublished", "publishing", "returned", "raised"}]
  BY <1>e, <1>s DEF Put, Target, MailboxOK, TypeOK, DataOK, CallsOK
<1>2. /\ e \notin ToSet(accepted[s]) /\ outcome[e] = "publishing" /\ \A u \in Threads : event[u] = e => u = t
  <2>1. s \in Todo(t) /\ Publishing(t)
    BY <1>e, <1>q, <1>s, TailToSet, SetsAssumption DEF Todo, Publishing, Target
  <2> QED BY <1>e, <2>1 DEF MailboxOK, PublishingOK
<1>3. HalfWay(t, e)
  BY <1>e DEF ReportOK
<1>4. n - (m + 1) \in Nat /\ Len(q) = m + 1 /\ s = snapshot[e][n - m] /\ ServedTo(e, n - (m + 1))
      /\ \A i \in 1..m : q[i + 1] = snapshot[e][n - m + i]
  <2>1. Len(q) = m + 1
    BY <1>q, <1>m
  <2>2. /\ m + 1 <= n /\ ServedTo(e, n - (m + 1))
        /\ \A i \in 1..m + 1 : q[i] = snapshot[e][n - (m + 1) + i]
    BY <1>3, <1>n, <1>q, <2>1 DEF HalfWay
  <2>3. 1 \in 1..m + 1 /\ n - (m + 1) + 1 = n - m
    OBVIOUS
  <2>4. \A i \in 1..m : i + 1 \in 1..m + 1 /\ n - (m + 1) + (i + 1) = n - m + i
    OBVIOUS
  <2>5. n - (m + 1) \in Nat
    BY <2>2
  <2>6. s = snapshot[e][n - m]
    BY <1>s, <2>2, <2>3
  <2>7. \A i \in 1..m : q[i + 1] = snapshot[e][n - m + i]
    BY <2>2, <2>4
  <2> QED BY <2>1, <2>2, <2>5, <2>6, <2>7
<1>5. \A u \in Subs : /\ e \in ToSet(accepted'[u]) <=> (e \in ToSet(accepted[u]) \/ u = s)
                      /\ \A d \in Events \ {e} : d \in ToSet(accepted'[u]) <=> d \in ToSet(accepted[u])
  <2>1. \A a \in Seq(Events) : ToSet(Append(a, e)) = ToSet(a) \cup {e}
    <3> SUFFICES ASSUME NEW a \in Seq(Events) PROVE ToSet(Append(a, e)) = ToSet(a) \cup {e}
      OBVIOUS
    <3>1. /\ DOMAIN a = 1..Len(a) /\ DOMAIN Append(a, e) = 1..Len(a) + 1 /\ Len(a) \in Nat
          /\ Append(a, e)[Len(a) + 1] = e /\ \A i \in 1..Len(a) : Append(a, e)[i] = a[i]
      OBVIOUS
    <3>2. \A i : i \in 1..Len(a) + 1 <=> i \in 1..Len(a) \/ i = Len(a) + 1
      BY <3>1
    <3> QED BY <3>1, <3>2 DEF ToSet
  <2> QED BY <1>1, <2>1
<1>6. ServedTo(e, n - m)'
  <2>1. \A i : i \in 1..n - m <=> i \in 1..n - (m + 1) \/ i = n - m
    BY <1>4
  <2>2. \A u \in Subs : (\E i \in 1..n - m : snapshot[e][i] = u) <=>
                        ((\E i \in 1..n - (m + 1) : snapshot[e][i] = u) \/ u = s)
    BY <1>4, <2>1
  <2>3. \A u \in Subs : e \in ToSet(accepted[u]) <=> \E i \in 1..n - (m + 1) : snapshot[e][i] = u
    BY <1>4 DEF ServedTo
  <2> QED BY <1>1, <1>5, <2>2, <2>3, SMTT(30) DEF ServedTo
<1>7. (TargetsDiffer /\ AcceptedOnce)'
  <2>1. ASSUME NEW u \in Subs, NEW i \in 1..Len(accepted'[u]), NEW j \in 1..Len(accepted'[u]), i # j
        PROVE  accepted'[u][i] # accepted'[u][j]
    <3>1. CASE u # s
      BY <1>1, <2>1, <3>1 DEF ReportOK, AcceptedOnce
    <3>2. CASE u = s
      <4>a. PICK a \in Seq(Events) : a = accepted[s]
        BY <1>1
      <4>1. accepted'[u] = Append(a, e) /\ \A k \in 1..Len(a) : a[k] # e
        BY <1>1, <1>2, <3>2, <4>a DEF ToSet
      <4>2. \A k, l \in 1..Len(a) : k # l => a[k] # a[l]
        BY <4>a DEF ReportOK, AcceptedOnce
      <4> QED BY <2>1, <4>1, <4>2
    <3> QED BY <3>1, <3>2
  <2>2. AcceptedOnce'
    BY <2>1 DEF AcceptedOnce
  <2>3. TargetsDiffer'
    BY <1>1 DEF ReportOK, TargetsDiffer
  <2> QED BY <2>2, <2>3
<1>8. \/ m = 0 /\ outcome'[e] = "returned" /\ event'[t] = NoEvent
      \/ outcome'[e] = "publishing" /\ event'[t] = e /\ todo'[t] = Tail(q)
  <2>1. Tail(q) = <<>> => m = 0
    <3>1. Len(Tail(q)) = Len(q) - 1
      BY <1>q
    <3> QED BY <1>m, <3>1
  <2> QED BY <1>1, <1>2, <1>e, <1>q, <2>1 DEF Put, EndCall
<1>9. /\ \A d \in Events \ {e} : outcome'[d] = outcome[d]
      /\ \A u \in Threads \ {t} : event'[u] = event[u] /\ todo'[u] = todo[u]
  BY <1>1, <1>e DEF Put, EndCall
<1>10. /\ \A d \in Events \ {e} : Reported(d)'
       /\ \A u \in Threads, d \in Events \ {e} : event'[u] = d => HalfWay(u, d)'
  <2>1. \A d \in Events \ {e} : /\ snapshot'[d] = snapshot[d] /\ outcome'[d] = outcome[d]
                                 /\ \A u \in Subs : d \in ToSet(accepted'[u]) <=> d \in ToSet(accepted[u])
    BY <1>1, <1>5, <1>9
  <2>2. event'[t] \in {e, NoEvent}
    BY <1>8
  <2> QED BY <1>9, <2>1, <2>2, OtherReports DEF MailboxOK
<1>11. Reported(e)'
  <2>1. CASE m = 0 /\ outcome'[e] = "returned"
    <3>1. n - m = Len(snapshot'[e])
      BY <1>1, <1>n, <2>1
    <3> QED BY <1>6, <2>1, <3>1 DEF Reported, ServedTo
  <2>2. CASE outcome'[e] = "publishing"
    BY <2>2 DEF Reported
  <2> QED BY <1>8, <2>1, <2>2
<1>12. ASSUME NEW u \in Threads, event'[u] = e PROVE HalfWay(u, e)'
  <2>1. u = t
    BY <1>2, <1>9, <1>12
  <2>2. todo'[u] = Tail(q)
    BY <1>8, <1>12, <2>1, SetsAssumption
  <2>3. Len(todo'[u]) = m /\ \A i \in 1..m : todo'[u][i] = q[i + 1]
    BY <1>q, <1>4, <2>2
  <2>4. Len(snapshot'[e]) = n /\ snapshot'[e] = snapshot[e]
    BY <1>1, <1>n
  <2>5. ServedTo(e, Len(snapshot[e]) - Len(todo[u]))'
    BY <1>6, <2>3, <2>4 DEF ServedTo
  <2>6. m <= n
    BY <1>4
  <2>7. \A i \in 1..Len(todo'[u]) : todo'[u][i] = snapshot'[e][Len(snapshot'[e]) - Len(todo'[u]) + i]
    BY <1>4, <2>3, <2>4
  <2> QED BY <2>3, <2>4, <2>5, <2>6, <2>7 DEF HalfWay
<1> QED BY <1>7, <1>10, <1>11, <1>12 DEF ReportOK

\* A BLOCK target has no room in time.
LEMMA PutTimeoutReports ==
  ASSUME MailboxOK, ReportOK, NEW t \in Threads, PutTimeout(t)
  PROVE  ReportOK'
<1>e. PICK e \in Events : e = event[t]
  BY DEF MailboxOK, TypeOK, CallsOK, PutTimeout
<1>q. PICK q \in Seq(Subs) : q = todo[t] /\ q # <<>>
  BY InCall DEF MailboxOK, TypeOK, PutTimeout
<1>1. /\ accepted' = accepted /\ snapshot' = snapshot /\ outcome' = [outcome EXCEPT ![e] = "raised"]
      /\ event' = [event EXCEPT ![t] = NoEvent] /\ todo' = [todo EXCEPT ![t] = <<>>]
      /\ OverflowPolicy[q[1]] = "BLOCK"
      /\ event \in [Threads -> Events \cup {NoEvent}] /\ todo \in [Threads -> Seq(Subs)]
      /\ outcome \in [Events -> {"unpublished", "publishing", "returned", "raised"}]
  BY <1>e, <1>q, SMTT(30) DEF PutTimeout, EndCall, MailboxOK, TypeOK, DataOK, CallsOK
<1>2. \A u \in Threads : event[u] = e => u = t
  BY <1>e, SetsAssumption DEF MailboxOK, PublishingOK, Publishing
<1>3. HalfWay(t, e) /\ Len(snapshot[e]) \in Nat /\ Len(q) \in Nat \ {0}
  <2>1. HalfWay(t, e)
    BY <1>e DEF ReportOK
  <2>2. snapshot[e] \in Seq(Subs)
    BY DEF MailboxOK, TypeOK, DataOK
  <2> QED BY <1>q, <2>1, <2>2
<1>4. PICK k \in 1..Len(snapshot[e]) : q[1] = snapshot[e][k] /\ ServedTo(e, k - 1)
  <2>k. PICK k : k = Len(snapshot[e]) - Len(q) + 1
    OBVIOUS
  <2>1. Len(q) <= Len(snapshot[e]) /\ ServedTo(e, Len(snapshot[e]) - Len(q))
        /\ \A i \in 1..Len(q) : q[i] = snapshot[e][Len(snapshot[e]) - Len(q) + i]
    BY <1>3, <1>q DEF HalfWay
  <2>2. k \in 1..Len(snapshot[e]) /\ k - 1 = Len(snapshot[e]) - Len(q) /\ 1 \in 1..Len(q)
    BY <1>3, <2>k, <2>1
  <2> QED BY <2>k, <2>1, <2>2
<1>5. (TargetsDiffer /\ AcceptedOnce)'
  BY <1>1 DEF ReportOK, TargetsDiffer, AcceptedOnce
<1>6. /\ \A d \in Events \ {e} : Reported(d)'
      /\ \A u \in Threads, d \in Events \ {e} : event'[u] = d => HalfWay(u, d)'
  BY <1>1, OtherReports DEF MailboxOK
<1>7. Reported(e)'
  <2>1. ServedTo(e, k - 1)' /\ outcome'[e] = "raised" /\ snapshot'[e] = snapshot[e]
    BY <1>1, <1>4 DEF ServedTo
  <2> QED BY <1>1, <1>4, <2>1 DEF Reported
<1>8. \A u \in Threads : event'[u] # e
  BY <1>1, <1>2, SetsAssumption
<1> QED BY <1>5, <1>6, <1>7, <1>8 DEF ReportOK

LEMMA StepReports ==
  ASSUME MailboxOK, ReportOK, [Next]_vars
  PROVE  ReportOK'
<1>0. pc \in [Threads -> CallStates] /\ todo \in [Threads -> Seq(Subs)]
      /\ \A t \in Threads : event[t] \in Events => pc[t] \in {"putting", "evicting", "counting"}
  BY SetsAssumption DEF MailboxOK, TypeOK, CallsOK
<1>1. CASE UNCHANGED vars
  BY <1>1, ReportRests DEF vars, threadVars, history
<1>2. ASSUME NEW t \in Threads, StartCall(t) \/ ContinueCall(t) PROVE ReportOK'
  <2>1. CASE \/ \E s \in Subs : Subscribe(t, s) \/ Unsubscribe(t, s)
             \/ Shutdown(t) \/ Register(t) \/ Join(t) \/ Signal(t)
    <3>1. UNCHANGED <<accepted, snapshot, outcome>>
      BY <2>1 DEF Subscribe, Unsubscribe, Shutdown, Register, Join, Signal, history
    <3>2. event[t] = NoEvent /\ event' = event
      <4>1. event[t] = NoEvent
        BY <2>1 DEF MailboxOK, TypeOK, CallsOK, Subscribe, Unsubscribe, Shutdown, Register, Join, Signal, CanCall
      <4>2. EndCall(t) => event' = event
        BY <4>1, EndGoes DEF MailboxOK
      <4> QED BY <2>1, <4>1, <4>2 DEF Subscribe, Unsubscribe, Shutdown, Register, Join, Signal
    <3>3. \A u \in Threads \ {t} : todo'[u] = todo[u]
      BY <1>0, <2>1 DEF Subscribe, Unsubscribe, Shutdown, Register, Join, Signal, EndCall
    <3> QED BY <3>1, <3>2, <3>3, ReportRests, SetsAssumption
  <2>2. CASE PutFull(t) \/ Evict(t) \/ CountDrop(t)
    BY <2>2, ReportRests DEF PutFull, Evict, CountDrop, history
  <2> QED BY <1>2, <2>1, <2>2, PublishReports, PutReports, PutTimeoutReports DEF StartCall, ContinueCall
<1>3. ASSUME NEW s \in Subs, Consume(s) \/ Handle(s) PROVE ReportOK'
  BY <1>3, ReportRests
     DEF Consume, Handle, CheckStop, GetTimeout, Get, HandlerReturns, HandlerRaises, FinishHandling, threadVars, history
<1> QED BY <1>1, <1>2, <1>3 DEF Next

\* bus.py:119: whatever other threads publish, evict, stop and shut down
\* meanwhile, a publish that returns has put the event once into the queue of every
\* subscription it found under the lock and into no other, and one that raises has
\* served exactly the targets before a BLOCK one.
THEOREM PublishTellsTheTruth == Spec => []PublishReportsWhatItDid
<1>1. Init => MailboxOK /\ ReportOK
  <2> SUFFICES ASSUME Init PROVE MailboxOK /\ ReportOK
    OBVIOUS
  <2>1. MailboxOK
    BY InitType, InitMailbox DEF MailboxOK
  <2>2. \A t \in Threads : event[t] \notin Events
    BY SetsAssumption DEF Init
  <2>3. ReportOK
    BY <2>2 DEF Init, ReportOK, TargetsDiffer, AcceptedOnce, Reported
  <2> QED BY <2>1, <2>3
<1>2. MailboxOK /\ ReportOK /\ [Next]_vars => MailboxOK' /\ ReportOK'
  BY StepMailbox, StepReports
<1>3. MailboxOK /\ ReportOK => PublishReportsWhatItDid
  BY ReportsAreTrue DEF MailboxOK
<1> QED BY <1>1, <1>2, <1>3, PTL DEF Spec

------------------------------------------------------------------------------
(* The flows.                                                              *)

\* An event is issued once.
IssuedOnce ==
  \A t, u \in Threads : \A i \in 1..Len(issued[t]), j \in 1..Len(issued[u]) :
    issued[t][i] = issued[u][j] => t = u /\ i = j

IssuedPublished ==
  \A t \in Threads : \A i \in 1..Len(issued[t]) : outcome[issued[t][i]] # "unpublished"

\* What a thread is publishing is what it issued last.
LastIssued ==
  \A t \in Threads : event[t] \in Events =>
    Len(issued[t]) > 0 /\ issued[t][Len(issued[t])] = event[t]

FlowsAccepted ==
  \A s \in Subs, t \in Threads :
    \A i, j \in 1..Len(issued[t]) : \A k, l \in 1..Len(accepted[s]) :
      k < l /\ accepted[s][k] = issued[t][i] /\ accepted[s][l] = issued[t][j] => i < j

FlowOK == IssuedOnce /\ IssuedPublished /\ LastIssued /\ FlowsAccepted

\* What has left a queue is the beginning of what entered it.
Removed(s) == \A k \in 1..Len(popped[s]) : popped[s][k].event = accepted[s][k]

RemovedOK == \A s \in Subs : Removed(s)

LEMMA FlowRests ==
  ASSUME FlowOK, UNCHANGED <<accepted, issued, event, outcome>>
  PROVE  FlowOK'
BY DEF FlowOK, IssuedOnce, IssuedPublished, LastIssued, FlowsAccepted

\* An event nobody has published yet follows all its thread has issued.
LEMMA PublishFlows ==
  ASSUME MailboxOK, FlowOK, NEW t \in Threads, NEW e \in Events, Publish(t, e)
  PROVE  FlowOK'
<1>a. PICK a \in Seq(Events) : a = issued[t]
  BY DEF MailboxOK, TypeOK, DataOK
<1>1. /\ issued' = [issued EXCEPT ![t] = Append(@, e)] /\ accepted' = accepted
      /\ issued \in [Threads -> Seq(Events)] /\ accepted \in [Subs -> Seq(Events)]
      /\ outcome[e] = "unpublished" /\ pc[t] = "idle"
      /\ outcome \in [Events -> {"unpublished", "publishing", "returned", "raised"}]
      /\ event \in [Threads -> Events \cup {NoEvent}]
  BY DEF Publish, CanCall, MailboxOK, TypeOK, DataOK, CallsOK
<1>2. /\ issued'[t] = Append(a, e) /\ Len(issued'[t]) = Len(a) + 1 /\ Len(a) \in Nat
      /\ issued'[t][Len(a) + 1] = e /\ \A i \in 1..Len(a) : issued'[t][i] = a[i]
      /\ \A u \in Threads \ {t} : issued'[u] = issued[u]
  BY <1>1, <1>a
<1>3. /\ outcome'[e] \in {"publishing", "returned"}
      /\ \A d \in Events \ {e} : outcome'[d] = outcome[d]
      /\ event'[t] = event[t] \/ event'[t] = e
      /\ \A u \in Threads \ {t} : event'[u] = event[u]
  BY <1>1 DEF Publish, threadVars
<1>4. /\ \A u \in Threads : \A i \in 1..Len(issued[u]) : issued[u][i] # e /\ issued[u][i] \in Events
      /\ \A s \in Subs : \A k \in 1..Len(accepted[s]) : accepted[s][k] # e
      /\ event[t] = NoEvent
  <2>1. \A u \in Threads : \A i \in 1..Len(issued[u]) : issued[u][i] # e /\ issued[u][i] \in Events
    BY <1>1 DEF FlowOK, IssuedPublished
  <2>2. \A s \in Subs : e \notin ToSet(accepted[s])
    BY <1>1 DEF MailboxOK, PublishingOK
  <2>3. event[t] = NoEvent
    BY <1>1 DEF MailboxOK, TypeOK, CallsOK
  <2> QED BY <1>1, <2>1, <2>2, <2>3 DEF ToSet
\* The old places keep what they held, the new one holds e.
<1>5. ASSUME NEW u \in Threads, NEW i \in 1..Len(issued'[u])
      PROVE  \/ i \in 1..Len(issued[u]) /\ issued'[u][i] = issued[u][i]
             \/ u = t /\ i = Len(a) + 1 /\ issued'[u][i] = e
  BY <1>1, <1>2, <1>5, <1>a
<1>6. IssuedOnce'
  <2> SUFFICES ASSUME NEW u \in Threads, NEW v \in Threads, NEW i \in 1..Len(issued'[u]),
                      NEW j \in 1..Len(issued'[v]), issued'[u][i] = issued'[v][j]
               PROVE  u = v /\ i = j
    BY DEF IssuedOnce
  <2>1. CASE i \in 1..Len(issued[u]) /\ j \in 1..Len(issued[v])
                /\ issued'[u][i] = issued[u][i] /\ issued'[v][j] = issued[v][j]
    <3>1. issued[u][i] = issued[v][j]
      BY <2>1
    <3>2. i \in 1..Len(issued[u]) /\ j \in 1..Len(issued[v])
      BY <2>1
    <3> QED BY <3>1, <3>2 DEF FlowOK, IssuedOnce
  <2>2. CASE issued'[u][i] = e \/ issued'[v][j] = e
    <3>1. issued'[u][i] = e /\ issued'[v][j] = e
      BY <2>2
    <3>2. u = t /\ i = Len(a) + 1
      BY <1>4, <1>5, <3>1
    <3>3. v = t /\ j = Len(a) + 1
      BY <1>4, <1>5, <3>1
    <3> QED BY <3>2, <3>3
  <2> QED BY <1>5, <2>1, <2>2
<1>7. IssuedPublished'
  <2> SUFFICES ASSUME NEW u \in Threads, NEW i \in 1..Len(issued'[u])
               PROVE  outcome'[issued'[u][i]] # "unpublished"
    BY DEF IssuedPublished
  <2> QED BY <1>3, <1>4, <1>5 DEF FlowOK, IssuedPublished
<1>8. LastIssued'
  <2> SUFFICES ASSUME NEW u \in Threads, event'[u] \in Events
               PROVE  Len(issued'[u]) > 0 /\ issued'[u][Len(issued'[u])] = event'[u]
    BY DEF LastIssued
  <2>1. CASE u = t
    BY <1>2, <1>3, <1>4, <2>1, SetsAssumption
  <2>2. CASE u # t
    BY <1>2, <1>3, <2>2 DEF FlowOK, LastIssued
  <2> QED BY <2>1, <2>2
<1>9. FlowsAccepted'
  <2> SUFFICES ASSUME NEW s \in Subs, NEW u \in Threads, NEW i \in 1..Len(issued'[u]), NEW j \in 1..Len(issued'[u]),
                      NEW k \in 1..Len(accepted[s]), NEW l \in 1..Len(accepted[s]), k < l,
                      accepted[s][k] = issued'[u][i], accepted[s][l] = issued'[u][j]
               PROVE  i < j
    BY <1>1 DEF FlowsAccepted
  <2>1. /\ i \in 1..Len(issued[u]) /\ issued'[u][i] = issued[u][i]
        /\ j \in 1..Len(issued[u]) /\ issued'[u][j] = issued[u][j]
    BY <1>4, <1>5, SMTT(30)
  <2> QED BY <2>1, SMTT(30) DEF FlowOK, FlowsAccepted
<1> QED BY <1>6, <1>7, <1>8, <1>9 DEF FlowOK

\* An accepted event was issued last of its flow.
LEMMA PutFlows ==
  ASSUME MailboxOK, FlowOK, NEW t \in Threads, Put(t)
  PROVE  FlowOK'
<1>e. PICK e \in Events : e = event[t]
  BY DEF MailboxOK, TypeOK, CallsOK, Put
<1>s. PICK s \in Subs : s = Target(t)
  BY InCall DEF MailboxOK, TypeOK, Put, Target
<1>a. PICK a \in Seq(Events) : a = accepted[s]
  BY DEF MailboxOK, TypeOK, DataOK
<1>1. /\ accepted' = [accepted EXCEPT ![s] = Append(@, e)] /\ issued' = issued
      /\ accepted \in [Subs -> Seq(Events)] /\ issued \in [Threads -> Seq(Events)]
      /\ event \in [Threads -> Events \cup {NoEvent}]
      /\ outcome \in [Events -> {"unpublished", "publishing", "returned", "raised"}]
  BY <1>e, <1>s DEF Put, Target, MailboxOK, TypeOK, DataOK, CallsOK
<1>2. \A k \in 1..Len(a) : a[k] # e
  <2>1. todo[t] \in Seq(Subs) /\ todo[t] # <<>>
    BY InCall DEF MailboxOK, TypeOK, Put
  <2>2. s \in Todo(t) /\ Publishing(t)
    BY <1>e, <1>s, <2>1, TailToSet, SetsAssumption DEF Todo, Publishing, Target
  <2>3. e \notin ToSet(a)
    BY <1>e, <1>a, <2>2 DEF MailboxOK, PublishingOK
  <2> QED BY <2>3 DEF ToSet
<1>3. /\ accepted'[s] = Append(a, e) /\ Len(accepted'[s]) = Len(a) + 1 /\ Len(a) \in Nat
      /\ accepted'[s][Len(a) + 1] = e /\ \A k \in 1..Len(a) : accepted'[s][k] = a[k]
      /\ \A u \in Subs \ {s} : accepted'[u] = accepted[u]
  BY <1>1, <1>a
<1>4. LastIssued' /\ IssuedPublished' /\ IssuedOnce'
  <2>1. \A u \in Threads : event'[u] = event[u] \/ event'[u] = NoEvent
    BY <1>1 DEF Put, EndCall
  <2>2. \A d \in Events : outcome'[d] = outcome[d] \/ outcome'[d] = "returned"
    BY <1>1, <1>e DEF Put
  <2>3. LastIssued'
    BY <1>1, <2>1, SetsAssumption DEF FlowOK, LastIssued
  <2>4. IssuedPublished'
    BY <1>1, <2>2 DEF FlowOK, IssuedPublished
  <2>5. IssuedOnce'
    BY <1>1 DEF FlowOK, IssuedOnce
  <2> QED BY <2>3, <2>4, <2>5
<1>5. ASSUME NEW u \in Threads, NEW i \in 1..Len(issued[u]), NEW j \in 1..Len(issued[u]),
             NEW k \in 1..Len(a) + 1, NEW l \in 1..Len(a) + 1, k < l,
             accepted'[s][k] = issued[u][i], accepted'[s][l] = issued[u][j]
      PROVE  i < j
  <2>1. k \in 1..Len(a) /\ a[k] = issued[u][i]
    BY <1>3, <1>5
  <2>2. CASE l \in 1..Len(a)
    <3>1. a[l] = issued[u][j]
      BY <1>3, <1>5, <2>2
    <3> QED BY <1>a, <1>5, <2>1, <2>2, <3>1 DEF FlowOK, FlowsAccepted
  <2>3. CASE l = Len(a) + 1
    <3>n. PICK n \in Nat : n = Len(issued[t])
      BY <1>1
    <3>1. issued[u][j] = e
      BY <1>3, <1>5, <2>3
    <3>2. n \in 1..n /\ issued[t][n] = e
      BY <1>e, <3>n DEF FlowOK, LastIssued
    <3>3. u = t /\ j = n
      BY <3>n, <3>1, <3>2, SMTT(30) DEF FlowOK, IssuedOnce
    <3>4. i \in 1..n /\ i # j
      BY <1>2, <2>1, <3>n, <3>1, <3>3
    <3> QED BY <3>3, <3>4
  <2> QED BY <1>3, <2>2, <2>3
<1>6. FlowsAccepted'
  <2> SUFFICES ASSUME NEW w \in Subs, NEW u \in Threads, NEW i \in 1..Len(issued[u]), NEW j \in 1..Len(issued[u]),
                      NEW k \in 1..Len(accepted'[w]), NEW l \in 1..Len(accepted'[w]), k < l,
                      accepted'[w][k] = issued[u][i], accepted'[w][l] = issued[u][j]
               PROVE  i < j
    BY <1>1 DEF FlowsAccepted
  <2>1. CASE w = s
    BY <1>3, <1>5, <2>1
  <2>2. CASE w # s
    <3>1. accepted'[w] = accepted[w]
      BY <1>3, <2>2
    <3>2. /\ k \in 1..Len(accepted[w]) /\ l \in 1..Len(accepted[w])
          /\ accepted[w][k] = issued[u][i] /\ accepted[w][l] = issued[u][j]
      BY <3>1
    <3> QED BY <3>2 DEF FlowOK, FlowsAccepted
  <2> QED BY <2>1, <2>2
<1> QED BY <1>4, <1>6 DEF FlowOK

LEMMA StepFlows ==
  ASSUME MailboxOK, FlowOK, [Next]_vars
  PROVE  FlowOK'
<1>1. CASE UNCHANGED vars
  BY <1>1, FlowRests DEF vars, threadVars, history
<1>2. ASSUME NEW t \in Threads, StartCall(t) \/ ContinueCall(t) PROVE FlowOK'
  <2>1. CASE \/ \E s \in Subs : Subscribe(t, s) \/ Unsubscribe(t, s)
             \/ Shutdown(t) \/ Register(t) \/ Join(t) \/ Signal(t)
    <3>1. UNCHANGED <<accepted, issued, outcome>>
      BY <2>1 DEF Subscribe, Unsubscribe, Shutdown, Register, Join, Signal, history
    <3>2. event' = event
      <4>1. event[t] = NoEvent
        BY <2>1 DEF MailboxOK, TypeOK, CallsOK, Subscribe, Unsubscribe, Shutdown, Register, Join, Signal, CanCall
      <4>2. EndCall(t) => event' = event
        BY <4>1, EndGoes DEF MailboxOK
      <4> QED BY <2>1, <4>2 DEF Subscribe, Unsubscribe, Shutdown, Register, Join, Signal
    <3> QED BY <3>1, <3>2, FlowRests
  <2>2. CASE PutFull(t) \/ Evict(t) \/ CountDrop(t)
    BY <2>2, FlowRests DEF PutFull, Evict, CountDrop, history
  <2>3. CASE PutTimeout(t)
    <3>1. UNCHANGED <<accepted, issued>>
      BY <2>3 DEF PutTimeout
    <3>2. /\ event \in [Threads -> Events \cup {NoEvent}]
          /\ outcome \in [Events -> {"unpublished", "publishing", "returned", "raised"}]
          /\ issued \in [Threads -> Seq(Events)]
      BY DEF MailboxOK, TypeOK, DataOK, CallsOK
    <3>3. /\ \A u \in Threads : event'[u] = event[u] \/ event'[u] = NoEvent
          /\ \A d \in Events : outcome'[d] = outcome[d] \/ outcome'[d] = "raised"
      BY <2>3, <3>2 DEF PutTimeout, EndCall
    <3>4. LastIssued'
      BY <3>1, <3>3, SetsAssumption DEF FlowOK, LastIssued
    <3>5. IssuedPublished'
      BY <3>1, <3>2, <3>3 DEF FlowOK, IssuedPublished
    <3> QED BY <3>1, <3>4, <3>5, SMTT(30) DEF FlowOK, IssuedOnce, FlowsAccepted
  <2> QED BY <1>2, <2>1, <2>2, <2>3, PublishFlows, PutFlows DEF StartCall, ContinueCall
<1>3. ASSUME NEW s \in Subs, Consume(s) \/ Handle(s) PROVE FlowOK'
  BY <1>3, FlowRests
     DEF Consume, Handle, CheckStop, GetTimeout, Get, HandlerReturns, HandlerRaises, FinishHandling, threadVars, history
<1> QED BY <1>1, <1>2, <1>3 DEF Next

\* What leaves a queue is what entered it next.
LEMMA StepRemoved ==
  ASSUME MailboxOK, RemovedOK, [Next]_vars
  PROVE  RemovedOK'
<1>1. /\ accepted \in [Subs -> Seq(Events)] /\ popped \in [Subs -> Seq(Removals)]
      /\ queue \in [Subs -> Seq(Events)] /\ event \in [Threads -> Events \cup {NoEvent}]
  BY DEF MailboxOK, TypeOK, DataOK, CallsOK
<1>2. CASE UNCHANGED <<accepted, popped>>
  BY <1>2 DEF RemovedOK, Removed
<1>3. ASSUME NEW t \in Threads, Put(t) PROVE RemovedOK'
  <2>e. PICK e \in Events : e = event[t]
    BY <1>3 DEF MailboxOK, TypeOK, CallsOK, Put
  <2>1. popped' = popped /\ accepted' = [accepted EXCEPT ![Target(t)] = Append(@, e)]
    BY <1>3, <2>e DEF Put, Target
  <2>2. \A s \in Subs : \A k \in 1..Len(accepted[s]) : accepted'[s][k] = accepted[s][k]
    BY <1>1, <2>1
  <2>3. \A s \in Subs : Len(popped[s]) \in Nat /\ Len(accepted[s]) \in Nat /\ Len(popped[s]) <= Len(accepted[s])
    BY <1>1 DEF MailboxOK, QueuesOK, QueueOK
  <2>4. \A s \in Subs : \A k \in 1..Len(popped[s]) : accepted'[s][k] = accepted[s][k]
    BY <2>2, <2>3
  <2> QED BY <2>1, <2>4 DEF RemovedOK, Removed
<1>4. ASSUME NEW s \in Subs, NEW who, queue[s] # <<>>, accepted' = accepted,
             popped' = [popped EXCEPT ![s] = Append(@, [event |-> Head(queue[s]), by |-> who])]
      PROVE  RemovedOK'
  <2>p. PICK p \in Seq(Removals) : p = popped[s]
    BY <1>1
  <2>q. PICK q \in Seq(Events) : q = queue[s]
    BY <1>1
  <2>1. Head(q) = accepted[s][Len(p) + 1]
    <3>1. 1 \in 1..Len(q) /\ Head(q) = q[1]
      BY <1>4, <2>q
    <3> QED BY <2>p, <2>q, <3>1 DEF MailboxOK, QueuesOK, QueueOK
  <2>2. /\ Len(popped'[s]) = Len(p) + 1 /\ Len(p) \in Nat
        /\ popped'[s][Len(p) + 1].event = Head(q)
        /\ \A k \in 1..Len(p) : popped'[s][k] = p[k]
    <3>1. popped'[s] = Append(p, [event |-> Head(q), by |-> who])
      BY <1>1, <1>4, <2>p, <2>q
    <3>2. \A x : Len(Append(p, x)) = Len(p) + 1 /\ Append(p, x)[Len(p) + 1] = x /\ \A k \in 1..Len(p) : Append(p, x)[k] = p[k]
      OBVIOUS
    <3> QED BY <3>1, <3>2
  <2>3. \A k \in 1..Len(popped'[s]) : k \in 1..Len(p) \/ k = Len(p) + 1
    BY <2>2
  <2>4. Removed(s)'
    BY <1>4, <2>p, <2>1, <2>2, <2>3 DEF RemovedOK, Removed
  <2>5. \A u \in Subs \ {s} : popped'[u] = popped[u]
    BY <1>1, <1>4
  <2>6. \A u \in Subs \ {s} : Removed(u)'
    BY <1>4, <2>5 DEF RemovedOK, Removed
  <2> QED BY <2>4, <2>6 DEF RemovedOK
<1>5. CASE UNCHANGED vars
  BY <1>2, <1>5 DEF vars, history
<1>6. ASSUME NEW t \in Threads, StartCall(t) \/ ContinueCall(t) PROVE RemovedOK'
  <2>1. CASE Evict(t) /\ queue[Target(t)] # <<>>
    <3>1. Target(t) \in Subs
      BY <2>1, InCall DEF MailboxOK, TypeOK, Evict, Target
    <3> QED BY <1>4, <2>1, <3>1 DEF Evict, Target
  <2>2. CASE Put(t)
    BY <1>3, <2>2
  <2>3. CASE ~(Evict(t) /\ queue[Target(t)] # <<>>) /\ ~Put(t)
    <3>1. UNCHANGED <<accepted, popped>>
      BY <1>6, <2>3 DEF StartCall, ContinueCall, Subscribe, Unsubscribe, Shutdown, Publish, Register, Signal,
                        Join, PutTimeout, PutFull, Evict, CountDrop, Target, history
    <3> QED BY <1>2, <3>1
  <2> QED BY <2>1, <2>2, <2>3
<1>7. ASSUME NEW s \in Subs, Consume(s) \/ Handle(s) PROVE RemovedOK'
  <2>1. CASE Get(s)
    BY <1>4, <2>1 DEF Get
  <2>2. CASE ~Get(s)
    <3>1. UNCHANGED <<accepted, popped>>
      BY <1>7, <2>2 DEF Consume, Handle, CheckStop, GetTimeout, HandlerReturns, HandlerRaises, FinishHandling, history
    <3> QED BY <1>2, <3>1
  <2> QED BY <2>1, <2>2
<1> QED BY <1>5, <1>6, <1>7 DEF Next

LEMMA RemovedFirst ==
  ASSUME MailboxOK, NEW s \in Subs
  PROVE  \A n : n \in 1..Len(popped[s]) => n \in 1..Len(accepted[s])
<1>1. popped[s] \in Seq(Removals) /\ accepted[s] \in Seq(Events) /\ queue[s] \in Seq(Events)
  BY DEF MailboxOK, TypeOK, DataOK
<1>p. PICK p \in Nat : p = Len(popped[s])
  BY <1>1
<1>q. PICK q \in Nat : q = Len(queue[s])
  BY <1>1
<1>2. Len(accepted[s]) = p + q
  BY <1>p, <1>q DEF MailboxOK, QueuesOK, QueueOK
<1>3. \A n : n \in 1..p => n \in 1..(p + q)
  OBVIOUS
<1> QED BY <1>2, <1>3, <1>p

\* bus.py:119, docs/runtime/EVENT_BUS.md: whatever else the bus does, each handler
\* sees the events of one publishing thread in the order that thread published them.
THEOREM FlowsInOrder == Spec => []FlowsArriveInOrder
<1>1. Init => MailboxOK /\ FlowOK /\ RemovedOK
  <2> SUFFICES ASSUME Init PROVE MailboxOK /\ FlowOK /\ RemovedOK
    OBVIOUS
  <2>1. MailboxOK
    BY InitType, InitMailbox DEF MailboxOK
  <2>2. FlowOK
    BY SetsAssumption DEF Init, FlowOK, IssuedOnce, IssuedPublished, LastIssued, FlowsAccepted
  <2>3. RemovedOK
    BY DEF Init, RemovedOK, Removed
  <2> QED BY <2>1, <2>2, <2>3
<1>2. MailboxOK /\ FlowOK /\ RemovedOK /\ [Next]_vars => MailboxOK' /\ FlowOK' /\ RemovedOK'
  BY StepMailbox, StepFlows, StepRemoved
<1>3. MailboxOK /\ FlowOK /\ RemovedOK => FlowsArriveInOrder
  <2> SUFFICES ASSUME MailboxOK, FlowOK, RemovedOK, NEW s \in Subs, NEW t \in Threads,
                      NEW i \in 1..Len(issued[t]), NEW j \in 1..Len(issued[t]),
                      NEW k \in 1..Len(popped[s]), NEW l \in 1..Len(popped[s]),
                      k < l, Handed(s, k, issued[t][i]), Handed(s, l, issued[t][j])
               PROVE  i < j
    BY DEF FlowsArriveInOrder
  <2>1. \A n : n \in 1..Len(popped[s]) => n \in 1..Len(accepted[s])
    BY RemovedFirst
  <2>2. accepted[s][k] = issued[t][i] /\ accepted[s][l] = issued[t][j]
    BY DEF RemovedOK, Removed, Handed
  <2>3. k \in 1..Len(accepted[s]) /\ l \in 1..Len(accepted[s])
    BY <2>1
  <2> QED BY <2>2, <2>3 DEF FlowOK, FlowsAccepted
<1> QED BY <1>1, <1>2, <1>3, PTL DEF Spec

\* bus.py: each subscription is a mailbox, and the flows arrive in order.
THEOREM BusImplementsMailbox == Spec => ImplementsMailbox
BY EverySubscriptionIsAMailbox, FlowsInOrder, PTL DEF ImplementsMailbox
==============================================================================
