----------------------------- MODULE MC_EventBus -----------------------------
(* Small instances of the event bus: a BLOCK and a DROP_OLDEST subscription *)
(* with small queues, bound to the same topic.                                *)
EXTENDS EventBus, TLC

CONSTANTS
  blocking, dropping, \* the two subscriptions
  topic,              \* the one event type
  DroppingQueueSize   \* the queue of the DROP_OLDEST one

MCSubTopic == [s \in Subs |-> topic]
MCEventTopic == [e \in Events |-> topic]
MCOverflowPolicy ==
  [s \in Subs |-> IF s = blocking THEN "BLOCK" ELSE "DROP_OLDEST"]
MCQueueSize == [s \in Subs |-> IF s = blocking THEN 1 ELSE DroppingQueueSize]

\* Publishers that call nothing else, and events, are interchangeable.
PublisherSymmetry ==
  Permutations(Events) \cup Permutations(Publishers \ (Controllers \cup Subs))
==============================================================================
