SPECIFICATION FairSpec
CONSTANTS
  blocking = blocking
  dropping = dropping
  topic = topic
  DroppingQueueSize = 1
  NoEvent = NoEvent
  Subs = {blocking, dropping}
  Topics = {topic}
  SubTopic <- MCSubTopic
  EventTopic <- MCEventTopic
  OverflowPolicy <- MCOverflowPolicy
  QueueSize <- MCQueueSize
  Callers = {c}
  Publishers = {c}
  Controllers = {c, blocking, dropping}
  Events = {e1, e2}
INVARIANTS
  TypeOK
  RoutedSubscriptionsAreLive
PROPERTIES
  EveryCallEnds
  QueuesDrain
