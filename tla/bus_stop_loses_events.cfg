SPECIFICATION Spec
CONSTANTS
  blocking = blocking
  dropping = dropping
  topic = topic
  DroppingQueueSize = 2
  NoEvent = NoEvent
  Subs = {blocking, dropping}
  Topics = {topic}
  SubTopic <- MCSubTopic
  EventTopic <- MCEventTopic
  OverflowPolicy <- MCOverflowPolicy
  QueueSize <- MCQueueSize
  Callers = {p1, c}
  Publishers = {p1}
  Controllers = {c}
  Events = {e1, e2}
INVARIANTS
  BlockedEventsAreNeverLost
