SPECIFICATION Spec
CONSTANTS
  blocking = blocking
  dropping = dropping
  topic = topic
  DroppingQueueSize = 1
  NoEvent = NoEvent
  Subs = {blocking, dropping}
  Topics = {topic}
  SubTopic <- MCSubTopic
  EventTopic <- MCEventTopic
  OverflowPolicy <- MCOverflowPolicy
  QueueSize <- MCQueueSize
  Callers = {p1, c}
  Publishers = {p1, blocking}
  Controllers = {c}
  Events = {e1, e2, e3}
SYMMETRY PublisherSymmetry
INVARIANTS
  StatsAccountForEveryEvent
  PublishReportsWhatItDid
PROPERTIES
  ImplementsMailbox
