\* The queue in both modes, over ':memory:' and over a database file, with a crash
\* between any two statements and a reset. It may stop: a crash can leave the only
\* order without its gid. No symmetry: one property is a liveness property.
CONSTANTS
  s1 = s1
  s2 = s2
  s3 = s3
  None = None
  Orders = {o1}
  Handlers = {h1, h2}
  Subscribers = {s1, s2, s3}
  TopicOf <- TopicAssignment
  MaxCrashes = 1
  MaxResets = 1
SPECIFICATION FairSpec
CHECK_DEADLOCK FALSE
INVARIANTS
  FulfilledOnce
  ChangesAnnounced
PROPERTIES
  
  MutationsEnd
