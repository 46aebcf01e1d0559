\* Two connections, two calls, a queue of one: the queue fills, and two
\* workers race for the jobs and for the shutdown.
CONSTANTS
  Jobs = {j1, j2}
  NoJob = NoJob
  PoolSize = 2
  QueueSize = 1
  Filters = {}
SYMMETRY Symmetry
SPECIFICATION Spec
INVARIANTS
  TypeOK
  OkMeansAcknowledged
  RefusedMeansNeverPublished
  NothingLeftBehind
  PoolInv
  CountersAccountForJobs
PROPERTIES
  PublishedOnce
  OutcomeIsFinal
