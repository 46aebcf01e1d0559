\* Two connections, one of them subscribing, under the fairness the thread
\* scheduler gives; the broker may refuse every connect and break any session.
CONSTANTS
  Jobs = {j1}
  NoJob = NoJob
  PoolSize = 2
  QueueSize = 1
  Filters = {f1}
SPECIFICATION FairSpec
PROPERTIES
  WorkersStop
  LostIsRetried
