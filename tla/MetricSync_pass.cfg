\* Five changes by two clients over two connections; 3 is published as 2.
CONSTANTS
  Threads = {t1, t2}
  Conns = {c1, c2}
  Values = {2, 3}
  Absent = Absent
  Precision = 2
  QueueSize = 2
  MaxChanges = 5
SYMMETRY Symmetry
SPECIFICATION Spec
INVARIANTS
  TypeOK
  StoreFollowsBroker
