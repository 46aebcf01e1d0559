\* One client after another, one connection, and values format_double() keeps.
CONSTANTS
  Threads = {t1}
  Conns = {c1}
  Values = {2, 4}
  Absent = Absent
  Precision = 2
  QueueSize = 2
  MaxChanges = 2
SPECIFICATION Spec
PROPERTIES
  EchoChangesNothing
