CONSTANTS
  Threads = {t1, t2}
  Names = {n1}
  Values = {2}
  Absent = Absent
  Precision = 2
  Inodes = {i1, i2, i3, i4}
  NoInode = NoInode
SPECIFICATION Spec
INVARIANTS
  CrashLeavesLoadable
