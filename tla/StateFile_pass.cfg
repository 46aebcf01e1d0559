\* Two threads change and save the store, and their saves may overlap.
\* 3 is written as 2: it has more digits than format_double() keeps.
CONSTANTS
  Threads = {t1, t2}
  Names = {n1}
  Values = {2, 3}
  Absent = Absent
  Precision = 2
  Inodes = {i1, i2, i3, i4}
  NoInode = NoInode
SYMMETRY Symmetry
SPECIFICATION Spec
INVARIANTS
  TypeOK
  LoneSavesHeal
  FileIsCurrent
PROPERTIES
  SaveIsAtomic
