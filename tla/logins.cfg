SPECIFICATION Spec
CONSTANTS
  i1 = i1
  i2 = i2
  t1 = t1
  t2 = t2
  t3 = t3
  n1 = n1
  n2 = n2
  n3 = n3
  n4 = n4
  NoInode = NoInode
  NoToken = NoToken
  Instances = {i1, i2}
  Tokens = {t1, t2, t3}
  Inodes = {n1, n2, n3, n4}
  Overlap = FALSE
SYMMETRY Symmetry
INVARIANTS
  LoginsDurable
