SPECIFICATION MCFairSpec
CONSTANTS
  Context = {src, a, b, c}
  Source = src
  First = a
  src = src
  a = a
  b = b
  c = c
  MaxOut = 2
  Limits = {2, 9}
CHECK_DEADLOCK FALSE
INVARIANTS
  TypeOK
  AcceptedIsViable
  RejectedIsHopeless
  VerdictIsHonest
PROPERTY
  Returns
