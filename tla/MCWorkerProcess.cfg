SPECIFICATION FairSpec
CONSTANTS
  Leader = leader
  Descendant = {d1, d2}
  d1 = d1
  d2 = d2
  Platforms = {"posix", "nt"}
  InterruptAt <- MCAnywhereElse
INVARIANTS
  TypeOK
  NothingLeftRunning
  NothingLeftBehind
  VerdictIsEarned
PROPERTY
  Returns
CHECK_DEADLOCK FALSE
