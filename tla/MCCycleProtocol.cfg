SPECIFICATION FairSpec
CONSTANTS
  Boundary = {b1, b2}
  b1 = b1
  b2 = b2
  Ended = Ended
  N = 3
  Length <- MCLength
  End <- MCEnds
  NoSample = NoSample
  Override = Override
  Unlimited = Unlimited
  Sizes <- MCSizes
  ErrorModes = {"raise", "log"}
  Interruptible = {"reading", "committing"}
  MaxCycles = 3
  MaxErrors = 1
INVARIANTS
  TypeOK
  Lockstep
  HistoryIsRecent
PROPERTIES
  Atomic
  CycleReturns
CHECK_DEADLOCK FALSE
