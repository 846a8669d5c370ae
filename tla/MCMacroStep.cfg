SPECIFICATION FairSpec
CONSTANTS
  State <- MCState
  Root = "Root"
  Parent <- MCParent
  Pseudo = {"P", "R", "Q"}
  Value <- MCValue
  Event = {"Go"}
  None = None
  Exit = Exit
  Machine <- MCMachines
  HotStart = {"D", "P"}
INVARIANTS
  TypeOK
  StackIsPath
  RestsAtBoundary
  PlainBeforeOnce
PROPERTIES
  PublishesPromise
  TraceReplays
  CycleReturns
CHECK_DEADLOCK FALSE
