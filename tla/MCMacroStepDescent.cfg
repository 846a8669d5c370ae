SPECIFICATION Spec
CONSTANTS
  State <- MCState
  Root = "Root"
  Parent <- MCParent
  Pseudo = {"P", "R", "Q"}
  Value <- MCValue
  Event = {}
  None = None
  Exit = Exit
  Machine <- ReturningMachines
  HotStart = {}
PROPERTY
  CommitKeepsPromise
CHECK_DEADLOCK FALSE
