SPECIFICATION Spec
CONSTANTS
  State <- MCState
  Root = "Root"
  Parent <- MCParent
  Pseudo = {"P", "R", "Q"}
  Value <- MCValue
  Event = {}
  None = None
  Exit = Exit
  Machine <- PoliteMachines
  HotStart = {}
PROPERTY
  DeltaIsHopeless
CHECK_DEADLOCK FALSE
