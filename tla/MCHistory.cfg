SPECIFICATION Spec
CONSTANTS
  State = {"R", "I", "O", "A", "C", "D", "E", "Q"}
  Root = "R"
  Pseudo = {"Q"}
  parent <- MCParent
  below <- MCBelow
  ids <- MCIds
  Machines <- MCMachines
  None = "None"
  Exit = "Exit"
INVARIANTS
  TypeOK
  GotoIsOver
  RecordsAreTrue
  SameChoices
PROPERTY
  KeepsHistory
CHECK_DEADLOCK FALSE
