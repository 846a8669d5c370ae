SPECIFICATION Spec
CONSTANTS
  Main = "main"
  None = "None"
  FileSystems <- MCFileSystems
INVARIANT EventsKeepTheirMeaning
