SPECIFICATION Spec
CONSTANTS
  Main = "main"
  None = "None"
  FileSystems <- MCFileSystems
INVARIANTS
  TypeOK
  BindingsAreSound
  AcceptsWhatIsSound
  NothingHalfImported
  MappedEventsArrive
