SPECIFICATION FairSpec
CONSTANTS
  Registries <- MCRegistries
  Prereq <- MCPrereq
  Required <- MCRequired
  Capability = {"capability"}
  SkipOnWarn = {"render", "late"}
  ExplicitSkip = {"right"}
  Local = {"meta"}
  Registry = "registry"
  Infrastructure = "infrastructure"
  ReportWrite = "report_write"
  Report = TRUE
  FailOnWarn = TRUE
  Streaming = TRUE
  InterruptAt <- MCAllButReserving
  FaultAt = {"select", "plan", "environment", "progress", "faulted", "shown", "emit"}
INVARIANTS
  TypeOK
  EveryCheckReported
  OneRowPerCheck
  RanOnGoodGround
  BlockedForAReason
  OutputsAgree
PROPERTIES
  Terminates
  KeepsContract
CHECK_DEADLOCK FALSE
