SPECIFICATION FairSpec
CONSTANTS
  Registries <- MCRegistries
  Prereq <- MCPrereq
  Required <- MCRequired
  Capability = {"capability"}
  SkipOnWarn = {"render", "late"}
  ExplicitSkip = {"right"}
  Local = {"meta"}
  Registry = "registry"
  Infrastructure = "infrastructure"
  ReportWrite = "report_write"
  Report = TRUE
  FailOnWarn = TRUE
  Streaming = TRUE
  InterruptAt = {"reserving"}
  FaultAt = {}
INVARIANT
  OneRowPerCheck
CHECK_DEADLOCK FALSE
