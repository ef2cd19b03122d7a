SPECIFICATION Spec
CONSTANTS
  Snapshot = 3
  Gap = 1
  MinLength = 1
  MaxJobs = 3
  MaxTime = 4
  MaxBuilds = 2
  MaxLines = 7
  MaxArgs = 5
  MaxDiskLines = 4
  MaxDepth = 4
CHECK_DEADLOCK FALSE
INVARIANTS
  PathIsAChain
  EntriesMatchLog
  ArgsAreReadAsBazelDoes
  RepairAgreesWithSync
  KeptIffHolds
  StageTimesAreCovered
  MatchesAndLogsAgree
  ReportAgreesWithLogs
  OnePointPerInvocation
  PagesAreAsAsked
  DurationsAreOfJobsThatRan
  ClockErrorsDoNotLast

