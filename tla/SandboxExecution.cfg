CONSTANTS
  MAX_FILES = 2
  MAX_EDITS = 2
  MAX_CHECKS = 2
  MaxCommandTimeout = 100
  Requests <- SomeRequests
  MaxExecutions = 2
  MaxInstances = 1
  ExecutorToken = "token"
  Outputs <- SomeOutputs
  MaxLongLogs = 1
SPECIFICATION FairSpec
INVARIANTS
  TypeOK
  AcceptedPassIsReal
  GenuineAnswersAreAccepted
  CommandsSurviveTheShell
PROPERTIES
  WrittenRequestsAreAnswered
CHECK_DEADLOCK FALSE
