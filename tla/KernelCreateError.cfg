SPECIFICATION Spec
CONSTANTS
  MaxTasks = 3
  NumPriorities = 3
  UserPriority = 0
  IdlePriority = 2
  CreatePriorities = {0, 1, 3}
  Lens = {1}
  AwaitedEvents = {"TIMER"}
  Bytes = {7}
  BootEnabled = {}
  Calls = {"Create"}
  FreeReply = FALSE
INVARIANTS BestReadyTaskRuns
