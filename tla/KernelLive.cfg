SPECIFICATION FairSpec
CONSTANTS
  MaxTasks = 4
  NumPriorities = 2
  UserPriority = 0
  IdlePriority = 1
  CreatePriorities = {0}
  Lens = {1}
  AwaitedEvents = {"TIMER"}
  Bytes = {7}
  BootEnabled = {}
  Calls = {"Create", "AwaitEvent", "Send", "Receive", "Exit"}
  FreeReply = FALSE
PROPERTIES BestPriorityRuns TimerWaiterWakes QuietKernelStops
