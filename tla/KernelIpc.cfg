SPECIFICATION Spec
CONSTANTS
  MaxTasks = 4
  NumPriorities = 3
  UserPriority = 1
  IdlePriority = 2
  CreatePriorities = {0}
  Lens = {1, 2}
  AwaitedEvents = {"TIMER"}
  Bytes = {7}
  BootEnabled = {}
  Calls = {"Create", "Send", "Receive", "Reply"}
  FreeReply = FALSE
INVARIANTS TypeOK NodesLinkedOnce QueuesMatchState NoneForgotten
  NoSleepingReceiver ReceiveReturnsSender HighestPriorityRuns
PROPERTIES SendBlocksUntilReply
