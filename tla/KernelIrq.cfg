SPECIFICATION Spec
CONSTANTS
  MaxTasks = 4
  NumPriorities = 4
  UserPriority = 0
  IdlePriority = 2
  CreatePriorities = {0, 3, 4}
  Lens = {1}
  AwaitedEvents = {"TIMER", "UART1_MS", "UART1_RX", "UART2_TX", "BAD"}
  Bytes = {7}
  BootEnabled = {"UART1_RT", "OTHER"}
  Calls = {"Create", "AwaitEvent", "MyTid", "MyParentTid", "Pass", "Exit", "Panic", "Quit"}
  FreeReply = FALSE
INVARIANTS BitmapExact NoneForgotten EnabledWhileAwaited
  StopsOnlyWhenQuiet
