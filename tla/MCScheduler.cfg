SPECIFICATION Spec
CONSTANTS
  t0 = t0  t1 = t1  t2 = t2  t3 = t3  t4 = t4  t5 = t5  t6 = t6
  Tasks <- MCTasks
  Priority <- MCPriority
  NoTask = NoTask
INVARIANTS BitmapExact
PROPERTIES ImplementsPriorityFIFO
