SPECIFICATION MCSpec
CONSTANTS
  n1 = n1  n2 = n2  n3 = n3  n4 = n4
  Nodes <- MCNodes
  Queues <- MCQueues
  Uses <- MCUses
  Null = Null
  Data = {0, 1}
  Size = 4
  MaxPut = 4
  NULL = NULL
SYMMETRY Symmetry
INVARIANTS WellFormed
PROPERTIES ImplementsDeques ImplementsBoundedFIFO
