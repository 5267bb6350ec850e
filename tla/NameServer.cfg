SPECIFICATION FairSpec
CONSTANTS
  Clients <- MCClients
  Programs <- MCPrograms
  Priority <- MCPriority
  Names <- MCNames
  MaxNameLen = 2
  MaxNames = 3
  MaxCalls = 2
INVARIANTS OneMessagePerCaller
PROPERTIES ImplementsRegistry WhoIsReturns
