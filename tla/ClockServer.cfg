SPECIFICATION FairSpec
CONSTANTS
  Clients = {c1, c2}
  Requests <- AllRequests
  Width = 3
  MaxEntries = 2
INVARIANTS TypeOK BlockedSorted OnePlacePerCaller EntriesConserved
PROPERTIES NotEarly CallsReturn ShutdownCompletes
