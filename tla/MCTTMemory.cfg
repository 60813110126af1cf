SPECIFICATION MemorySpec
CONSTANTS
  MB = 2
  TwoMB = 4
  EntrySize = 2
  Keys = 8
  MaxHash = 5
  MaxThreads = 3
INVARIANTS
  TableReady
  SlicesExact
  IndexInTable
