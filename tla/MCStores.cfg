SPECIFICATION MCSpec
CONSTANTS
  Parts = {"file", "database", "log"}
  Msgs = {m1, m2}
  MaxSeq = 2
  MaxAppends = 3
  MaxRecords = 1
  MaxCached = 1
  Legacies <- NoOrOldSeqnums
  MaxCrashes = 1
  MaxFaults = 2
  Backends = {"sql", "mssql", "mongo", "redb", "memory", "noop"}
  DbSids = {"a", "b"}
  MaxNumber = 2
  MaxOutOf <- MCMaxOutOf
  MaxInOf <- MCMaxInOf
  MaxDbTroubles = 1
  LogKinds = {"file", "sql", "mssql", "mongo", "redb"}
  Policies <- MCPolicies
  LogCap = 1
  MaxEntries = 4
  MaxLogTime = 2
  MaxLogTroubles = 1
SYMMETRY BodySymmetry
INVARIANTS  NumbersKept DbKeeps 
PROPERTIES ImplementsMessageStore
CHECK_DEADLOCK FALSE
