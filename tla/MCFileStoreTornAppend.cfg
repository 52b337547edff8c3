SPECIFICATION MCSpec
CONSTANTS
  Parts = {"file"}
  Msgs = {m1}
  MaxSeq = 2
  MaxAppends = 3
  MaxRecords = 0
  MaxCached = 1
  Legacies <- NoSeqnums
  MaxCrashes = 1
  MaxFaults = 1
  Backends = {"sql", "mssql", "mongo", "redb", "memory", "noop"}
  DbSids = {"a", "b"}
  MaxNumber = 2
  MaxOutOf <- MCMaxOutOf
  MaxInOf <- MCMaxInOf
  MaxDbTroubles = 1
  LogKinds = {"file", "sql", "mssql", "mongo", "redb"}
  Policies <- MCPolicies
  LogCap = 1
  MaxEntries = 4
  MaxLogTime = 2
  MaxLogTroubles = 1
INVARIANTS AppendsSurvive
CHECK_DEADLOCK FALSE
