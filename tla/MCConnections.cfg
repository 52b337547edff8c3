SPECIFICATION MCSpec
CONSTANTS
  TickMax = 1
  Setups = {"acceptor", "initiator"}
  CfgOf <- ChosenCfgs
  Inbound <- Peer
  MaxSeq = 3
  VetoesOf <- ChosenVetoes
  MaxOut = 3
  MaxConns = 2
  MaxFails = 1
  MaxCrashesOf <- ChosenCrashes
INVARIANTS NumbersFresh StoreAgrees 
PROPERTIES  DictionaryClosed
CHECK_DEADLOCK FALSE
