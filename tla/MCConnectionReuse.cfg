SPECIFICATION Spec
CONSTANTS
  TickMax = 0
  Setups = {"acceptor"}
  CfgOf <- ChosenCfgs
  Inbound <- Peer
  MaxSeq = 2
  VetoesOf <- ChosenVetoes
  MaxOut = 3
  MaxConns = 2
  MaxFails = 0
  MaxCrashesOf <- OneCrash
INVARIANTS NumbersFreshAfterCrash
CHECK_DEADLOCK FALSE
