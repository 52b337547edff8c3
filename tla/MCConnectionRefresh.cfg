SPECIFICATION Spec
CONSTANTS
  TickMax = 0
  Setups = {"refresh"}
  CfgOf <- ChosenCfgs
  Inbound <- Peer
  MaxSeq = 2
  VetoesOf <- ChosenVetoes
  MaxOut = 3
  MaxConns = 1
  MaxFails = 0
  MaxCrashesOf <- ChosenCrashes
INVARIANTS NumbersFresh
CHECK_DEADLOCK FALSE
