SPECIFICATION Spec
CONSTANTS
  TickMax = 0
  MaxSeq = 3
  Setups = {"invalid_reset"}
  CfgOf <- ChosenCfgs
  InboundOf <- ChosenPeers
  MaxOutOf <- ChosenBounds
INVARIANTS QueueAhead
CHECK_DEADLOCK FALSE
