SPECIFICATION MCSpec
CONSTANTS
  TickMax = 0
  MaxSeq = 3
  Setups = {"acceptor", "initiator", "strict", "lenient"}
  CfgOf <- ChosenCfgs
  InboundOf <- ChosenPeers
  MaxOutOf <- ChosenBounds
INVARIANTS NoSilentSkip QueueAhead StoreBelowOut ReplayIsGapless
PROPERTIES NumbersMove  VerdictsAgree
CHECK_DEADLOCK FALSE
