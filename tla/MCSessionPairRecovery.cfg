SPECIFICATION FairSpec
CONSTANTS
  TickMax = 1
  Setups = {"leaving", "chunks"}
  CfgsOf <- ChosenCfgs
  BoundsOf <- ChosenRecoveryBounds
PROPERTY RecoveryCompletes
CHECK_DEADLOCK FALSE
