SPECIFICATION Spec
CONSTANTS
  TickMax = 1
  Setups = {"plain"}
  CfgsOf <- ChosenCfgs
  BoundsOf <- ChosenBounds
INVARIANT NobodyThrownOut
CHECK_DEADLOCK FALSE
