SPECIFICATION MCSpec
CONSTANTS
  TickMax = 1
  Setups = {"plain", "leaving", "expect", "chunks"}
  RestCallers = {"a", "b"}
  RestPrograms <- MCRestPrograms
  MaxClock = 4
  Kinds = {"public", "private", "business"}
  Keys = {"x", "y"}
  MAX_IN_FLIGHT = 1
  HEARTBEAT_INTERVAL = 2
  StreamBounds <- MCStreamBounds
  CfgsOf <- ChosenCfgs
  BoundsOf <- ChosenBounds
INVARIANTS DeliveryExact QuietMeansInSync RestHonest   
PROPERTIES IsReliable 
CHECK_DEADLOCK FALSE
