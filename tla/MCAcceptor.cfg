SPECIFICATION MCSpec
CONSTANTS
  Peers <- MCPeers
  Sids <- MCSids
  Listeners <- MCListeners
  SingleOf <- MCSingleOf
  StaticOf <- MCStaticOf
  StoreOf <- MCStoreOf
  TemplateOf <- MCTemplateOf
  TemplateStoreOf <- MCTemplateStoreOf
  TlsOf <- MCTlsOf
  TlsTimeoutOf <- MCTlsTimeoutOf
  AllowedOf <- MCAllowedOf
  ViaProxy = {"c2"}
  MaxPanics = 1
  Readers <- MCReaders
  StreamsOf <- MCStreamsOf
  AppCapOf <- MCAppCapOf
  BinaryOf <- MCBinaryOf
  AdminCap = 1
  Chunk = 5
  MaxHookFails = 1
  PeekBuf = 2
  MaxLen = 5
  MaxBytes = 7
  Configurations <- MCConfigurations
INVARIANTS RegistryCorrect WireOrder  HeaderTaken
PROPERTIES WaitsEnd 
CHECK_DEADLOCK FALSE
