SPECIFICATION Spec
CONSTANTS
  router = router
  pump = pump
  p1 = p1
  key1 = key1
  key2 = key2
  key3 = key3
  nokey = nokey
  config = config
  foreign = foreign
  cpmm = cpmm
  Program <- MCProgram
  PumpFun = pump
  MaxInvocations = 4
  MaxLogEvents = 2
  Peer <- MCPeers
  BroadcastCapacity = 1
  MaxMessages = 3
  Migration <- MCMigration
  MaxBatch = 2
  DefaultKey = nokey
  Platform <- MCPlatform
  Cpmm = cpmm
  CalibrationInterval = 1
  MaxSkew = 1
  MaxTime = 3
  m1 = m1
  m2 = m2
  dev = dev
  other = other
  MaxInstructions = 4
  Key <- MCKey
  Instruction <- Alphabet
  BotWallets <- MCBotWallets
  U64Max = 3
  x = x
  y = y
  z = z
  n = n
  c1 = c1
  c2 = c2
  Idle = Idle
  Tx <- MCTx
  Unsigned <- MCUnsigned
  Call <- TwoCalls
  ChannelSize = 0
  DedupCapacity = 2
  MaxArrivals = 5
INVARIANTS
  ProcessorsAgree
  AmountsConserved
  CreatedTokenAnnounced
  DedupWindow
  FramesMatchExecution
  ErrorIsBounded
PROPERTIES
  AcceptedAreParsed
  SubscriptionEnds
  PeersServed
  ProvenanceIsStable
CHECK_DEADLOCK FALSE
