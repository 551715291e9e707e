SPECIFICATION Spec
CONSTANTS
  Slot <- FecSlot
  Packet <- FecPacket
  Time <- FecTime
  Header <- MCHeader
  Sig <- MCSig
  Body <- MCBody
  Root <- MCRoot
  Original <- FecOriginal
  Decodable <- FecDecodable
  NoShred = NoShred
  NoRoot = NoRoot
  MaxTrackedSlots = 1
  GapTimeout = 0
  ForwardSlotWatermark = FALSE
  PrefixSkip = 0
  MaxDeshredBytes = 3
  MaxBufferedShreds = 100
  MaxShredsPerFecSet = 8
  MaxIndex = 7
INVARIANTS
  HeldIsLive
  
  NothingReadyIsHeld
  NoRecoveryPending
  SuppressedRecoveryWouldFail
PROPERTIES
  CursorMonotone
  FirstShredWins
