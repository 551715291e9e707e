SPECIFICATION LoopsSpec
CONSTANTS
  Slot <- FourSlots
  Packet <- MCPacket
  Time <- MCTime
  Header <- MCHeader
  Sig <- MCSig
  Body <- MCBody
  Root <- MCRoot
  Original <- MCOriginal
  Decodable <- MCDecodable
  NoShred = NoShred
  NoRoot = NoRoot
  MaxTrackedSlots = 3
  GapTimeout = 0
  ForwardSlotWatermark = FALSE
  PrefixSkip = 0
  MaxDeshredBytes = 8
  MaxBufferedShreds = 3
  MaxShredsPerFecSet = 8
  MaxIndex = 15
INVARIANT ClosedFormsAgree
CHECK_DEADLOCK FALSE
