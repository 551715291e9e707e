SPECIFICATION Spec
CONSTANTS
  Slot <- SlotsSlot
  Packet <- SlotsPacket
  Time <- SlotsTime
  Header <- MCHeader
  Sig <- MCSig
  Body <- MCBody
  Root <- MCRoot
  Original <- SlotsOriginal
  Decodable <- SlotsDecodable
  NoShred = NoShred
  NoRoot = NoRoot
  MaxTrackedSlots = 2
  GapTimeout = 1
  ForwardSlotWatermark = FALSE
  PrefixSkip = 0
  MaxDeshredBytes = 8
  MaxBufferedShreds = 3
  MaxShredsPerFecSet = 8
  MaxIndex = 15
INVARIANTS
  BufferedCount
  WithinLimits
PROPERTIES
  ImplementsOrderedDelivery
