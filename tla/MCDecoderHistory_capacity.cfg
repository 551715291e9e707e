SPECIFICATION HSpec
CONSTANTS
  Slot <- PairSlot
  Packet <- PairPacket
  Time <- OneInstant
  Header <- MCHeader
  Sig <- MCSig
  Body <- MCBody
  Root <- MCRoot
  Original <- PairOriginal
  Decodable <- PairDecodable
  NoShred = NoShred
  NoRoot = NoRoot
  MaxTrackedSlots = 2
  GapTimeout = 1
  ForwardSlotWatermark = FALSE
  PrefixSkip = 0
  MaxDeshredBytes = 8
  MaxBufferedShreds = 100
  MaxShredsPerFecSet = 8
  MaxIndex = 15
PROPERTIES
  IncompleteSlotsKept
