SPECIFICATION HSpec
CONSTANTS
  Slot <- LongSlot
  Packet <- LongPacket
  Time <- LongTime
  Header <- MCHeader
  Sig <- MCSig
  Body <- MCBody
  Root <- MCRoot
  Original <- LongOriginal
  Decodable <- LongDecodable
  NoShred = NoShred
  NoRoot = NoRoot
  MaxTrackedSlots = 2
  GapTimeout = 0
  ForwardSlotWatermark = TRUE
  PrefixSkip = 0
  MaxDeshredBytes = 8
  MaxBufferedShreds = 100
  MaxShredsPerFecSet = 8
  MaxIndex = 15
INVARIANTS
  EverySufficientSetIsRecovered
PROPERTIES
  DeliveryAdvances
  EmissionGoesForward
