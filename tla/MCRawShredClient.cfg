SPECIFICATION ClientSpec
CONSTANTS
  Slot <- MCSlot
  Packet <- MCPacket
  Time <- MCTime
  Header <- MCHeader
  Sig <- MCSig
  Body <- MCBody
  Root <- MCRoot
  Original <- MCOriginal
  Decodable <- MCDecodable
  NoShred = NoShred
  NoRoot = NoRoot
  MaxTrackedSlots = 2
  GapTimeout = 2
  ForwardSlotWatermark = FALSE
  PrefixSkip = 0
  MaxDeshredBytes = 8
  MaxBufferedShreds = 8
  MaxShredsPerFecSet = 8
  MaxIndex = 15
  SocketCapacity = 2
  MaxDatagramsPerPoll = 2
PROPERTIES
  StaleSlotsLeave
  DatagramsAreRead
  TicksTakeTheSilent
