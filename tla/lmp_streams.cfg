SPECIFICATION StreamSpec
CONSTANTS
  MaxSize = 12
  BufferSize = 12
  MaxSends = 3
  Packets <- MCPackets
  CPackets <- MCCPackets
INVARIANTS TypeOK NeverOversize OnlyFullPacketsAreTooLarge
PROPERTIES PacketsAreFifo
CHECK_DEADLOCK FALSE
