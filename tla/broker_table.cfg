SPECIFICATION Spec
CONSTANTS
  MaxSize = 20
  c1 = c1
  c2 = c2
  c3 = c3
  self = self
  Conns = {c1, c2, c3}
  SelfConns = {}
  NoConn = NoConn
  Services <- MCServices
  NoService = NoService
  Admiral = 0
  StrictMode = TRUE
  ConnAddr <- MCStrictConnAddr
  ServiceAddr <- MCServiceAddr
  EventCap = 1
  BadFrame = BadFrame
  Menu <- MCTableMenu
INVARIANTS TypeOK TableMatchesServers HandedOnInOrder
CHECK_DEADLOCK FALSE
