SPECIFICATION Spec
CONSTANTS
  MaxSize = 20
  c1 = c1
  c2 = c2
  c3 = c3
  self = self
  Conns = {c1, c2}
  SelfConns = {}
  NoConn = NoConn
  Services <- MCServices
  NoService = NoService
  Admiral = 0
  StrictMode = FALSE
  ConnAddr <- MCConnAddr
  ServiceAddr <- MCServiceAddr
  EventCap = 1
  BadFrame = BadFrame
  Menu <- MCRouteMenu
INVARIANTS RoutedToDestination
CHECK_DEADLOCK FALSE
