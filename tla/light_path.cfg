SPECIFICATION PathSpec
CONSTANTS
  MaxSize = 20
  c1 = c1
  c2 = c2
  c3 = c3
  Conns = {c1, c2, c3}
  SelfConns = {}
  LightsConns = {c1, c2}
  NoConn = NoConn
  Services <- MCServices
  NoService = NoService
  Admiral = 0
  Laitt = 4
  Lights = 5
  StrictMode = TRUE
  ConnAddr <- MCConnAddr
  ServiceAddr <- MCServiceAddr
  EventCap = 1
  BadFrame = BadFrame
  Menu <- MCMenu
  Commands <- MCCommands
  MaxClients = 2
INVARIANTS PathTypeOK PublishedOnce
PROPERTIES CommandIsPublished LightsEnds
CHECK_DEADLOCK FALSE
