SPECIFICATION GoSpec
CONSTANTS
  MaxSize = 20
  s2conn = s2conn
  gibsonconn = gibsonconn
  Clients = {s2conn, gibsonconn}
  S2Conn = s2conn
  GibsonConn = gibsonconn
  r1 = r1
  r2 = r2
  Requests = {r1, r2}
  noon = noon
  midnight = midnight
  Times = {noon, midnight}
  Entries <- MCEntries
  GuestList <- MCGuestList
  Bodies <- MCBodies
  ReceptionId = 1
  GibsonId = 3
  MaxHeard = 2
INVARIANTS GoTypeOK NoFalseRefusal AllPacketsSerialize ListenFailureIsReported
PROPERTIES SignalEndsS2 SignalEndsAdmiral RequestsAreAnswered
CHECK_DEADLOCK FALSE
