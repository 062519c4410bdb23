\* Clients that may join again on an open connection, without player tokens.
CONSTANTS
  Players = {alice, bob}
  SessionIds = {s1, s2, s3, s4}
  Sockets = {x1, x2, x3, x4}
  None = None
  BadToken = BadToken
  RequirePlayerTokenAuth = FALSE
  ForceFlags = {TRUE, FALSE}
  JoinsPerSocket = 3
SPECIFICATION Spec
SYMMETRY Symmetry
INVARIANTS
  IndexesAgree
  OneSessionPerPlayer
  RoutesAgree
  SendersOnline
PROPERTIES
  TakeoverDropsOldConnection
  ConnectedKeepsSession
\* Connections and session ids are finite: when all are used up the server idles.
CHECK_DEADLOCK FALSE
