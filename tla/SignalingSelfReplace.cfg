\* A client takes its own name over on its open connection.
CONSTANTS
  Players = {alice}
  SessionIds = {s1, s2}
  Sockets = {x1}
  None = None
  BadToken = BadToken
  RequirePlayerTokenAuth = FALSE
  ForceFlags = {TRUE, FALSE}
  JoinsPerSocket = 2
SPECIFICATION Spec
PROPERTIES
  JoinerStaysConnected
CHECK_DEADLOCK FALSE
