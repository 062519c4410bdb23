\* A client joins a second time, under another name, on its open connection.
CONSTANTS
  Players = {alice, bob}
  SessionIds = {s1, s2}
  Sockets = {x1}
  None = None
  BadToken = BadToken
  RequirePlayerTokenAuth = FALSE
  ForceFlags = {FALSE}
  JoinsPerSocket = 2
SPECIFICATION Spec
INVARIANTS
  NoGhostSession
CHECK_DEADLOCK FALSE
