\* Clients that join once per connection, with player tokens required, and fair
\* heartbeats.
CONSTANTS
  Players = {alice, bob}
  SessionIds = {s1, s2, s3}
  Sockets = {x1, x2, x3}
  None = None
  BadToken = BadToken
  RequirePlayerTokenAuth = TRUE
  ForceFlags = {TRUE, FALSE}
  JoinsPerSocket = 1
SPECIFICATION FairSpec
INVARIANTS
  NoGhostSession
  OneIdentity
  SignalsReachAddressee
PROPERTIES
  TakeoverSparesOthers
  ImplementsRegistry
  LostPlayersLeave
\* Connections and session ids are finite: when all are used up the server idles.
CHECK_DEADLOCK FALSE
