\* Two players; four joins, meetings, partings and failures in any mixture.
CONSTANTS
  Clients = {a, b}
  SessionIds = {1, 2, 3}
  Pcs = {1, 2, 3, 4}
  MAX_CONNECTIONS = 1
  MaxEvents = 4
SPECIFICATION FairSpec
INVARIANTS
  AwayIsSilent
  PeersRegistered
  NoGlare
PROPERTIES
  AnsweredConnect
  PartingEndsCalls
\* Everyone may leave for ever.
CHECK_DEADLOCK FALSE
