\* Two players join and meet.
CONSTANTS
  Clients = {a, b}
  SessionIds = {1, 2, 3}
  Pcs = {1, 2, 3, 4}
  MAX_CONNECTIONS = 1
  MaxEvents = 3
SPECIFICATION FairSpec
PROPERTIES
  NearbyConnect
CHECK_DEADLOCK FALSE
