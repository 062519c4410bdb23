\* Two players; a third session id for takeovers.
CONSTANTS
  Players = {alice, bob}
  SessionIds = {s1, s2, s3}
  Sockets = {x1}
  None = None
  Positions <- MCPositions
  Dims = {overworld, nether}
  OutOfRange = OutOfRange
  CallRadius = 2
  PlayerTtl = 1
  TickMs = 1
  MaxLag = 1
SPECIFICATION FairSpec
INVARIANTS
  MutualNeighbours
  FreshNeighbours
PROPERTIES
  TickMatchesPresence
  NearAreListed
  PartedAreDropped
