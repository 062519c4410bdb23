\* One player with three challenges, tokens too short, long enough, and too long for a
\* timer; two faults.
CONSTANTS
  Players = {alice}
  Challenges = {c1, c2, c3}
  None = None
  Lifetimes = {2, 5, 11}
  MIN_REFRESH_DELAY = 1
  MIN_REFRESH_AHEAD = 3
  MAX_REFRESH_AHEAD = 4
  AheadShare = 2
  MaxTimeout = 6
  MaxFaults = 2
SPECIFICATION FairSpec
INVARIANTS
  NeverRejected
  WatchesFollow
  ReportsGenuine
PROPERTIES
  SaidIsConfirmed
  BridgeComesBack
