\* Three game connections in a row, two commands, fair closes.
CONSTANTS
  Sockets = {x1, x2, x3}
  Commands = {c1, c2}
  None = None
SPECIFICATION FairSpec
INVARIANTS
  LatestServed
  WaitersRemembered
PROPERTIES
  OneTrueAnswer
  ClosedLeaveNobodyWaiting
\* Connections and commands are finite: when all are used up the gateway idles.
CHECK_DEADLOCK FALSE
