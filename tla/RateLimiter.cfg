CONSTANTS
  Identifiers = {alice, bob}
  WindowMs = 3
  MaxRequests = 2
  MaxTime = 6
SPECIFICATION Spec
SYMMETRY Symmetry
INVARIANTS
  WindowBound
  ResetAtExact
