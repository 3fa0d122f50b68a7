SPECIFICATION Spec
CONSTANTS
  Sessions = {s1}
  Calls = {call1, call2}
  Contents = {c1, c2}
  Invocations = {i1, i2, i3}
  Ttl = 2
  Skew = 1
  MaxAttempts = 2
  MaxTime = 3
  None = None
SYMMETRY Symmetry
INVARIANTS
  MovedHasContext
  AcceptedWasMoved
  CleanStaysGone
  TypeOK
CHECK_DEADLOCK FALSE
