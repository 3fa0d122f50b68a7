SPECIFICATION Spec
CONSTANTS
  call1 = call1
  call2 = call2
  c1 = c1
  c2 = c2
  k1 = k1
  None = None
  Calls = {call1, call2}
  Correlations = {k1}
  CorrelationOf <- OneKey
  Contents = {c1, c2}
  Invocations = {i1, i2}
  Ttl = 2
  AttachmentTtl = 1
  MaxTime = 2
SYMMETRY Symmetry
INVARIANTS
  PreparedIsKept
  DialedHasContext
  OneLiveReservation
  TypeOK
PROPERTY
  Contract
