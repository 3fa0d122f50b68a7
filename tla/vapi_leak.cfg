SPECIFICATION Spec
CONSTANTS
  None = None
  MaxObjects = 6
  MaxDeliveries = 1
  Lags = {TRUE}
  Legacy = FALSE
  MaxEvents = 1
  Others = {}
  Calms = FALSE
INVARIANT
  NothingOutlives
