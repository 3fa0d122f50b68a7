SPECIFICATION FairSpec
CONSTANTS
  None = None
  MaxObjects = 4
  MaxDeliveries = 2
  Lags = {TRUE, FALSE}
  Legacy = TRUE
  MaxEvents = 2
  Others = {"assistant", "credential", "tool"}
  Calms = TRUE
INVARIANTS
  TypeOK
  AtMostOne
  PromptNothingOutlives
  OnlyInertOutlive
  CompleteIsReady
PROPERTIES
  ForeignUntouched
  DeletionConverges
