SPECIFICATION FairSpec
CONSTANTS
  Resources = {"cert", "host", "volume", "name", "vapi"}
  Attached = {"volume"}
  Vapi = {"vapi"}
  Named = {"name"}
  Tagged = {"cert", "host"}
  Lingering = {"volume", "vapi"}
  RecordNames = {"sip", "control"}
  Late = {"create"}
  SettleTicks = 2
  MaxRounds = 5
  MaxReruns = 2
INVARIANTS
  TypeOK
  SealedBeforeDelete
  CleanIsClean
  RecoveredIsClean
PROPERTY
  JournaledIsRecovered
CHECK_DEADLOCK FALSE
