SPECIFICATION Spec
CONSTANTS
  Resources = {"cert", "host"}
  Attached = {}
  Vapi = {}
  Named = {}
  Tagged = {"cert", "host"}
  Lingering = {}
  RecordNames = {"sip"}
  Late = {"execute"}
  SettleTicks = 2
  MaxRounds = 4
  MaxReruns = 0
INVARIANT SealedBeforeDelete
CHECK_DEADLOCK FALSE
