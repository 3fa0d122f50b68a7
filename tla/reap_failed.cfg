SPECIFICATION Spec
CONSTANTS
  Resources = {"cert", "host"}
  Attached = {}
  Vapi = {}
  Named = {}
  Tagged = {"cert", "host"}
  Lingering = {}
  RecordNames = {"sip"}
  Late = {}
  SettleTicks = 2
  MaxRounds = 4
  MaxReruns = 0
INVARIANT FailedIsReaped
CHECK_DEADLOCK FALSE
