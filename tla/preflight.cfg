SPECIFICATION FairSpec
CONSTANTS
  MaxFaults = 3
INVARIANTS
  TypeOK
  PassedIsRestored
  KeptIsQuiet
  BackupIsKept
PROPERTY
  FaultFreePasses
CHECK_DEADLOCK FALSE
