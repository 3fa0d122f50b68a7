SPECIFICATION FairSpec
CONSTANTS
  SipSmoke = TRUE
  Flickers = {TRUE, FALSE}
  MaxReruns = 2
  MaxAttempts = 2
INVARIANTS
  TypeOK
  CleanIsClean
  PostsOntoNothing
  WriteAhead
  NothingDangles
PROPERTY
  WholeIsRecovered
CHECK_DEADLOCK FALSE
