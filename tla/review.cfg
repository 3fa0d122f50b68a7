SPECIFICATION FairSpec
CONSTANTS
  Templates = {1, 2, 3}
  RootTemplate = 1
  Catalogs <- ThreeTemplates
  MaxDepth = 2
  MaxChanges = 2
INVARIANTS
  TypeOK
  PassedIsSealed
  RefusedIsNotSealed
PROPERTY
  ReviewEnds
CHECK_DEADLOCK FALSE
