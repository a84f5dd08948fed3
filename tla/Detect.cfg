SPECIFICATION FairSpec
CONSTANTS
  FileCount = 4
  PoolSize = 3
  None = None
  MaySpawnFail = TRUE
  MayCrash = TRUE
INVARIANTS TypeOK PoolConserved FileOnce ListComplete
PROPERTIES KeepsSurvey ToldWhenPoolFull
CHECK_DEADLOCK FALSE
