CONSTANTS
  Configs <- SomeConfigs
  MaxFailures = 2
SPECIFICATION FairSpec
INVARIANTS TypeOK CalledWithDevice CleanRunSurvives NothingLeft
 
CHECK_DEADLOCK FALSE
