CONSTANTS
  NoRun = NoRun
  MaxChanges = 3
  MaxDirects = 1
  MaxFailures = 1
  MaxRefused = 1
  MaxLogouts = 1
SPECIFICATION FairSpec
INVARIANTS TypeOK SuccessIsEarned
PROPERTIES AddedSurvivesLogout ImplementsOutbox TriggeredChangesArrive
CHECK_DEADLOCK FALSE
