\* The user service, two others, a worker and Vite; two signals and a --down.
CONSTANTS
  User = "user"
  Services = {"daily", "ship"}
  Others = {"cron", "vite"}
  Vite = "vite"
  Shells = {"vite"}
  Signals = {"int", "term"}
SPECIFICATION FairSpec
INVARIANTS NoneSurvivesTheStop LivingAreRecorded
PROPERTY EndsClean
\* One run of the supervisor: it ends.
CHECK_DEADLOCK FALSE
