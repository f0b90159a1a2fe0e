\* An event of every kind that changes a ship, around two repairs: any four of
\* these begin, with a failure and a replay among them; every transaction ends.
CONSTANTS
  created = created  completed = completed  launched = launched
  landed = landed  failed = failed  missed = missed  r1 = r1  r2 = r2
  NoTx = NoTx
  Deliveries = {created, completed, landed, launched, missed}
  Repairs = {r1, r2}
  Kind <- EachKind
  Amount <- EachAmount
  FullHull = 2
  RollMin = 1
  RollMax = 2
  MaxBegins = 4
  MaxFaults = 1
  MaxReplays = 1
SPECIFICATION FairSpec
INVARIANTS MaterialsConserved LatestStateAnnounced
PROPERTIES RepairNeverDamages EveryoneServed
\* The deliveries and requests are finitely many: the system rests when all ended.
CHECK_DEADLOCK FALSE
