\* Two tabs, a login, a rotation and one that fails; one fault or closed tab.
CONSTANTS
  a = a  b = b
  Tabs = {a, b}
  MaxLogins = 1
  MaxRotations = 2
  MaxFaults = 1
SPECIFICATION FairSpec
INVARIANTS PresentedFresh EndedStaysEnded ProtectedOnlyInSession
PROPERTY EveryWaitEnds
\* Bounds: when they are reached and every tab is closed only opening remains.
CHECK_DEADLOCK FALSE
