\* One Expedition, two clicks on Launch, one failed request.
CONSTANTS
  t1 = t1  t2 = t2  s1 = s1  s2 = s2
  Trips = {t1}
  Submits = {s1, s2}
  MaxFaults = 1
SPECIFICATION FairSpec
INVARIANTS KnownFlightShown NoEarlyResult
PROPERTY EndIsNoticed
