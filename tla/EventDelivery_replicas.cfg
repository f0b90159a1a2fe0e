\* Two drainers of one outbox in batches of two; a subscriber with two replicas,
\* whose queue is declared late, and one with a single replica.
CONSTANTS
  e1 = e1  e2 = e2  ship = ship  expedition = expedition
  d1 = d1  d2 = d2  c1 = c1  c2 = c2  c3 = c3
  NoEvent = NoEvent
  Events = {e1, e2}
  Services = {ship, expedition}
  InitiallyBound = {expedition}
  Subscribers <- OneEach
  Drainers = {d1, d2}
  Consumers = {c1, c2, c3}
  ServiceOf <- ShipTwice
  MaxRows = 2
  MaxFaults = 1
  MaxReplays = 1
SPECIFICATION FairSpec
INVARIANTS EffectsMatchProcessed PublishedWasRouted NothingDropped DuplicatesOnlyByFault
PROPERTIES ImplementsContract EventuallySettled
\* The events are finitely many: when all are settled the system rests.
CHECK_DEADLOCK FALSE
