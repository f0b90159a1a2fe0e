\* Two requests of one Player, racing or one after the cooldown, and one of
\* another Player; batches of two, a drain behind which rows stay, and liveness.
CONSTANTS
  l1 = l1  l2 = l2  l3 = l3  ann = ann  bob = bob  w1 = w1
  Launches = {l1, l2, l3}
  Players = {ann, bob}
  PlayerOf <- TwoOfAnn
  Workers = {w1}
  Length = 1
  Jitter = 0
  BatchSize = 2
  DrainSize = 2
  MaxTime = 5
  MaxFaults = 1
SPECIFICATION FairSpec
INVARIANTS OneInFlight CooldownKept SettledOnceAndPaid
PROPERTY EventuallySettled
\* Time is bounded: at its end everything may have happened.
CHECK_DEADLOCK FALSE
