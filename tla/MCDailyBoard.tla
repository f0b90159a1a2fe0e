----------------------------- MODULE MCDailyBoard -----------------------------
EXTENDS DailyBoard, TLC

CONSTANTS d1, d2, c1, c2

DailySymmetry == Permutations(Dailies) \cup Permutations(Commands)
=============================================================================
