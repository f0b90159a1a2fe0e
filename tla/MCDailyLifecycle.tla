-------------------------- MODULE MCDailyLifecycle --------------------------
(* A small instance of DailyLifecycle for TLC.                              *)
EXTENDS DailyLifecycle

CONSTANTS d1, c1, e1, x1, w1, w2

\* All requests name the one daily.
AllFirst == [q \in Requests |-> d1]

\* Deadlines: the instant at which time starts.
AtStart == {0}
=============================================================================
