------------------------- MODULE DevSupervisorProofs -------------------------
(* Proofs about DevSupervisor, for any services, workers and signals.        *)
EXTENDS DevSupervisor, TLAPS

\* A leader lives only while its child is in the supervisor's map.
LeadersInMap == \A c \in Children : LeaderLives(c) => c \in children

\* Members without a leader have been left behind by one that ended of itself.
GroupsLed == \A c \in Children : MembersLive(c) => LeaderLives(c) \/ orphaned[c] # "no"

\* dev() stops its children last, and then starts none.
StoppedLast ==
  /\ stop["main"] = "sleeping" => main \in {"stopping", "dead"}
  /\ stop["main"] = "done" => main \in {"done", "failed", "dead"} /\ children = {}

\* What is in the map, or was when its leader ended, is in the file.
MapRecorded ==
  (main \in {"waiting", "stopping"} /\ down.phase # "done") =>
    /\ children \subseteq pids
    /\ \A c \in Children : orphaned[c] = "later" => c \in pids

OrphansOnTime == Unrecorded => \A c \in Children : orphaned[c] # "later"

\* Before a shutdown a leader has ended, or is about to, only if it crashed or was taken down.
EndsHaveCauses ==
  /\ \A s \in Stoppers : stop[s] # "no" => shuttingDown
  /\ ~shuttingDown => \A c \in Children : leader[c] \in {"stopped", "gone"} => crashed \/ downed
  /\ failure => crashed \/ downed

IInv ==
  /\ TypeOK /\ LeadersInMap /\ GroupsLed /\ StoppedLast
  /\ MapRecorded /\ OrphansOnTime /\ EndsHaveCauses

USE DEF LeaderLives, MembersLive, Alive, SupervisorRuns, Unrecorded, Starting, ProcessStates

LEMMA MainStops == "main" \in Stoppers
  BY DEF Stoppers

LEMMA KindsOfChildren == User \in Children /\ Services \subseteq Children /\ Others \subseteq Children
  BY DEF Children

LEMMA InitIInv == Init => IInv
<1> SUFFICES ASSUME Init PROVE IInv
  OBVIOUS
<1>1. TypeOK
  BY DEF Init, TypeOK
<1>2. LeadersInMap /\ GroupsLed
  BY DEF Init, LeadersInMap, GroupsLed
<1>3. StoppedLast /\ MapRecorded /\ OrphansOnTime
  BY MainStops DEF Init, StoppedLast, MapRecorded, OrphansOnTime
<1>4. EndsHaveCauses
  BY DEF Init, EndsHaveCauses
<1> QED
  BY <1>1, <1>2, <1>3, <1>4 DEF IInv

LEMMA StepTypeOK == IInv /\ [Next]_vars => TypeOK'
<1> SUFFICES ASSUME IInv, [Next]_vars PROVE TypeOK'
  OBVIOUS
<1> USE MainStops, KindsOfChildren DEF IInv, TypeOK, groupVars, supervisorVars, downVars, historyVars
<1>1. CASE Prepared
  BY <1>1 DEF Prepared, Run
<1>2. CASE PreparationFails
  BY <1>2 DEF PreparationFails
<1>3. CASE UserHealthy
  BY <1>3 DEF UserHealthy, Run
<1>4. CASE ServicesHealthy
  BY <1>4 DEF ServicesHealthy, Run
<1>5. CASE ViteHealthy
  BY <1>5 DEF ViteHealthy
<1>6. CASE HealthTimesOut
  BY <1>6 DEF HealthTimesOut
<1>7. CASE WritePidFile
  BY <1>7 DEF WritePidFile, Recordable
<1>8. CASE WaitReturns
  BY <1>8 DEF WaitReturns, StopAll, Terminate, Asked
<1>9. CASE SupervisorDies
  BY <1>9 DEF SupervisorDies
<1>10. CASE DownStarts
  BY <1>10 DEF DownStarts, Terminate, Asked
<1>11. CASE DownDone
  BY <1>11 DEF DownDone, Kill, Ended
<1>12. ASSUME NEW c \in Children, Answers(c) PROVE TypeOK'
  BY <1>12 DEF Answers
<1>13. ASSUME NEW c \in Children, Exits(c) PROVE TypeOK'
  BY <1>13 DEF Exits
<1>14. ASSUME NEW c \in Children, MembersEnd(c) PROVE TypeOK'
  BY <1>14 DEF MembersEnd
<1>15. ASSUME NEW c \in Children, ExitNoticed(c) PROVE TypeOK'
  BY <1>15 DEF ExitNoticed, Resolution, Heard
<1>16. ASSUME NEW s \in Signals, Signal(s) PROVE TypeOK'
  BY <1>16 DEF Signal, StopAll, Terminate, Asked, Stoppers
<1>17. ASSUME NEW s \in Stoppers, StopDone(s) PROVE TypeOK'
  BY <1>17 DEF StopDone, Kill, Ended
<1>18. CASE UNCHANGED vars
  BY <1>18 DEF vars
<1> QED
  BY <1>1, <1>2, <1>3, <1>4, <1>5, <1>6, <1>7, <1>8, <1>9, <1>10, <1>11, <1>12, <1>13, <1>14, <1>15, <1>16, <1>17, <1>18 DEF Next

\* A child's leader lives only while it is in the map.
LEMMA StepLeadersInMap == IInv /\ [Next]_vars => LeadersInMap'
<1> SUFFICES ASSUME IInv, [Next]_vars PROVE LeadersInMap'
  OBVIOUS
<1> USE MainStops, KindsOfChildren DEF IInv, TypeOK, groupVars, supervisorVars, downVars, historyVars, LeadersInMap
<1>1. CASE Prepared
  BY <1>1 DEF Prepared, Run
<1>2. CASE PreparationFails
  BY <1>2 DEF PreparationFails
<1>3. CASE UserHealthy
  BY <1>3 DEF UserHealthy, Run
<1>4. CASE ServicesHealthy
  BY <1>4 DEF ServicesHealthy, Run
<1>5. CASE ViteHealthy
  BY <1>5 DEF ViteHealthy
<1>6. CASE HealthTimesOut
  BY <1>6 DEF HealthTimesOut
<1>7. CASE WritePidFile
  BY <1>7 DEF WritePidFile, Recordable
<1>8. CASE WaitReturns
  BY <1>8 DEF WaitReturns, StopAll, Terminate, Asked
<1>9. CASE SupervisorDies
  BY <1>9 DEF SupervisorDies
<1>10. CASE DownStarts
  BY <1>10 DEF DownStarts, Terminate, Asked
<1>11. CASE DownDone
  BY <1>11 DEF DownDone, Kill, Ended
<1>12. ASSUME NEW c \in Children, Answers(c) PROVE LeadersInMap'
  BY <1>12 DEF Answers
<1>13. ASSUME NEW c \in Children, Exits(c) PROVE LeadersInMap'
  BY <1>13 DEF Exits
<1>14. ASSUME NEW c \in Children, MembersEnd(c) PROVE LeadersInMap'
  BY <1>14 DEF MembersEnd
<1>15. ASSUME NEW c \in Children, ExitNoticed(c) PROVE LeadersInMap'
  BY <1>15 DEF ExitNoticed, Resolution, Heard
<1>16. ASSUME NEW s \in Signals, Signal(s) PROVE LeadersInMap'
  BY <1>16 DEF Signal, StopAll, Terminate, Asked, Stoppers
<1>17. ASSUME NEW s \in Stoppers, StopDone(s) PROVE LeadersInMap'
  BY <1>17 DEF StopDone, Kill, Ended
<1>18. CASE UNCHANGED vars
  BY <1>18 DEF vars
<1> QED
  BY <1>1, <1>2, <1>3, <1>4, <1>5, <1>6, <1>7, <1>8, <1>9, <1>10, <1>11, <1>12, <1>13, <1>14, <1>15, <1>16, <1>17, <1>18 DEF Next

LEMMA StepGroupsLed == IInv /\ [Next]_vars => GroupsLed'
<1> SUFFICES ASSUME IInv, [Next]_vars PROVE GroupsLed'
  OBVIOUS
<1> USE MainStops, KindsOfChildren DEF IInv, TypeOK, groupVars, supervisorVars, downVars, historyVars, GroupsLed
<1>1. CASE Prepared
  BY <1>1 DEF Prepared, Run
<1>2. CASE PreparationFails
  BY <1>2 DEF PreparationFails
<1>3. CASE UserHealthy
  BY <1>3 DEF UserHealthy, Run
<1>4. CASE ServicesHealthy
  BY <1>4 DEF ServicesHealthy, Run
<1>5. CASE ViteHealthy
  BY <1>5 DEF ViteHealthy
<1>6. CASE HealthTimesOut
  BY <1>6 DEF HealthTimesOut
<1>7. CASE WritePidFile
  BY <1>7 DEF WritePidFile, Recordable
<1>8. CASE WaitReturns
  BY <1>8 DEF WaitReturns, StopAll, Terminate, Asked
<1>9. CASE SupervisorDies
  BY <1>9 DEF SupervisorDies
<1>10. CASE DownStarts
  BY <1>10 DEF DownStarts, Terminate, Asked
<1>11. CASE DownDone
  BY <1>11 DEF DownDone, Kill, Ended
<1>12. ASSUME NEW c \in Children, Answers(c) PROVE GroupsLed'
  BY <1>12 DEF Answers
<1>13. ASSUME NEW c \in Children, Exits(c) PROVE GroupsLed'
  BY <1>13 DEF Exits
<1>14. ASSUME NEW c \in Children, MembersEnd(c) PROVE GroupsLed'
  BY <1>14 DEF MembersEnd
<1>15. ASSUME NEW c \in Children, ExitNoticed(c) PROVE GroupsLed'
  BY <1>15 DEF ExitNoticed, Resolution, Heard
<1>16. ASSUME NEW s \in Signals, Signal(s) PROVE GroupsLed'
  BY <1>16 DEF Signal, StopAll, Terminate, Asked, Stoppers
<1>17. ASSUME NEW s \in Stoppers, StopDone(s) PROVE GroupsLed'
  BY <1>17 DEF StopDone, Kill, Ended
<1>18. CASE UNCHANGED vars
  BY <1>18 DEF vars
<1> QED
  BY <1>1, <1>2, <1>3, <1>4, <1>5, <1>6, <1>7, <1>8, <1>9, <1>10, <1>11, <1>12, <1>13, <1>14, <1>15, <1>16, <1>17, <1>18 DEF Next

LEMMA StepStoppedLast == IInv /\ [Next]_vars => StoppedLast'
<1> SUFFICES ASSUME IInv, [Next]_vars PROVE StoppedLast'
  OBVIOUS
<1> USE MainStops, KindsOfChildren DEF IInv, TypeOK, groupVars, supervisorVars, downVars, historyVars, StoppedLast
<1>1. CASE Prepared
  BY <1>1 DEF Prepared, Run
<1>2. CASE PreparationFails
  BY <1>2 DEF PreparationFails
<1>3. CASE UserHealthy
  BY <1>3 DEF UserHealthy, Run
<1>4. CASE ServicesHealthy
  BY <1>4 DEF ServicesHealthy, Run
<1>5. CASE ViteHealthy
  BY <1>5 DEF ViteHealthy
<1>6. CASE HealthTimesOut
  BY <1>6 DEF HealthTimesOut
<1>7. CASE WritePidFile
  BY <1>7 DEF WritePidFile, Recordable
<1>8. CASE WaitReturns
  BY <1>8 DEF WaitReturns, StopAll, Terminate, Asked
<1>9. CASE SupervisorDies
  BY <1>9 DEF SupervisorDies
<1>10. CASE DownStarts
  BY <1>10 DEF DownStarts, Terminate, Asked
<1>11. CASE DownDone
  BY <1>11 DEF DownDone, Kill, Ended
<1>12. ASSUME NEW c \in Children, Answers(c) PROVE StoppedLast'
  BY <1>12 DEF Answers
<1>13. ASSUME NEW c \in Children, Exits(c) PROVE StoppedLast'
  BY <1>13 DEF Exits
<1>14. ASSUME NEW c \in Children, MembersEnd(c) PROVE StoppedLast'
  BY <1>14 DEF MembersEnd
<1>15. ASSUME NEW c \in Children, ExitNoticed(c) PROVE StoppedLast'
  BY <1>15 DEF ExitNoticed, Resolution, Heard
<1>16. ASSUME NEW s \in Signals, Signal(s) PROVE StoppedLast'
  BY <1>16, StopperAssumption DEF Signal, StopAll, Terminate, Asked, Stoppers
<1>17. ASSUME NEW s \in Stoppers, StopDone(s) PROVE StoppedLast'
  BY <1>17 DEF StopDone, Kill, Ended
<1>18. CASE UNCHANGED vars
  BY <1>18 DEF vars
<1> QED
  BY <1>1, <1>2, <1>3, <1>4, <1>5, <1>6, <1>7, <1>8, <1>9, <1>10, <1>11, <1>12, <1>13, <1>14, <1>15, <1>16, <1>17, <1>18 DEF Next

LEMMA StepMapRecorded == IInv /\ [Next]_vars => MapRecorded'
<1> SUFFICES ASSUME IInv, [Next]_vars PROVE MapRecorded'
  OBVIOUS
<1> USE MainStops, KindsOfChildren DEF IInv, TypeOK, groupVars, supervisorVars, downVars, historyVars, LeadersInMap, MapRecorded, OrphansOnTime, StoppedLast
<1>1. CASE Prepared
  BY <1>1 DEF Prepared, Run
<1>2. CASE PreparationFails
  BY <1>2 DEF PreparationFails
<1>3. CASE UserHealthy
  BY <1>3 DEF UserHealthy, Run
<1>4. CASE ServicesHealthy
  BY <1>4 DEF ServicesHealthy, Run
<1>5. CASE ViteHealthy
  BY <1>5 DEF ViteHealthy
<1>6. CASE HealthTimesOut
  BY <1>6 DEF HealthTimesOut
<1>7. CASE WritePidFile
  BY <1>7 DEF WritePidFile, Recordable
<1>8. CASE WaitReturns
  BY <1>8 DEF WaitReturns, StopAll, Terminate, Asked
<1>9. CASE SupervisorDies
  BY <1>9 DEF SupervisorDies
<1>10. CASE DownStarts
  BY <1>10 DEF DownStarts, Terminate, Asked
<1>11. CASE DownDone
  BY <1>11 DEF DownDone, Kill, Ended
<1>12. ASSUME NEW c \in Children, Answers(c) PROVE MapRecorded'
  BY <1>12 DEF Answers
<1>13. ASSUME NEW c \in Children, Exits(c) PROVE MapRecorded'
  BY <1>13 DEF Exits
<1>14. ASSUME NEW c \in Children, MembersEnd(c) PROVE MapRecorded'
  BY <1>14 DEF MembersEnd
<1>15. ASSUME NEW c \in Children, ExitNoticed(c) PROVE MapRecorded'
  BY <1>15 DEF ExitNoticed, Resolution, Heard
<1>16. ASSUME NEW s \in Signals, Signal(s) PROVE MapRecorded'
  BY <1>16 DEF Signal, StopAll, Terminate, Asked, Stoppers
<1>17. ASSUME NEW s \in Stoppers, StopDone(s) PROVE MapRecorded'
  BY <1>17 DEF StopDone, Kill, Ended
<1>18. CASE UNCHANGED vars
  BY <1>18 DEF vars
<1> QED
  BY <1>1, <1>2, <1>3, <1>4, <1>5, <1>6, <1>7, <1>8, <1>9, <1>10, <1>11, <1>12, <1>13, <1>14, <1>15, <1>16, <1>17, <1>18 DEF Next

LEMMA StepOrphansOnTime == IInv /\ [Next]_vars => OrphansOnTime'
<1> SUFFICES ASSUME IInv, [Next]_vars PROVE OrphansOnTime'
  OBVIOUS
<1> USE MainStops, KindsOfChildren DEF IInv, TypeOK, groupVars, supervisorVars, downVars, historyVars, OrphansOnTime
<1>1. CASE Prepared
  BY <1>1 DEF Prepared, Run
<1>2. CASE PreparationFails
  BY <1>2 DEF PreparationFails
<1>3. CASE UserHealthy
  BY <1>3 DEF UserHealthy, Run
<1>4. CASE ServicesHealthy
  BY <1>4 DEF ServicesHealthy, Run
<1>5. CASE ViteHealthy
  BY <1>5 DEF ViteHealthy
<1>6. CASE HealthTimesOut
  BY <1>6 DEF HealthTimesOut
<1>7. CASE WritePidFile
  BY <1>7 DEF WritePidFile, Recordable
<1>8. CASE WaitReturns
  BY <1>8 DEF WaitReturns, StopAll, Terminate, Asked
<1>9. CASE SupervisorDies
  BY <1>9 DEF SupervisorDies
<1>10. CASE DownStarts
  BY <1>10 DEF DownStarts, Terminate, Asked
<1>11. CASE DownDone
  BY <1>11 DEF DownDone, Kill, Ended
<1>12. ASSUME NEW c \in Children, Answers(c) PROVE OrphansOnTime'
  BY <1>12 DEF Answers
<1>13. ASSUME NEW c \in Children, Exits(c) PROVE OrphansOnTime'
  BY <1>13 DEF Exits
<1>14. ASSUME NEW c \in Children, MembersEnd(c) PROVE OrphansOnTime'
  BY <1>14 DEF MembersEnd
<1>15. ASSUME NEW c \in Children, ExitNoticed(c) PROVE OrphansOnTime'
  BY <1>15 DEF ExitNoticed, Resolution, Heard
<1>16. ASSUME NEW s \in Signals, Signal(s) PROVE OrphansOnTime'
  BY <1>16 DEF Signal, StopAll, Terminate, Asked, Stoppers
<1>17. ASSUME NEW s \in Stoppers, StopDone(s) PROVE OrphansOnTime'
  BY <1>17 DEF StopDone, Kill, Ended
<1>18. CASE UNCHANGED vars
  BY <1>18 DEF vars
<1> QED
  BY <1>1, <1>2, <1>3, <1>4, <1>5, <1>6, <1>7, <1>8, <1>9, <1>10, <1>11, <1>12, <1>13, <1>14, <1>15, <1>16, <1>17, <1>18 DEF Next

LEMMA StepEndsHaveCauses == IInv /\ [Next]_vars => EndsHaveCauses'
<1> SUFFICES ASSUME IInv, [Next]_vars PROVE EndsHaveCauses'
  OBVIOUS
<1> USE MainStops, KindsOfChildren DEF IInv, TypeOK, groupVars, supervisorVars, downVars, historyVars, EndsHaveCauses
<1>1. CASE Prepared
  BY <1>1 DEF Prepared, Run
<1>2. CASE PreparationFails
  BY <1>2 DEF PreparationFails
<1>3. CASE UserHealthy
  BY <1>3 DEF UserHealthy, Run
<1>4. CASE ServicesHealthy
  BY <1>4 DEF ServicesHealthy, Run
<1>5. CASE ViteHealthy
  BY <1>5 DEF ViteHealthy
<1>6. CASE HealthTimesOut
  BY <1>6 DEF HealthTimesOut
<1>7. CASE WritePidFile
  BY <1>7 DEF WritePidFile, Recordable
<1>8. CASE WaitReturns
  BY <1>8 DEF WaitReturns, StopAll, Terminate, Asked
<1>9. CASE SupervisorDies
  BY <1>9 DEF SupervisorDies
<1>10. CASE DownStarts
  BY <1>10 DEF DownStarts, Terminate, Asked
<1>11. CASE DownDone
  BY <1>11 DEF DownDone, Kill, Ended
<1>12. ASSUME NEW c \in Children, Answers(c) PROVE EndsHaveCauses'
  BY <1>12 DEF Answers
<1>13. ASSUME NEW c \in Children, Exits(c) PROVE EndsHaveCauses'
  BY <1>13 DEF Exits
<1>14. ASSUME NEW c \in Children, MembersEnd(c) PROVE EndsHaveCauses'
  BY <1>14 DEF MembersEnd
<1>15. ASSUME NEW c \in Children, ExitNoticed(c) PROVE EndsHaveCauses'
  BY <1>15 DEF ExitNoticed, Resolution, Heard
<1>16. ASSUME NEW s \in Signals, Signal(s) PROVE EndsHaveCauses'
  BY <1>16 DEF Signal, StopAll, Terminate, Asked, Stoppers
<1>17. ASSUME NEW s \in Stoppers, StopDone(s) PROVE EndsHaveCauses'
  BY <1>17 DEF StopDone, Kill, Ended
<1>18. CASE UNCHANGED vars
  BY <1>18 DEF vars
<1> QED
  BY <1>1, <1>2, <1>3, <1>4, <1>5, <1>6, <1>7, <1>8, <1>9, <1>10, <1>11, <1>12, <1>13, <1>14, <1>15, <1>16, <1>17, <1>18 DEF Next

LEMMA Inductive == Spec => []IInv
<1>1. IInv /\ [Next]_vars => IInv'
  BY StepTypeOK, StepLeadersInMap, StepGroupsLed, StepStoppedLast, StepMapRecorded,
     StepOrphansOnTime, StepEndsHaveCauses DEF IInv
<1> QED
  BY <1>1, InitIInv, PTL DEF Spec

\* The state of the supervisor keeps its shape, and its map names only children it has spawned.
THEOREM TypeCorrect == Spec => []TypeOK
<1>1. IInv => TypeOK
  BY DEF IInv
<1> QED
  BY <1>1, Inductive, PTL

\* dev() that has stopped its children leaves no process it spawned, however many
\* stops overlap, and of their groups only what had lost its leader before.
THEOREM NoneSurvives == Spec => []NoneSurvivesTheStop
<1>1. IInv => NoneSurvivesTheStop
  BY DEF IInv, LeadersInMap, GroupsLed, StoppedLast, NoneSurvivesTheStop
<1> QED
  BY <1>1, Inductive, PTL

\* While the stack is ready the pid file names every group that lives, but for one
\* that had lost its leader before the file was written.
THEOREM Recoverable == Spec => []LivingAreRecorded
<1>1. IInv => LivingAreRecorded
  BY DEF IInv, TypeOK, LeadersInMap, GroupsLed, MapRecorded, LivingAreRecorded
<1> QED
  BY <1>1, Inductive, PTL

\* A failure has its cause in a leader that ended of itself before any stop, or
\* in `--down`: no interruption is reported as the failure of a child.
THEOREM CleanExit == Spec => []StopIsNoFailure
<1>1. IInv => StopIsNoFailure
  BY DEF IInv, EndsHaveCauses, StopIsNoFailure
<1> QED
  BY <1>1, Inductive, PTL
==============================================================================
