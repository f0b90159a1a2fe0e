---------------------------- MODULE DevSupervisor ----------------------------
(****************************************************************************)
(* The supervisor of the local stack (scripts/dev.mjs): dev() starts the     *)
(* services, the workers and Vite as children in process groups of their    *)
(* own, in bounded healthy order, while signals, exits of children and       *)
(* `--down` in another shell may come at any time.  A group is its leader,   *)
(* the process that was spawned and whose exit is seen, and perhaps members  *)
(* that the leader runs and that may outlive it.  A step is what runs        *)
(* between two awaits.  Infrastructure, migrations and builds are one step   *)
(* that precedes the first child.  Every child is critical: no definition    *)
(* passes critical: false.                                                   *)
(****************************************************************************)
EXTENDS Naturals

CONSTANTS User,      \* the service that the others need
          Services,  \* the services that follow it
          Others,    \* the workers and Vite
          Vite,
          Shells,    \* the children that run members under them, as npm runs Vite
          Signals    \* bound: the signals the supervisor receives

Children == {User} \cup Services \cup Others

ASSUME ChildAssumption ==
  /\ User \notin Services \cup Others
  /\ Services \cap Others = {}
  /\ Vite \in Others
  /\ Shells \subseteq Children

ASSUME StopperAssumption == "main" \notin Signals

Stoppers == Signals \cup {"main"}    \* who runs a stopAll

VARIABLES main,          \* how far dev() is
          answered,      \* children whose awaited health endpoint has answered
          leader,        \* the leader of each child's process group
          members,       \* what else runs in the group, if the child is a shell
          children,      \* the supervisor's children map
          shuttingDown,
          failure,       \* a critical process has exited
          resolved,      \* the promise that wait() awaits
          stop,          \* how far each stopAll is
          pids,          \* .dev/pids.json
          down,          \* `--down`: how far it is, and the entries it read
          crashed,       \* history: a leader ended of itself, asked by nobody
          downed,        \* history: `--down` has stopped a leader
          orphaned,      \* history: whether a leader ended before its members did, while
                         \* dev() had yet to write the pid file or later
          afterStop      \* history: children started when a stopAll had ended

groupVars == <<leader, members>>
supervisorVars == <<children, shuttingDown, failure, resolved>>
downVars == <<pids, down>>
historyVars == <<crashed, downed, orphaned, afterStop>>
vars == <<main, answered, groupVars, supervisorVars, stop, downVars, historyVars>>

Starting == {"user", "services", "vite"}
Unrecorded == main \in Starting \cup {"preparing", "recording"}
ProcessStates == {"none", "up", "stopped", "gone"}

TypeOK ==
  /\ main \in Starting \cup {"preparing", "recording", "waiting", "stopping", "done", "failed", "dead"}
  /\ answered \subseteq Children
  /\ leader \in [Children -> ProcessStates]
  /\ members \in [Children -> ProcessStates]
  /\ children \subseteq {c \in Children : leader[c] # "none"}
  /\ shuttingDown \in BOOLEAN
  /\ failure \in BOOLEAN
  /\ resolved \in BOOLEAN
  /\ stop \in [Stoppers -> {"no", "sleeping", "done"}]
  /\ pids \subseteq Children
  /\ down \in [phase : {"no", "sleeping", "done"}, entries : SUBSET Children]
  /\ crashed \in BOOLEAN
  /\ downed \in BOOLEAN
  /\ orphaned \in [Children -> {"no", "unrecorded", "later"}]
  /\ afterStop \subseteq Children

Init ==
  /\ main = "preparing"
  /\ answered = {}
  /\ leader = [c \in Children |-> "none"]
  /\ members = [c \in Children |-> "none"]
  /\ children = {}
  /\ shuttingDown = FALSE
  /\ failure = FALSE
  /\ resolved = FALSE
  /\ stop = [s \in Stoppers |-> "no"]
  /\ pids = {}
  /\ down = [phase |-> "no", entries |-> {}]
  /\ crashed = FALSE
  /\ downed = FALSE
  /\ orphaned = [c \in Children |-> "no"]
  /\ afterStop = {}

Alive(state) == state \in {"up", "stopped"}
LeaderLives(c) == Alive(leader[c])
MembersLive(c) == Alive(members[c])
SupervisorRuns == main \notin {"preparing", "dead"}

------------------------------------------------------------------------------
(* Starting.                                                                 *)

\* ProcessSupervisor.run: spawn detached, and remember the child.
Run(cs) ==
  /\ leader' = [c \in Children |-> IF c \in cs THEN "up" ELSE leader[c]]
  /\ members' = [c \in Children |-> IF c \in cs \cap Shells THEN "up" ELSE members[c]]
  /\ children' = children \cup cs
  /\ afterStop' = IF \E s \in Stoppers : stop[s] = "done" THEN afterStop \cup cs ELSE afterStop

\* preflight, infrastructure, migrations, builds; then the handlers and the user service.
Prepared ==
  /\ main = "preparing"
  /\ main' = "user"
  /\ Run({User})
  /\ UNCHANGED <<answered, shuttingDown, failure, resolved, stop, downVars, crashed, downed, orphaned>>

PreparationFails ==
  /\ main = "preparing"
  /\ main' = "failed"
  /\ UNCHANGED <<answered, groupVars, supervisorVars, stop, downVars, historyVars>>

Awaited(c) ==
  \/ main = "user" /\ c = User
  \/ main = "services" /\ c \in Services
  \/ main = "vite" /\ c = Vite

\* waitForHttp has its answer; it is Vite that answers, not npm.  The process may
\* end, and a stopAll too, before dev() goes on.
Answers(c) ==
  /\ Awaited(c) /\ c \notin answered
  /\ IF c \in Shells THEN MembersLive(c) ELSE LeaderLives(c)
  /\ answered' = answered \cup {c}
  /\ UNCHANGED <<main, groupVars, supervisorVars, stop, downVars, historyVars>>

UserHealthy ==
  /\ main = "user" /\ User \in answered
  /\ main' = "services"
  /\ Run(Services)
  /\ UNCHANGED <<answered, shuttingDown, failure, resolved, stop, downVars, crashed, downed, orphaned>>

\* After the last of the services the workers and Vite start.
ServicesHealthy ==
  /\ main = "services" /\ Services \subseteq answered
  /\ main' = "vite"
  /\ Run(Others)
  /\ UNCHANGED <<answered, shuttingDown, failure, resolved, stop, downVars, crashed, downed, orphaned>>

ViteHealthy ==
  /\ main = "vite" /\ Vite \in answered
  /\ main' = "recording"
  /\ UNCHANGED <<answered, groupVars, supervisorVars, stop, downVars, historyVars>>

\* waitForHttp gives up: dev() rejects, and main() reports it and stops nobody.
HealthTimesOut ==
  /\ main \in Starting
  /\ main' = "failed"
  /\ UNCHANGED <<answered, groupVars, supervisorVars, stop, downVars, historyVars>>

\* Mutation: Vite is left out of the file.
Recorded == children \ {Vite}

Recordable == children

\* The map is read after mkdir has been awaited.
WritePidFile ==
  /\ main = "recording"
  /\ main' = "waiting"
  /\ pids' = Recordable
  /\ UNCHANGED <<answered, groupVars, supervisorVars, stop, down, historyVars>>

------------------------------------------------------------------------------
(* Exits and stopping.                                                       *)

\* A leader ends, on its own or some time after SIGTERM; its members need not.
Exits(c) ==
  /\ LeaderLives(c)
  /\ leader' = [leader EXCEPT ![c] = "gone"]
  /\ crashed' = (crashed \/ leader[c] = "up")
  /\ orphaned' = [orphaned EXCEPT ![c] =
       IF ~MembersLive(c) THEN @ ELSE IF Unrecorded THEN "unrecorded" ELSE "later"]
  /\ UNCHANGED <<main, answered, members, supervisorVars, stop, downVars, downed, afterStop>>

MembersEnd(c) ==
  /\ MembersLive(c)
  /\ members' = [members EXCEPT ![c] = "gone"]
  /\ UNCHANGED <<main, answered, leader, supervisorVars, stop, downVars, historyVars>>

Heard == ~shuttingDown

\* Mutation: an exit ends the run only when the child is not critical.
ResolvedNever == resolved

Resolution == TRUE

\* handleExit, on the exit event of the spawned process, which is the leader.
ExitNoticed(c) ==
  /\ SupervisorRuns
  /\ c \in children /\ leader[c] = "gone" /\ Heard
  /\ children' = children \ {c}
  /\ failure' = TRUE
  /\ resolved' = Resolution
  /\ UNCHANGED <<main, answered, groupVars, shuttingDown, stop, downVars, historyVars>>

Asked(state, cs) == [c \in Children |-> IF c \in cs /\ state[c] = "up" THEN "stopped" ELSE state[c]]
Ended(state, cs) == [c \in Children |-> IF c \in cs /\ Alive(state[c]) THEN "gone" ELSE state[c]]

\* terminateGroup: SIGTERM to the whole group, or to what is left of it.
Terminate(cs) ==
  /\ leader' = Asked(leader, cs)
  /\ members' = Asked(members, cs)

\* Mutation: only those groups are killed that SIGTERM has reached.
KillStopped(cs) ==
  LET alive == {c \in cs : leader[c] = "stopped"}
  IN  leader' = Ended(leader, alive) /\ members' = Ended(members, alive)

\* SIGKILL to the groups whose leader is alive (isProcessAlive).
Kill(cs) ==
  LET alive == {c \in cs : LeaderLives(c)}
  IN  leader' = Ended(leader, alive) /\ members' = Ended(members, alive)

\* stopAll up to its sleep.
StopAll(s) ==
  /\ shuttingDown' = TRUE
  /\ Terminate(children)
  /\ stop' = [stop EXCEPT ![s] = "sleeping"]

Signal(s) ==
  /\ SupervisorRuns /\ stop[s] = "no"
  /\ StopAll(s)
  /\ UNCHANGED <<main, answered, children, failure, resolved, downVars, historyVars>>

\* wait() returns and dev() stops what is left.
WaitReturns ==
  /\ main = "waiting" /\ resolved
  /\ main' = "stopping"
  /\ StopAll("main")
  /\ UNCHANGED <<answered, children, failure, resolved, downVars, historyVars>>

(* stopAll after its sleep.  A signal's handler then resolves wait(), dev()    *)
(* ends, with the failure if there is one.                                    *)
StopDone(s) ==
  /\ SupervisorRuns /\ stop[s] = "sleeping"
  /\ stop' = [stop EXCEPT ![s] = "done"]
  /\ Kill(children)
  /\ children' = {}
  /\ IF s = "main"
       THEN main' = (IF failure THEN "failed" ELSE "done") /\ UNCHANGED resolved
       ELSE resolved' = TRUE /\ UNCHANGED main
  /\ UNCHANGED <<answered, shuttingDown, failure, downVars, historyVars>>

\* Nothing handles SIGHUP or SIGKILL: the supervisor dies, its detached children do not.
SupervisorDies ==
  /\ SupervisorRuns
  /\ main' = "dead"
  /\ UNCHANGED <<answered, groupVars, supervisorVars, stop, downVars, historyVars>>

------------------------------------------------------------------------------
(* `--down` from another shell (stopApplicationChildren).                    *)

DownStarts ==
  /\ down.phase = "no"
  /\ down' = [phase |-> "sleeping", entries |-> pids]
  /\ Terminate(pids)
  /\ downed' = (downed \/ \E c \in pids : LeaderLives(c))
  /\ UNCHANGED <<main, answered, supervisorVars, stop, pids, crashed, orphaned, afterStop>>

DownDone ==
  /\ down.phase = "sleeping"
  /\ down' = [down EXCEPT !.phase = "done"]
  /\ Kill(down.entries)
  /\ pids' = {}
  /\ downed' = (downed \/ \E c \in down.entries : LeaderLives(c))
  /\ UNCHANGED <<main, answered, supervisorVars, stop, crashed, orphaned, afterStop>>

Next ==
  \/ Prepared \/ PreparationFails \/ UserHealthy \/ ServicesHealthy \/ ViteHealthy
  \/ HealthTimesOut \/ WritePidFile \/ WaitReturns \/ SupervisorDies
  \/ DownStarts \/ DownDone
  \/ \E c \in Children : Answers(c) \/ Exits(c) \/ MembersEnd(c) \/ ExitNoticed(c)
  \/ \E s \in Signals : Signal(s)
  \/ \E s \in Stoppers : StopDone(s)

Spec == Init /\ [][Next]_vars

\* Timers fire, writes and exit events arrive.  No child needs to answer or to end.
Fairness ==
  /\ WF_vars(HealthTimesOut) /\ WF_vars(WritePidFile) /\ WF_vars(WaitReturns)
  /\ \A c \in Children : WF_vars(ExitNoticed(c))
  /\ \A s \in Stoppers : WF_vars(StopDone(s))

FairSpec == Spec /\ Fairness

------------------------------------------------------------------------------
(* Properties.                                                               *)

\* Once dev() has stopped its children, no process that it spawned is left, not
\* one that ignores SIGTERM and not one that started while another stopAll slept;
\* of a group something is left only if its leader ended before the SIGKILL.
NoneSurvivesTheStop ==
  stop["main"] = "done" =>
    \A c \in Children : ~LeaderLives(c) /\ (MembersLive(c) => orphaned[c] # "no")

\* From the moment the stack is ready, every group that lives is in the pid file,
\* so that `--down` finds it even if the supervisor has died, except for one whose
\* leader ended, leaving members behind, before the file was written (handleExit).
LivingAreRecorded ==
  (main \in {"waiting", "stopping"} /\ down.phase # "done") =>
    \A c \in Children :
      LeaderLives(c) \/ MembersLive(c) => c \in pids \/ (~LeaderLives(c) /\ orphaned[c] = "unrecorded")

\* A stack that is interrupted does not end in a failure, unless one of its
\* processes ended of itself or `--down` stopped it as well.
StopIsNoFailure == failure => crashed \/ downed

\* An interruption at any time, and an exit once the stack is ready, ends dev(),
\* unless the supervisor is killed, with no leader left but of children that it
\* started when the stop was over already.
EndsClean ==
  ((\E s \in Signals : stop[s] = "sleeping") \/ (main = "waiting" /\ failure))
    ~> \/ main = "dead"
       \/ /\ main \in {"done", "failed"}
          /\ \A c \in Children : LeaderLives(c) => c \in afterStop
=============================================================================
