--------------------------- MODULE SpawnLifecycle ---------------------------
(***************************************************************************)
(* The lifecycle manager of child agents (src/src/spawn/lifecycle.ts) with *)
(* the provisioner whose instances they run on                             *)
(* (src/src/spawn/provisioner.ts).                                         *)
(*                                                                         *)
(* spawn waits for the instance, for the installation and for the          *)
(* signature of its record; terminate waits for the instance to stop and   *)
(* for a signature, and has no guard, so calls for one child overlap.      *)
(* checkViability judges all children at once and then terminates, one     *)
(* after the other, those it has listed.  Ages are counted in days and     *)
(* stop counting at the grace period, losing checks at the maximum: the    *)
(* code compares them with nothing else.  The earnings of a child are      *)
(* written by the holder of the object getChild returns.                   *)
(***************************************************************************)
EXTENDS Integers, Sequences, FiniteSets, SequencesExt

CONSTANTS
  ChildAgents,
  GraceDays,          \* gracePeriodDays
  MaxNegative,        \* maxNegativeDays; counted in checks, not in days
  SweepSlots,         \* bound: the viability checks that may overlap
  MaxTerminateCalls   \* bound: calls of terminate that the operator makes

ASSUME SpawnAssumption ==
  GraceDays \in Nat /\ MaxNegative \in Nat \ {0} /\ MaxTerminateCalls \in Nat

VARIABLES
  spawnStep,     \* [child -> where its spawn call stands]
  instanceOf,    \* [child -> status of its instance, "none" before it exists]
  children,      \* the map of the children, as a sequence in insertion order
  childStatus,   \* [child -> status], meaningful for those in children
  ageDays,       \* [child -> days since its spawn, counted up to GraceDays]
  earning,       \* [child -> whether its earnings make its ROI acceptable]
  negativeDays,  \* negativeDaysTracker, counted up to MaxNegative
  ending,        \* the terminate calls under way: [child, step, by]
  sweeps,        \* [slot -> places in children of those a viability check has yet to
                 \* terminate]
  announced,     \* [record type -> the children it was stored for]
  monitoring,    \* whether the interval is set
  operatorCalls

spawnVars ==
  <<spawnStep, instanceOf, children, childStatus, ageDays, earning, negativeDays,
    ending, sweeps, announced, monitoring, operatorCalls>>

Born == Range(children)

SpawnInit ==
  /\ spawnStep = [c \in ChildAgents |-> "idle"]
  /\ instanceOf = [c \in ChildAgents |-> "none"]
  /\ children = <<>>
  /\ childStatus = [c \in ChildAgents |-> "spawning"]
  /\ ageDays = [c \in ChildAgents |-> 0]
  /\ earning = [c \in ChildAgents |-> FALSE]
  /\ negativeDays = [c \in ChildAgents |-> 0]
  /\ ending = {}
  /\ sweeps = [k \in SweepSlots |-> {}]
  /\ announced = [r \in {"spawn.new", "spawn.dead"} |-> {}]
  /\ monitoring = FALSE /\ operatorCalls = 0

-----------------------------------------------------------------------------
(* spawn.                                                                  *)

\* spawn calls provision, which waits for the provider.
Spawn(c) ==
  /\ spawnStep[c] = "idle"
  /\ spawnStep' = [spawnStep EXCEPT ![c] = "provisioning"]
  /\ UNCHANGED <<instanceOf, children, childStatus, ageDays, earning, negativeDays,
                 ending, sweeps, announced, monitoring, operatorCalls>>

\* The instance is entered as running, and installProtocol starts at once.
Provisioned(c) ==
  /\ spawnStep[c] = "provisioning"
  /\ spawnStep' = [spawnStep EXCEPT ![c] = "installing"]
  /\ instanceOf' = [instanceOf EXCEPT ![c] = "installing"]
  /\ UNCHANGED <<children, childStatus, ageDays, earning, negativeDays, ending, sweeps,
                 announced, monitoring, operatorCalls>>

\* The simulated installation always succeeds; the child is entered and its
\* spawn.new record signed.
Installed(c) ==
  /\ spawnStep[c] = "installing"
  /\ spawnStep' = [spawnStep EXCEPT ![c] = "publishing"]
  /\ instanceOf' = [instanceOf EXCEPT ![c] = "ready"]
  /\ children' = Append(children, c)
  /\ childStatus' = [childStatus EXCEPT ![c] = "bootstrapping"]
  /\ UNCHANGED <<ageDays, earning, negativeDays, ending, sweeps, announced, monitoring,
                 operatorCalls>>

\* publishSpawnRecord stores the record and the bootstrap timer starts.
Published(c) ==
  /\ spawnStep[c] = "publishing"
  /\ spawnStep' = [spawnStep EXCEPT ![c] = "bootstrapping"]
  /\ announced' = [announced EXCEPT !["spawn.new"] = @ \cup {c}]
  /\ UNCHANGED <<instanceOf, children, childStatus, ageDays, earning, negativeDays,
                 ending, sweeps, monitoring, operatorCalls>>

\* The timer after a minute.
BootstrapEnds(c) ==
  /\ spawnStep[c] = "bootstrapping"
  /\ spawnStep' = [spawnStep EXCEPT ![c] = "done"]
  /\ childStatus' =
       [childStatus EXCEPT ![c] = IF @ = "bootstrapping" THEN "active" ELSE @]
  /\ UNCHANGED <<instanceOf, children, ageDays, earning, negativeDays, ending, sweeps,
                 announced, monitoring, operatorCalls>>

-----------------------------------------------------------------------------
(* terminate, on behalf of the operator or of a viability check.           *)

\* terminate up to its first await: both statuses change in one go.
Terminating(c, by) ==
  /\ childStatus' = [childStatus EXCEPT ![c] = "terminating"]
  /\ instanceOf' = [instanceOf EXCEPT ![c] = "stopping"]
  /\ ending' = ending \cup {[child |-> c, step |-> "stopping", by |-> by]}

TerminateCall(c) ==
  /\ c \in Born /\ operatorCalls < MaxTerminateCalls
  /\ operatorCalls' = operatorCalls + 1
  /\ Terminating(c, operatorCalls')
  /\ UNCHANGED <<spawnStep, children, ageDays, earning, negativeDays, sweeps, announced,
                 monitoring>>

\* Mutant of InstanceStopped: the status is left as it is when somebody else has
\* written it meanwhile.
InstanceStoppedGuarded(e) ==
  /\ e \in ending /\ e.step = "stopping"
  /\ instanceOf' = [instanceOf EXCEPT ![e.child] = "stopped"]
  /\ childStatus' =
       [childStatus EXCEPT ![e.child] = IF @ = "terminating" THEN "terminated" ELSE @]
  /\ ending' = (ending \ {e}) \cup {[e EXCEPT !.step = "signing"]}
  /\ UNCHANGED <<spawnStep, children, ageDays, earning, negativeDays, sweeps, announced,
                 monitoring, operatorCalls>>

\* The instance stops, the child is terminated and spawn.dead goes to be signed.
\* terminate catches a provisioner that throws, and terminates the child all the
\* same; the repository's provisioner, which simulates every provider, throws for
\* an instance it never made only (provisioner.ts:141), so this step has no such
\* outcome.
InstanceStopped(e) ==
  /\ e \in ending /\ e.step = "stopping"
  /\ instanceOf' = [instanceOf EXCEPT ![e.child] = "stopped"]
  /\ childStatus' = [childStatus EXCEPT ![e.child] = "terminated"]
  /\ ending' = (ending \ {e}) \cup {[e EXCEPT !.step = "signing"]}
  /\ UNCHANGED <<spawnStep, children, ageDays, earning, negativeDays, sweeps, announced,
                 monitoring, operatorCalls>>

\* A check calls terminate for the first child of its list, or is over.
TerminateFirst(k, list, statuses, others) ==
  /\ sweeps' = [sweeps EXCEPT ![k] = list]
  /\ \/ /\ list = {}
        /\ childStatus' = statuses /\ ending' = others /\ UNCHANGED instanceOf
     \/ \E i \in list :
          /\ \A j \in list : i <= j
          /\ childStatus' = [statuses EXCEPT ![children[i]] = "terminating"]
          /\ instanceOf' = [instanceOf EXCEPT ![children[i]] = "stopping"]
          /\ ending' = others \cup {[child |-> children[i], step |-> "stopping", by |-> k]}

\* spawn.dead is stored and terminate returns; the check that called it goes on.
DeathAnnounced(e) ==
  /\ e \in ending /\ e.step = "signing"
  /\ announced' = [announced EXCEPT !["spawn.dead"] = @ \cup {e.child}]
  /\ IF e.by \in SweepSlots
       THEN TerminateFirst(e.by, { i \in sweeps[e.by] : children[i] # e.child },
                           childStatus, ending \ {e})
       ELSE ending' = ending \ {e} /\ UNCHANGED <<sweeps, childStatus, instanceOf>>
  /\ UNCHANGED <<spawnStep, children, ageDays, earning, negativeDays, monitoring,
                 operatorCalls>>

-----------------------------------------------------------------------------
(* checkViability and the monitor.                                         *)

\* The children whose ROI a check judges, and those it finds wanting.
Judged == { c \in Born : childStatus[c] # "terminated" /\ ageDays[c] >= GraceDays }

\* Mutant of Losing: a child found wanting once is not judged again.
LosingOnce == { c \in Judged : ~earning[c] /\ childStatus[c] # "underperforming" }

Losing == { c \in Judged : ~earning[c] }

TooLong(c) == negativeDays[c] + 1 >= MaxNegative

\* The synchronous pass over all children, and the first terminate call of the
\* list it ends with.
checkViability(k) ==
  /\ sweeps[k] = {}
  /\ negativeDays' =
       [c \in ChildAgents |->
          IF c \in Losing
            THEN (IF TooLong(c) THEN MaxNegative ELSE negativeDays[c] + 1)
            ELSE IF c \in Judged THEN 0 ELSE negativeDays[c]]
  /\ LET judged == [c \in ChildAgents |->
                      IF c \in Losing THEN "underperforming" ELSE childStatus[c]]
         toTerminate ==
           { i \in DOMAIN children : children[i] \in Losing /\ TooLong(children[i]) }
     IN  TerminateFirst(k, toTerminate, judged, ending)
  /\ UNCHANGED <<spawnStep, children, ageDays, earning, announced, monitoring,
                 operatorCalls>>

MonitorCheck(k) == monitoring /\ checkViability(k)

\* startMonitoring and stopMonitoring.
SetMonitoring(on) ==
  /\ monitoring # on /\ monitoring' = on
  /\ UNCHANGED <<spawnStep, instanceOf, children, childStatus, ageDays, earning,
                 negativeDays, ending, sweeps, announced, operatorCalls>>

TrackEarnings(c) ==
  /\ c \in Born
  /\ earning' = [earning EXCEPT ![c] = ~@]
  /\ UNCHANGED <<spawnStep, instanceOf, children, childStatus, ageDays, negativeDays,
                 ending, sweeps, announced, monitoring, operatorCalls>>

\* A day passes (updateEconomics reads the clock).
DayPasses ==
  /\ \E c \in Born : ageDays[c] < GraceDays
  /\ ageDays' = [c \in ChildAgents |->
                   IF c \in Born /\ ageDays[c] < GraceDays THEN ageDays[c] + 1
                   ELSE ageDays[c]]
  /\ UNCHANGED <<spawnStep, instanceOf, children, childStatus, earning, negativeDays,
                 ending, sweeps, announced, monitoring, operatorCalls>>

TerminateProgress == \E e \in ending : InstanceStopped(e) \/ DeathAnnounced(e)

SpawnNext ==
  \/ \E c \in ChildAgents :
       \/ Spawn(c) \/ Provisioned(c) \/ Installed(c) \/ Published(c) \/ BootstrapEnds(c)
       \/ TerminateCall(c) \/ TrackEarnings(c)
  \/ TerminateProgress
  \/ \E k \in SweepSlots : checkViability(k)
  \/ \E on \in BOOLEAN : SetMonitoring(on)
  \/ DayPasses

\* Timers fire, the interval keeps calling while it is set, time goes on.
SpawnFairness ==
  /\ WF_spawnVars(TerminateProgress)
  /\ WF_spawnVars(DayPasses)
  /\ \A k \in SweepSlots : WF_spawnVars(MonitorCheck(k))

SpawnSpec == SpawnInit /\ [][SpawnNext]_spawnVars
SpawnFairSpec == SpawnSpec /\ SpawnFairness

-----------------------------------------------------------------------------
(* Properties.                                                             *)

ChildStatuses ==
  {"spawning", "bootstrapping", "active", "underperforming", "terminating", "terminated"}

InstanceStatuses == {"none", "installing", "ready", "stopping", "stopped"}

SpawnTypeOK ==
  /\ spawnStep \in [ChildAgents -> {"idle", "provisioning", "installing", "publishing",
                                    "bootstrapping", "done"}]
  /\ instanceOf \in [ChildAgents -> InstanceStatuses]
  /\ Born \subseteq ChildAgents
  /\ childStatus \in [ChildAgents -> ChildStatuses]
  /\ ageDays \in [ChildAgents -> 0..GraceDays]
  /\ earning \in [ChildAgents -> BOOLEAN]
  /\ negativeDays \in [ChildAgents -> 0..MaxNegative]
  /\ ending \subseteq [child : Born, step : {"stopping", "signing"},
                       by : SweepSlots \cup 1..MaxTerminateCalls]
  /\ sweeps \in [SweepSlots -> SUBSET (DOMAIN children)]
  /\ announced \in [{"spawn.new", "spawn.dead"} -> SUBSET Born]
  /\ monitoring \in BOOLEAN /\ operatorCalls \in 0..MaxTerminateCalls

\* The parent's books agree with the cloud: a child counts as terminated exactly
\* when its instance is stopped, however terminate calls for it overlap and
\* whatever a viability check writes over its status meanwhile; an instance that
\* somebody is paid for is never forgotten behind a terminated child
\* (terminate, checkViability).
StoppedWithChild ==
  \A c \in Born : childStatus[c] = "terminated" <=> instanceOf[c] = "stopped"

\* A child that stays unprofitable while the monitor runs is in the end given up
\* and its death published, even when its terminate call overlaps another check
\* or the list it is on was drawn up long before (checkViability, startMonitoring).
LosersEnd ==
  \A c \in ChildAgents :
    <>[](c \in Born /\ monitoring /\ ~earning[c]) => <>(c \in announced["spawn.dead"])
=============================================================================
