------------------------------ MODULE Executor ------------------------------
(***************************************************************************)
(* The task executor (src/src/marketplace/executor.ts): a queue of task    *)
(* ids, a map from task id to execution, and at most MaxConcurrent         *)
(* executions between their start and the end of executeTask.              *)
(*                                                                         *)
(* processQueue and the calls enqueue and cancel run to their end without  *)
(* a wait.  executeTask waits twice: for the race between the agent and    *)
(* the timer, and for the signature of the record it stores.  The phase of *)
(* an execution says at which of the two it is.                            *)
(*                                                                         *)
(* Enqueuing a task again replaces its entry in the map, not its place in  *)
(* the queue; the execution it replaces goes on as an object without a     *)
(* name.  executions therefore holds every object ever made, and current   *)
(* is the map.  The counters for display (ExecutorStats) are left out.     *)
(***************************************************************************)
EXTENDS Naturals, Sequences, FiniteSets, SequencesExt

CONSTANTS
  Tasks,          \* the task ids, all of which the agent can handle
  MaxConcurrent,  \* config.maxConcurrent
  MaxEnqueues     \* bound: calls of enqueue

ASSUME ExecutorAssumption == MaxConcurrent \in Nat \ {0} /\ MaxEnqueues \in Nat

VARIABLES
  executions,    \* the executions in the order they were made
  current,       \* the map: the index of a task's execution, 0 for none
  queue,         \* the queue of task ids
  runningCount,
  outcomes       \* the records stored: [execution, type]

executorVars == <<executions, current, queue, runningCount, outcomes>>

\* The states "delivering" and "delivered" of the source are never set.
ExecutionState == {"queued", "running", "completed", "failed", "timed_out"}

Phase == {"idle", "racing", "completing", "failing", "done"}

Execution == [task : Tasks, state : ExecutionState, phase : Phase]

ExecutorInit ==
  /\ executions = <<>>
  /\ current = [t \in Tasks |-> 0]
  /\ queue = <<>>
  /\ runningCount = 0
  /\ outcomes = {}

-----------------------------------------------------------------------------
\* Mutant of HasSlot: one execution too many.
HasSlotOrEqual(running) == running <= MaxConcurrent

HasSlot(running) == running < MaxConcurrent

\* What the loop of processQueue starts: the execution behind the entry is still
\* queued.
Startable(execution) == execution.state = "queued"

\* The executions that the first k entries of the queue start.
StartedBy(execs, map, q, k) ==
  {e \in {map[q[i]] : i \in 1..k} : Startable(execs[e])}

\* The loop takes k entries off the queue, one while there is a slot; running is
\* what runningCount was before.
Takes(execs, map, q, running, k) ==
  LET runningAfter(j) == running + Cardinality(StartedBy(execs, map, q, j)) IN
  /\ \A j \in 0..(k - 1) : HasSlot(runningAfter(j))
  /\ k < Len(q) => ~HasSlot(runningAfter(k))

Run(execution) == [execution EXCEPT !.state = "running", !.phase = "racing"]

\* processQueue, given what the caller has made of the state.
ProcessQueue(execs, map, q, running) ==
  \E k \in 0..Len(q) :
    LET started == StartedBy(execs, map, q, k) IN
    /\ Takes(execs, map, q, running, k)
    /\ queue' = SubSeq(q, k + 1, Len(q))
    /\ runningCount' = running + Cardinality(started)
    /\ executions' = [e \in DOMAIN execs |->
                        IF e \in started THEN Run(execs[e]) ELSE execs[e]]
    /\ current' = map

enqueue(t) ==
  LET new == [task |-> t, state |-> "queued", phase |-> "idle"] IN
  /\ Len(executions) < MaxEnqueues
  /\ ProcessQueue(Append(executions, new),
                  [current EXCEPT ![t] = Len(executions) + 1],
                  Append(queue, t), runningCount)
  /\ UNCHANGED outcomes

\* Mutant of Without: the tail of the queue goes with the entry.
WithoutTail(q, t) ==
  IF \E i \in DOMAIN q : q[i] = t
  THEN SubSeq(q, 1, SelectInSeq(q, LAMBDA u : u = t) - 1)
  ELSE q

\* The queue without its first entry of t.
Without(q, t) == RemoveFirst(q, t)

\* Mutant of Cancellable: an execution that has its result is cancelled too.
CancellableUnrecorded(e) == executions[e].phase # "done"

Cancellable(e) == executions[e].state \in {"queued", "running"}

\* A running execution is marked failed; nothing tells the agent to stop.
cancel(t) ==
  LET e == current[t] IN
  /\ e # 0
  /\ Cancellable(e)
  /\ executions' = [executions EXCEPT ![e].state = "failed"]
  /\ queue' = IF executions[e].state = "queued" THEN Without(queue, t) ELSE queue
  /\ UNCHANGED <<current, runningCount, outcomes>>

-----------------------------------------------------------------------------
(* executeTask.                                                            *)

\* The race of e is decided: the result it leads to and the record to sign.
Decide(e, state, phase) ==
  /\ executions[e].phase = "racing"
  /\ executions' = [executions EXCEPT ![e].state = state, ![e].phase = phase]
  /\ UNCHANGED <<current, queue, runningCount, outcomes>>

\* Whatever cancel has written in the meantime is overwritten.
AgentReturns(e) == Decide(e, "completed", "completing")

AgentThrows(e) == Decide(e, "failed", "failing")

\* The timer, or an agent that returned nothing.
TimesOut(e) == Decide(e, "timed_out", "failing")

\* Mutant of Finally: the queue is not processed again.
FinallyOnly(execs) ==
  /\ runningCount' = runningCount - 1
  /\ executions' = execs
  /\ UNCHANGED <<queue, current>>

\* The finally block in processQueue.
Finally(execs) == ProcessQueue(execs, current, queue, runningCount - 1)

\* The record is signed and stored (store.insert catches its own errors) and
\* executeTask ends.
Finish(e) ==
  LET outcome(type) == [execution |-> e, type |-> type] IN
  /\ \/ /\ executions[e].phase = "completing"
        /\ outcomes' = outcomes \cup {outcome("task.completed")}
     \/ /\ executions[e].phase = "failing"
        /\ outcomes' = outcomes \cup {outcome("task.failed")}
  /\ Finally([executions EXCEPT ![e].phase = "done"])

ExecutorNext ==
  \/ \E t \in Tasks : enqueue(t) \/ cancel(t)
  \/ \E e \in DOMAIN executions :
       AgentReturns(e) \/ AgentThrows(e) \/ TimesOut(e) \/ Finish(e)

ExecutorSpec == ExecutorInit /\ [][ExecutorNext]_executorVars

\* What surely happens to an execution: the timer of its race fires, and its
\* record is signed.  The agent and the callers owe nothing.
Deadline(e) == e \in DOMAIN executions /\ TimesOut(e)

SignatureMade(e) == e \in DOMAIN executions /\ Finish(e)

ExecutorFairness ==
  \A e \in 1..MaxEnqueues : /\ WF_executorVars(Deadline(e))
                            /\ WF_executorVars(SignatureMade(e))

ExecutorFairSpec == ExecutorSpec /\ ExecutorFairness

-----------------------------------------------------------------------------
(* Properties.                                                             *)

ExecutorTypeOK ==
  /\ executions \in Seq(Execution)
  /\ current \in [Tasks -> 0..Len(executions)]
  /\ queue \in Seq(Tasks)
  /\ runningCount \in 0..MaxConcurrent
  /\ outcomes \subseteq [execution : 1..Len(executions),
                         type : {"task.completed", "task.failed"}]

InExecution == { e \in DOMAIN executions :
                   executions[e].phase \in {"racing", "completing", "failing"} }

\* runningCount counts the executions inside executeTask, through cancellations,
\* replaced entries and failures, so that never more than MaxConcurrent are
\* (processQueue).
RunningCountIsExact ==
  /\ runningCount = Cardinality(InExecution)
  /\ runningCount <= MaxConcurrent

Waiting(t) == current[t] # 0 /\ executions[current[t]].state = "queued"

\* No execution waits in the queue while there is room for it: every entry is
\* taken up when it is queued or when another execution ends (processQueue).
NoIdleSlot ==
  \A t \in Tasks : Waiting(t) => /\ \E i \in DOMAIN queue : queue[i] = t
                                /\ runningCount = MaxConcurrent

\* The name of a task may stand in the queue twice, and once more after its
\* execution was cancelled; an execution still starts at most once, and never
\* after it was cancelled (processQueue, cancel).
StartsOnlyQueued ==
  [][\A e \in DOMAIN executions :
       executions'[e].phase = "racing" /\ executions[e].phase # "racing" =>
         executions[e].phase = "idle" /\ executions[e].state = "queued"]_executorVars

\* An execution leaves no record while it is under way and exactly one when it
\* is over, of the type its final state says: also when it was cancelled while
\* running and the agent answered after all (executeTask, cancel).
OutcomeMatchesState ==
  \A e \in DOMAIN executions :
    {o.type : o \in {p \in outcomes : p.execution = e}} =
      IF executions[e].phase # "done" THEN {}
      ELSE IF executions[e].state = "completed" THEN {"task.completed"}
      ELSE {"task.failed"}

\* A task in the queue is started or cancelled: the timers free the slots even
\* if no agent ever answers (executeTask, finally).
QueuedIsServed == \A t \in Tasks : Waiting(t) ~> ~Waiting(t)
=============================================================================
