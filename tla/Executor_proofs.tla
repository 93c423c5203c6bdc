-------------------------- MODULE Executor_proofs --------------------------
(***************************************************************************)
(* What the executor guarantees for any tasks, any number of slots and any *)
(* sequence of calls, answers and timeouts.                                *)
(***************************************************************************)
EXTENDS Executor, FiniteSetTheorems, SequenceTheorems,
        WellFoundedInduction, TLAPS

USE ExecutorAssumption

\* The executions among execs that are inside executeTask.
Inside(execs) ==
  { e \in DOMAIN execs : execs[e].phase \in {"racing", "completing", "failing"} }

\* The state an execution can be in at each of its phases: cancel writes "failed"
\* before the result is known, and not after.
Coherent(x) ==
  /\ x.phase = "idle" => x.state \in {"queued", "failed"}
  /\ x.phase = "racing" => x.state \in {"running", "failed"}
  /\ x.phase = "completing" => x.state = "completed"
  /\ x.phase = "failing" => x.state \in {"failed", "timed_out"}
  /\ x.phase = "done" => x.state \in {"completed", "failed", "timed_out"}

\* What the queue is to the map: its entries have an execution.
Named(map, q) == \A i \in DOMAIN q : map[q[i]] # 0

\* An execution that is queued can be found by the queue.
Listed(execs, map, q) ==
  \A t \in Tasks : map[t] # 0 /\ execs[map[t]].state = "queued" =>
    \E i \in DOMAIN q : q[i] = t

ExecutorIInv ==
  /\ ExecutorTypeOK
  /\ \A e \in DOMAIN executions : Coherent(executions[e])
  /\ Named(current, queue)
  /\ RunningCountIsExact
  /\ NoIdleSlot
  /\ OutcomeMatchesState

-----------------------------------------------------------------------------
(* processQueue.                                                           *)

\* A function on 1..n is a sequence.
LEMMA FunctionIsSeq ==
  ASSUME NEW S, NEW n \in Nat, NEW f \in [1..n -> S]
  PROVE  f \in Seq(S) /\ Len(f) = n /\ DOMAIN f = 1..n
OBVIOUS

\* A set of executions is finite.
LEMMA Finite ==
  ASSUME NEW STATE execs, execs \in Seq(Execution),
         NEW STATE S, S \subseteq DOMAIN execs
  PROVE  IsFiniteSet(S) /\ Cardinality(S) \in Nat
<1>1. DOMAIN execs = 1..Len(execs) /\ Len(execs) \in Nat  OBVIOUS
<1>2. IsFiniteSet(DOMAIN execs)  BY <1>1, FS_Interval
<1> QED  BY <1>2, FS_Subset, FS_CardinalityType

\* What is started is queued and among the executions.
LEMMA StartedAreQueued ==
  ASSUME NEW STATE execs, execs \in Seq(Execution),
         NEW STATE map, map \in [Tasks -> 0..Len(execs)],
         NEW STATE q, q \in Seq(Tasks), Named(map, q),
         NEW CONSTANT k \in 0..Len(q)
  PROVE  /\ StartedBy(execs, map, q, k) \subseteq DOMAIN execs
         /\ \A e \in StartedBy(execs, map, q, k) : execs[e].state = "queued"
BY DEF StartedBy, Startable, Named

\* The loop stops with the last slot: it never goes beyond.
LEMMA LoopStaysWithin ==
  ASSUME NEW STATE execs, execs \in Seq(Execution),
         NEW STATE map, map \in [Tasks -> 0..Len(execs)],
         NEW STATE q, q \in Seq(Tasks), Named(map, q),
         NEW STATE running, running \in 0..MaxConcurrent,
         NEW CONSTANT k \in 0..Len(q), Takes(execs, map, q, running, k)
  PROVE  running + Cardinality(StartedBy(execs, map, q, k)) \in 0..MaxConcurrent
<1> DEFINE started(j) == StartedBy(execs, map, q, j)
<1>1. \A j \in 0..k : started(j) \subseteq DOMAIN execs
  BY StartedAreQueued
<1>2. IsFiniteSet(started(k)) /\ Cardinality(started(k)) \in Nat
  BY <1>1, Finite
<1>3. CASE k = 0
  <2>1. started(0) = {}  BY DEF StartedBy
  <2>2. Cardinality(started(k)) = 0  BY <1>3, <2>1, FS_EmptySet
  <2> QED  BY <2>2
<1>4. CASE k # 0
  <2>1. k - 1 \in 0..k /\ k - 1 \in 0..(k - 1)  BY <1>4
  <2>2. running + Cardinality(started(k - 1)) < MaxConcurrent
    BY <2>1 DEF Takes, HasSlot
  <2>3. IsFiniteSet(started(k - 1)) /\ Cardinality(started(k - 1)) \in Nat
    BY <1>1, <2>1, Finite
  <2>4. started(k) \subseteq started(k - 1) \cup {map[q[k]]}
    BY <1>4 DEF StartedBy
  <2>5. /\ IsFiniteSet(started(k - 1) \cup {map[q[k]]})
        /\ Cardinality(started(k - 1) \cup {map[q[k]]})
             \in {Cardinality(started(k - 1)), Cardinality(started(k - 1)) + 1}
    BY <2>3, FS_AddElement
  <2>6. Cardinality(started(k)) <= Cardinality(started(k - 1) \cup {map[q[k]]})
    BY <2>4, <2>5, FS_Subset
  <2>7. Cardinality(started(k)) <= Cardinality(started(k - 1)) + 1
    BY <1>2, <2>3, <2>5, <2>6
  <2> QED  BY <1>2, <2>2, <2>3, <2>7
<1> QED  BY <1>3, <1>4

\* processQueue leaves the executions it does not start alone, fills the slots
\* and counts what it starts.
LEMMA ProcessQueueStep ==
  ASSUME NEW STATE execs, execs \in Seq(Execution),
         NEW STATE map, map \in [Tasks -> 0..Len(execs)],
         NEW STATE q, q \in Seq(Tasks), Named(map, q), Listed(execs, map, q),
         NEW STATE running, running \in 0..MaxConcurrent,
         running = Cardinality(Inside(execs)),
         \A e \in DOMAIN execs : Coherent(execs[e]),
         ProcessQueue(execs, map, q, running)
  PROVE  /\ executions' \in Seq(Execution) /\ Len(executions') = Len(execs)
         /\ current' = map /\ queue' \in Seq(Tasks) /\ runningCount' \in 0..MaxConcurrent
         /\ \A e \in DOMAIN execs :
              \/ executions'[e] = execs[e]
              \/ execs[e].state = "queued" /\ executions'[e] = Run(execs[e])
         /\ \A e \in DOMAIN executions' : Coherent(executions'[e])
         /\ Named(current, queue)'
         /\ RunningCountIsExact'
         /\ NoIdleSlot'
<1> DEFINE started(j) == StartedBy(execs, map, q, j)
<1>1. PICK k \in 0..Len(q) :
        /\ Takes(execs, map, q, running, k)
        /\ queue' = SubSeq(q, k + 1, Len(q))
        /\ runningCount' = running + Cardinality(started(k))
        /\ executions' = [e \in DOMAIN execs |->
                            IF e \in started(k) THEN Run(execs[e]) ELSE execs[e]]
        /\ current' = map
  BY DEF ProcessQueue
<1>2. /\ started(k) \subseteq DOMAIN execs
      /\ \A e \in started(k) : execs[e].state = "queued"
  BY StartedAreQueued
<1>3. runningCount' \in 0..MaxConcurrent
  BY <1>1, LoopStaysWithin
<1>4. /\ Len(execs) \in Nat /\ DOMAIN execs = 1..Len(execs)
      /\ \A e \in DOMAIN execs : execs[e] \in Execution
  OBVIOUS
<1>5. \A e \in DOMAIN execs : /\ Run(execs[e]) \in Execution
                              /\ Run(execs[e]).state = "running"
                              /\ Run(execs[e]).phase = "racing"
  BY <1>4 DEF Run, Execution, ExecutionState, Phase
<1>6. /\ executions' \in Seq(Execution) /\ Len(executions') = Len(execs)
      /\ DOMAIN executions' = DOMAIN execs
  <2>1. executions' \in [1..Len(execs) -> Execution]
    BY <1>1, <1>4, <1>5
  <2> QED  BY <1>4, <2>1, FunctionIsSeq
<1>7. \A e \in DOMAIN execs :
        executions'[e] = IF e \in started(k) THEN Run(execs[e]) ELSE execs[e]
  BY <1>1
<1>8. \A e \in DOMAIN execs :
        \/ executions'[e] = execs[e]
        \/ execs[e].state = "queued" /\ executions'[e] = Run(execs[e])
  BY <1>2, <1>7
<1>9. \A e \in DOMAIN executions' : Coherent(executions'[e])
  BY <1>4, <1>5, <1>6, <1>8 DEF Coherent
<1>10. /\ Len(q) \in Nat /\ DOMAIN q = 1..Len(q) /\ \A i \in DOMAIN q : q[i] \in Tasks
  OBVIOUS
<1>11. /\ queue' \in Seq(Tasks)
       /\ Len(queue') = Len(q) - k
       /\ \A i \in 1..(Len(q) - k) : queue'[i] = q[k + i]
  <2>1. \A i \in (k + 1)..Len(q) : q[i] \in Tasks  BY <1>10
  <2>2. /\ queue' \in Seq(Tasks)
        /\ Len(queue') = IF k + 1 <= Len(q) THEN Len(q) - (k + 1) + 1 ELSE 0
        /\ \A i \in 1..(Len(q) - (k + 1) + 1) : queue'[i] = q[(k + 1) + i - 1]
    BY <1>1, <1>10, <2>1, SubSeqProperties
  <2>3. Len(queue') = Len(q) - k
    <3>1. Len(queue') = IF k + 1 <= Len(q) THEN Len(q) - (k + 1) + 1 ELSE 0
      BY <2>2
    <3>2. k \in Nat /\ Len(q) \in Nat /\ k <= Len(q)  BY <1>10
    <3> HIDE DEF started
    <3> QED  BY <3>1, <3>2
  <2>4. ASSUME NEW i \in 1..(Len(q) - k) PROVE queue'[i] = q[k + i]
    <3>1. (k + 1) + i - 1 = k + i  BY <1>10
    <3>2. i \in 1..(Len(q) - (k + 1) + 1)  BY <1>10
    <3> QED  BY <2>2, <3>1, <3>2
  <2> QED  BY <2>2, <2>3, <2>4
<1>12. Named(current, queue)'
  <2> SUFFICES ASSUME NEW i \in DOMAIN queue' PROVE current'[queue'[i]] # 0
    BY DEF Named
  <2>1. i \in 1..(Len(q) - k) /\ k + i \in DOMAIN q  BY <1>10, <1>11
  <2> QED  BY <1>1, <1>11, <2>1 DEF Named
<1>13. RunningCountIsExact'
  <2>1. Inside(executions)' = Inside(execs) \cup started(k)
    BY <1>2, <1>4, <1>5, <1>6, <1>7 DEF Inside
  <2>2. Inside(execs) \cap started(k) = {}
    <3>1. \A e \in started(k) : execs[e].phase = "idle"
      BY <1>2, <1>4 DEF Coherent, Execution, Phase, ExecutionState
    <3> QED  BY <3>1 DEF Inside
  <2>3. /\ IsFiniteSet(Inside(execs)) /\ IsFiniteSet(started(k))
        /\ Cardinality(Inside(execs)) \in Nat /\ Cardinality(started(k)) \in Nat
    BY <1>2, Finite DEF Inside
  <2>4. Cardinality(Inside(execs) \cup started(k))
          = Cardinality(Inside(execs)) + Cardinality(started(k)) - Cardinality({})
    BY <2>2, <2>3, FS_Union
  <2>5. Cardinality(Inside(execs) \cup started(k))
          = Cardinality(Inside(execs)) + Cardinality(started(k))
    BY <2>3, <2>4, FS_EmptySet
  <2>6. InExecution' = Inside(executions)'  BY DEF InExecution, Inside
  <2> QED  BY <1>1, <1>3, <2>1, <2>5, <2>6 DEF RunningCountIsExact
<1>14. NoIdleSlot'
  <2> SUFFICES ASSUME NEW t \in Tasks, Waiting(t)'
               PROVE  /\ \E i \in DOMAIN queue' : queue'[i] = t
                      /\ runningCount' = MaxConcurrent
    BY DEF NoIdleSlot
  <2>1. /\ map[t] # 0 /\ map[t] \in DOMAIN execs
        /\ executions'[map[t]].state = "queued"
    BY <1>1, <1>4 DEF Waiting
  <2>2. map[t] \notin started(k) /\ execs[map[t]].state = "queued"
    BY <1>5, <1>7, <2>1
  <2>3. PICK i \in 1..Len(q) : q[i] = t
    BY <1>10, <2>1, <2>2 DEF Listed
  <2>4. ~(i <= k)
    BY <2>2, <2>3 DEF StartedBy, Startable
  <2>5. i - k \in 1..(Len(q) - k) /\ queue'[i - k] = t
    BY <1>10, <1>11, <2>3, <2>4
  <2>6. k < Len(q)  BY <1>10, <2>3, <2>4
  <2>7. ~(runningCount' < MaxConcurrent)
    BY <1>1, <2>6 DEF Takes, HasSlot
  <2> QED  BY <1>3, <1>11, <2>5, <2>7
<1> QED  BY <1>1, <1>3, <1>6, <1>8, <1>9, <1>11, <1>12, <1>13, <1>14

-----------------------------------------------------------------------------
(* The steps.                                                              *)

LEMMA InitInv ==
  ASSUME ExecutorInit
  PROVE  ExecutorIInv
<1>1. executions = <<>> /\ queue = <<>> /\ outcomes = {} /\ runningCount = 0
      /\ current = [t \in Tasks |-> 0]
  BY DEF ExecutorInit
<1>2. ExecutorTypeOK
  BY <1>1 DEF ExecutorTypeOK
<1>3. InExecution = {}  BY <1>1 DEF InExecution
<1>4. RunningCountIsExact  BY <1>1, <1>3, FS_EmptySet DEF RunningCountIsExact
<1>5. NoIdleSlot  BY <1>1 DEF NoIdleSlot, Waiting
<1>6. OutcomeMatchesState  BY <1>1 DEF OutcomeMatchesState
<1> QED  BY <1>1, <1>2, <1>4, <1>5, <1>6 DEF ExecutorIInv, Named

\* The facts the invariant states, in the words of processQueue.
LEMMA Facts ==
  ASSUME ExecutorIInv
  PROVE  /\ executions \in Seq(Execution) /\ Len(executions) \in Nat
         /\ DOMAIN executions = 1..Len(executions)
         /\ \A e \in DOMAIN executions : executions[e] \in Execution /\ Coherent(executions[e])
         /\ current \in [Tasks -> 0..Len(executions)]
         /\ queue \in Seq(Tasks) /\ Named(current, queue)
         /\ Listed(executions, current, queue)
         /\ runningCount \in 0..MaxConcurrent
         /\ runningCount = Cardinality(Inside(executions))
         /\ \A o \in outcomes : o.execution \in DOMAIN executions
<1>1. /\ executions \in Seq(Execution) /\ current \in [Tasks -> 0..Len(executions)]
      /\ queue \in Seq(Tasks) /\ runningCount \in 0..MaxConcurrent
      /\ outcomes \subseteq [execution : 1..Len(executions),
                             type : {"task.completed", "task.failed"}]
      /\ \A e \in DOMAIN executions : Coherent(executions[e])
      /\ Named(current, queue)
  BY DEF ExecutorIInv, ExecutorTypeOK
<1>2. Listed(executions, current, queue)
  BY DEF ExecutorIInv, NoIdleSlot, Waiting, Listed
<1>3. runningCount = Cardinality(Inside(executions))
  BY DEF ExecutorIInv, RunningCountIsExact, InExecution, Inside
<1> QED  BY <1>1, <1>2, <1>3

\* The records stay in step with the executions when none of them ends.
LEMMA OutcomesKept ==
  ASSUME ExecutorIInv, outcomes' = outcomes,
         DOMAIN executions \subseteq DOMAIN executions',
         \A e \in DOMAIN executions :
           \/ executions'[e] = executions[e]
           \/ executions[e].phase # "done" /\ executions'[e].phase # "done",
         \A e \in DOMAIN executions' \ DOMAIN executions : executions'[e].phase # "done"
  PROVE  OutcomeMatchesState'
<1> DEFINE types(e) == {o.type : o \in {p \in outcomes : p.execution = e}}
<1> SUFFICES ASSUME NEW e \in DOMAIN executions'
             PROVE  types(e) = IF executions'[e].phase # "done" THEN {}
                               ELSE IF executions'[e].state = "completed"
                                    THEN {"task.completed"} ELSE {"task.failed"}
  BY DEF OutcomeMatchesState
<1>1. CASE e \in DOMAIN executions
  <2>1. types(e) = IF executions[e].phase # "done" THEN {}
                   ELSE IF executions[e].state = "completed"
                        THEN {"task.completed"} ELSE {"task.failed"}
    BY <1>1 DEF ExecutorIInv, OutcomeMatchesState
  <2> HIDE DEF types
  <2> QED  BY <1>1, <2>1
<1>2. CASE e \notin DOMAIN executions
  <2>1. types(e) = {}  BY <1>2, Facts
  <2> HIDE DEF types
  <2> QED  BY <1>2, <2>1
<1> QED  BY <1>1, <1>2

\* enqueue makes an execution, puts its task in the queue and processes it.
LEMMA EnqueueStep ==
  ASSUME ExecutorIInv, NEW t \in Tasks, enqueue(t)
  PROVE  /\ ExecutorIInv'
         /\ \A e \in DOMAIN executions :
              \/ executions'[e] = executions[e]
              \/ executions[e].state = "queued"
<1> DEFINE new == [task |-> t, state |-> "queued", phase |-> "idle"]
           execs == Append(executions, new)
           map == [current EXCEPT ![t] = Len(executions) + 1]
           q == Append(queue, t)
<1>1. ProcessQueue(execs, map, q, runningCount) /\ outcomes' = outcomes
  BY DEF enqueue
<1>2. new \in Execution /\ new.phase = "idle" /\ new.state = "queued"
  BY DEF Execution, ExecutionState, Phase
<1> HIDE DEF new
<1>3. /\ execs \in Seq(Execution) /\ Len(execs) = Len(executions) + 1
      /\ DOMAIN execs = 1..(Len(executions) + 1)
      /\ execs[Len(executions) + 1] = new
      /\ \A e \in DOMAIN executions : execs[e] = executions[e]
  BY <1>2, Facts
<1>4. /\ map \in [Tasks -> 0..Len(execs)]
      /\ map[t] = Len(executions) + 1
      /\ \A u \in Tasks \ {t} : map[u] = current[u]
  BY <1>3, Facts
<1>5. /\ q \in Seq(Tasks) /\ Len(q) = Len(queue) + 1 /\ Len(queue) \in Nat
      /\ DOMAIN q = 1..(Len(queue) + 1) /\ DOMAIN queue = 1..Len(queue)
      /\ q[Len(queue) + 1] = t
      /\ \A i \in DOMAIN queue : q[i] = queue[i]
  BY Facts
<1> HIDE DEF execs, map, q
<1>6. Named(map, q)
  <2> SUFFICES ASSUME NEW i \in DOMAIN q PROVE map[q[i]] # 0
    BY DEF Named
  <2>1. CASE i = Len(queue) + 1  BY <1>4, <1>5, <2>1, Facts
  <2>2. CASE i \in DOMAIN queue
    BY <1>4, <1>5, <2>2, Facts DEF Named
  <2> QED  BY <1>5, <2>1, <2>2
<1>7. Listed(execs, map, q)
  <2> SUFFICES ASSUME NEW u \in Tasks, map[u] # 0, execs[map[u]].state = "queued"
               PROVE  \E i \in DOMAIN q : q[i] = u
    BY DEF Listed
  <2>1. CASE u = t  BY <1>5, <2>1
  <2>2. CASE u # t
    <3>1. map[u] = current[u] /\ current[u] \in DOMAIN executions
      BY <1>4, <2>2, Facts
    <3>2. PICK i \in DOMAIN queue : queue[i] = u
      BY <1>3, <3>1, Facts DEF Listed
    <3> QED  BY <1>5, <3>2
  <2> QED  BY <2>1, <2>2
<1>8. runningCount = Cardinality(Inside(execs))
  <2>1. Inside(execs) = Inside(executions)
    BY <1>2, <1>3, Facts DEF Inside
  <2> QED  BY <2>1, Facts
<1>9. \A e \in DOMAIN execs : Coherent(execs[e])
  <2>1. Coherent(new)  BY <1>2 DEF Coherent
  <2> QED  BY <1>3, <2>1, Facts
<1>10. /\ executions' \in Seq(Execution) /\ Len(executions') = Len(execs)
       /\ current' = map /\ queue' \in Seq(Tasks) /\ runningCount' \in 0..MaxConcurrent
       /\ \A e \in DOMAIN execs :
            \/ executions'[e] = execs[e]
            \/ execs[e].state = "queued" /\ executions'[e] = Run(execs[e])
       /\ \A e \in DOMAIN executions' : Coherent(executions'[e])
       /\ Named(current, queue)' /\ RunningCountIsExact' /\ NoIdleSlot'
  BY <1>1, <1>3, <1>4, <1>5, <1>6, <1>7, <1>8, <1>9, Facts, ProcessQueueStep
<1>11. ExecutorTypeOK'
  BY <1>1, <1>3, <1>4, <1>10 DEF ExecutorTypeOK, ExecutorIInv
<1>12. \A e \in DOMAIN executions :
         \/ executions'[e] = executions[e]
         \/ executions[e].state = "queued" /\ executions'[e] = Run(executions[e])
  BY <1>3, <1>10, Facts
<1>13. OutcomeMatchesState'
  <2>1. \A e \in DOMAIN execs : execs[e] \in Execution  BY <1>3
  <2>2. \A e \in DOMAIN execs : execs[e].state = "queued" =>
          execs[e].phase # "done" /\ Run(execs[e]).phase # "done"
    BY <1>9, <2>1 DEF Coherent, Run, Execution
  <2>3. DOMAIN executions' = DOMAIN execs  BY <1>3, <1>10
  <2>4. \A e \in DOMAIN executions :
          \/ executions'[e] = executions[e]
          \/ executions[e].phase # "done" /\ executions'[e].phase # "done"
    BY <1>3, <1>12, <2>2, Facts
  <2>5. \A e \in DOMAIN executions' \ DOMAIN executions : executions'[e].phase # "done"
    <3> SUFFICES executions'[Len(executions) + 1].phase # "done"
      BY <1>3, <2>3, Facts
    <3>1. Len(executions) + 1 \in DOMAIN execs /\ execs[Len(executions) + 1] = new
      BY <1>3, Facts
    <3> QED  BY <1>2, <1>10, <2>2, <3>1
  <2>6. DOMAIN executions \subseteq DOMAIN executions'  BY <1>3, <2>3, Facts
  <2> QED  BY <1>1, <2>4, <2>5, <2>6, OutcomesKept
<1> QED  BY <1>10, <1>11, <1>12, <1>13 DEF ExecutorIInv

\* A set of natural numbers has a least element.
LEMMA Least ==
  ASSUME NEW S, S \subseteq Nat, S # {}
  PROVE  \E n \in S : \A m \in S : n <= m
<1> DEFINE less == OpToRel(<, Nat)
<1>1. IsWellFoundedOn(less, Nat)  BY NatLessThanWellFounded
<1>2. \A m, n \in Nat : m < n => <<m, n>> \in less  BY DEF OpToRel
<1> HIDE DEF less
<1>3. PICK n \in S : \A m \in S : ~(<<m, n>> \in less)  BY <1>1, WFMin
<1>4. \A m \in S : ~(m < n)  BY <1>2, <1>3
<1> QED  BY <1>3, <1>4

\* Taking the first entry of t off the queue leaves the entries of the others.
LEMMA WithoutKeeps ==
  ASSUME NEW STATE q, q \in Seq(Tasks), NEW CONSTANT t
  PROVE  /\ Without(q, t) \in Seq(Tasks)
         /\ \A i \in DOMAIN q : q[i] # t =>
              \E j \in DOMAIN Without(q, t) : Without(q, t)[j] = q[i]
         /\ \A j \in DOMAIN Without(q, t) : \E i \in DOMAIN q : Without(q, t)[j] = q[i]
<1>1. Len(q) \in Nat /\ DOMAIN q = 1..Len(q) /\ \A i \in DOMAIN q : q[i] \in Tasks
  OBVIOUS
<1>2. CASE \A i \in DOMAIN q : q[i] # t
  <2>1. Without(q, t) = q  BY <1>1, <1>2 DEF Without, RemoveFirst
  <2> QED  BY <1>1, <2>1
<1>3. CASE \E i \in DOMAIN q : q[i] = t
  <2> DEFINE found == {i \in 1..Len(q) : q[i] = t}
             n == Min(found)
             front == SubSeq(q, 1, n - 1)
             rest == SubSeq(q, n + 1, Len(q))
  <2>1. n \in found
    <3>1. found \subseteq Nat /\ found # {}  BY <1>1, <1>3
    <3>2. \E x \in found : \A y \in found : x <= y  BY <3>1, Least
    <3> HIDE DEF found
    <3> QED  BY <3>2 DEF Min
  <2>2. n \in 1..Len(q) /\ q[n] = t  BY <2>1
  <2>3. Without(q, t) = front \o rest
    BY <1>1, <1>3 DEF Without, RemoveFirst, RemoveAt, SelectInSeq
  <2> HIDE DEF n
  <2>4. /\ front \in Seq(Tasks) /\ Len(front) = n - 1
        /\ \A i \in 1..(n - 1) : front[i] = q[i]
    BY <1>1, <2>2, SubSeqProperties
  <2>5. /\ rest \in Seq(Tasks) /\ Len(rest) = Len(q) - n
        /\ \A i \in 1..(Len(q) - n) : rest[i] = q[n + i]
    <3>1. /\ rest \in Seq(Tasks)
          /\ Len(rest) = IF n + 1 <= Len(q) THEN Len(q) - (n + 1) + 1 ELSE 0
          /\ \A i \in 1..(Len(q) - (n + 1) + 1) : rest[i] = q[(n + 1) + i - 1]
      BY <1>1, <2>2, SubSeqProperties
    <3>2. Len(rest) = Len(q) - n
      <4>1. Len(rest) = IF n + 1 <= Len(q) THEN Len(q) - (n + 1) + 1 ELSE 0  BY <3>1
      <4>2. n \in Nat /\ Len(q) \in Nat /\ n <= Len(q)  BY <1>1, <2>2
      <4> HIDE DEF rest
      <4> QED  BY <4>1, <4>2
    <3>3. ASSUME NEW i \in 1..(Len(q) - n) PROVE rest[i] = q[n + i]
      <4>1. (n + 1) + i - 1 = n + i  BY <1>1, <2>2
      <4>2. i \in 1..(Len(q) - (n + 1) + 1)  BY <1>1, <2>2
      <4> QED  BY <3>1, <4>1, <4>2
    <3> QED  BY <3>1, <3>2, <3>3
  <2> HIDE DEF front, rest
  <2>6. /\ front \o rest \in Seq(Tasks)
        /\ Len(front \o rest) = Len(q) - 1
        /\ \A i \in 1..(n - 1) : (front \o rest)[i] = q[i]
        /\ \A i \in n..(Len(q) - 1) : (front \o rest)[i] = q[i + 1]
    <3>1. /\ front \o rest \in Seq(Tasks)
          /\ Len(front \o rest) = Len(front) + Len(rest)
          /\ \A i \in 1..(Len(front) + Len(rest)) :
               (front \o rest)[i] = IF i <= Len(front) THEN front[i] ELSE rest[i - Len(front)]
      BY <2>4, <2>5, ConcatProperties
    <3>2. Len(front) + Len(rest) = Len(q) - 1  BY <1>1, <2>2, <2>4, <2>5
    <3>3. ASSUME NEW i \in 1..(n - 1) PROVE (front \o rest)[i] = q[i]
      BY <1>1, <2>2, <2>4, <3>1, <3>2
    <3>4. ASSUME NEW i \in n..(Len(q) - 1) PROVE (front \o rest)[i] = q[i + 1]
      <4>1. i - (n - 1) \in 1..(Len(q) - n) /\ n + (i - (n - 1)) = i + 1
        BY <1>1, <2>2
      <4>2. i \in 1..(Len(front) + Len(rest)) /\ ~(i <= Len(front))
        BY <1>1, <2>2, <2>4, <3>2
      <4> QED  BY <2>4, <2>5, <3>1, <4>1, <4>2
    <3> QED  BY <3>1, <3>2, <3>3, <3>4
  <2> DEFINE left == front \o rest
  <2>7. DOMAIN left = 1..(Len(q) - 1)  BY <2>6
  <2> HIDE DEF left
  <2>8. ASSUME NEW i \in DOMAIN q, q[i] # t PROVE \E j \in DOMAIN left : left[j] = q[i]
    <3>1. CASE i < n
      <4>1. i \in 1..(n - 1) /\ i \in DOMAIN left  BY <1>1, <2>2, <2>7, <3>1
      <4> QED  BY <2>6, <4>1 DEF left
    <3>2. CASE i > n
      <4>1. i - 1 \in n..(Len(q) - 1) /\ i - 1 \in DOMAIN left /\ (i - 1) + 1 = i
        BY <1>1, <2>2, <2>7, <3>2
      <4> QED  BY <2>6, <4>1 DEF left
    <3> QED  BY <1>1, <2>2, <2>8, <3>1, <3>2
  <2>9. ASSUME NEW j \in DOMAIN left PROVE \E i \in DOMAIN q : left[j] = q[i]
    <3>1. CASE j < n
      <4>1. j \in 1..(n - 1) /\ j \in DOMAIN q  BY <1>1, <2>2, <2>7, <3>1
      <4> QED  BY <2>6, <4>1 DEF left
    <3>2. CASE ~(j < n)
      <4>1. j \in n..(Len(q) - 1) /\ j + 1 \in DOMAIN q  BY <1>1, <2>2, <2>7, <3>2
      <4> QED  BY <2>6, <4>1 DEF left
    <3> QED  BY <3>1, <3>2
  <2>10. left \in Seq(Tasks) /\ Without(q, t) = left  BY <2>3, <2>6 DEF left
  <2> QED  BY <2>8, <2>9, <2>10
<1> QED  BY <1>2, <1>3

\* cancel marks an execution failed before its result is known.
LEMMA CancelStep ==
  ASSUME ExecutorIInv, NEW t \in Tasks, cancel(t)
  PROVE  /\ ExecutorIInv'
         /\ \A x \in DOMAIN executions : executions'[x].phase = executions[x].phase
<1> DEFINE e == current[t]
<1>1. /\ e \in DOMAIN executions /\ executions[e] \in Execution
      /\ executions[e].state \in {"queued", "running"}
      /\ executions' = [executions EXCEPT ![e].state = "failed"]
      /\ current' = current /\ runningCount' = runningCount /\ outcomes' = outcomes
      /\ queue' = IF executions[e].state = "queued" THEN Without(queue, t) ELSE queue
  BY Facts DEF cancel, Cancellable
<1>2. /\ executions' \in Seq(Execution) /\ Len(executions') = Len(executions)
      /\ DOMAIN executions' = DOMAIN executions
      /\ executions'[e].state = "failed" /\ executions'[e].phase = executions[e].phase
      /\ \A x \in DOMAIN executions \ {e} : executions'[x] = executions[x]
  <2>1. [executions[e] EXCEPT !.state = "failed"] \in Execution
    BY <1>1 DEF Execution, ExecutionState
  <2>2. executions' = [executions EXCEPT ![e] = [executions[e] EXCEPT !.state = "failed"]]
    BY <1>1
  <2>3. /\ executions' \in Seq(Execution) /\ Len(executions') = Len(executions)
        /\ \A x \in 1..Len(executions) :
             executions'[x] = IF x = e THEN [executions[e] EXCEPT !.state = "failed"]
                              ELSE executions[x]
    BY <1>1, <2>1, <2>2, Facts, ExceptSeq
  <2> QED  BY <1>1, <2>1, <2>3, Facts DEF Execution
<1> HIDE DEF e
<1>3. executions[e].phase \in {"idle", "racing"}
  BY <1>1, Facts DEF Coherent, Execution, Phase
<1>4. \A x \in DOMAIN executions' : Coherent(executions'[x])
  BY <1>2, <1>3, Facts DEF Coherent
<1>5. /\ queue' \in Seq(Tasks)
      /\ \A i \in DOMAIN queue : queue[i] # t =>
           \E j \in DOMAIN queue' : queue'[j] = queue[i]
      /\ \A j \in DOMAIN queue' : \E i \in DOMAIN queue : queue'[j] = queue[i]
  BY <1>1, WithoutKeeps, Facts
<1>6. ExecutorTypeOK'
  BY <1>1, <1>2, <1>5 DEF ExecutorIInv, ExecutorTypeOK
<1>7. Named(current, queue)'
  BY <1>1, <1>5, Facts DEF Named
<1>8. RunningCountIsExact'
  <2>1. InExecution' = InExecution  BY <1>2 DEF InExecution
  <2> QED  BY <1>1, <2>1 DEF ExecutorIInv, RunningCountIsExact
<1>9. NoIdleSlot'
  <2> SUFFICES ASSUME NEW u \in Tasks, Waiting(u)'
               PROVE  /\ \E i \in DOMAIN queue' : queue'[i] = u
                      /\ runningCount' = MaxConcurrent
    BY DEF NoIdleSlot
  <2>1. current[u] \in DOMAIN executions /\ executions'[current[u]].state = "queued"
    BY <1>1, Facts DEF Waiting
  <2>2. current[u] # e  BY <1>2, <2>1
  <2>3. Waiting(u) /\ u # t  BY <1>1, <1>2, <2>1, <2>2, Facts DEF Waiting, e
  <2> QED  BY <1>1, <1>5, <2>3 DEF ExecutorIInv, NoIdleSlot
<1>10. OutcomeMatchesState'
  <2>1. executions[e].phase # "done" /\ executions'[e].phase # "done"  BY <1>2, <1>3
  <2> QED  BY <1>1, <1>2, <2>1, OutcomesKept
<1> QED  BY <1>2, <1>4, <1>6, <1>7, <1>8, <1>9, <1>10 DEF ExecutorIInv

\* The race of an execution is decided.
LEMMA DecideStep ==
  ASSUME ExecutorIInv, NEW e \in DOMAIN executions,
         NEW state, NEW phase,
         \/ state = "completed" /\ phase = "completing"
         \/ state \in {"failed", "timed_out"} /\ phase = "failing",
         Decide(e, state, phase)
  PROVE  /\ ExecutorIInv'
         /\ \A x \in DOMAIN executions : executions'[x].phase # "racing"
                                         \/ executions'[x] = executions[x]
<1>1. /\ executions[e].phase = "racing" /\ executions[e] \in Execution
      /\ executions' = [executions EXCEPT ![e].state = state, ![e].phase = phase]
      /\ current' = current /\ runningCount' = runningCount /\ outcomes' = outcomes
      /\ queue' = queue
  BY Facts DEF Decide
<1>2. /\ executions' \in Seq(Execution) /\ Len(executions') = Len(executions)
      /\ DOMAIN executions' = DOMAIN executions
      /\ executions'[e].state = state /\ executions'[e].phase = phase
      /\ \A x \in DOMAIN executions \ {e} : executions'[x] = executions[x]
  <2> DEFINE decided == [[executions[e] EXCEPT !.state = state] EXCEPT !.phase = phase]
  <2>1. decided \in Execution /\ decided.state = state /\ decided.phase = phase
    BY <1>1 DEF Execution, ExecutionState, Phase
  <2>2. executions' = [executions EXCEPT ![e] = decided]
    BY <1>1
  <2> HIDE DEF decided
  <2>3. /\ executions' \in Seq(Execution) /\ Len(executions') = Len(executions)
        /\ \A x \in 1..Len(executions) :
             executions'[x] = IF x = e THEN decided ELSE executions[x]
    BY <2>1, <2>2, Facts, ExceptSeq
  <2> QED  BY <2>1, <2>3, Facts
<1>3. \A x \in DOMAIN executions' : Coherent(executions'[x])
  <2>1. Coherent(executions'[e])  BY <1>2 DEF Coherent
  <2> QED  BY <1>2, <2>1, Facts
<1>4. ExecutorTypeOK' /\ Named(current, queue)'
  <2>1. ExecutorTypeOK'  BY <1>1, <1>2 DEF ExecutorIInv, ExecutorTypeOK
  <2>2. Named(current, queue)'  BY <1>1, Facts DEF Named
  <2> QED  BY <2>1, <2>2
<1>5. RunningCountIsExact'
  <2>1. InExecution' = InExecution  BY <1>1, <1>2 DEF InExecution
  <2> QED  BY <1>1, <2>1 DEF ExecutorIInv, RunningCountIsExact
<1>6. NoIdleSlot'
  <2>1. \A u \in Tasks : Waiting(u)' => Waiting(u)
    BY <1>1, <1>2, Facts DEF Waiting
  <2> QED  BY <1>1, <2>1 DEF ExecutorIInv, NoIdleSlot
<1>7. OutcomeMatchesState'
  <2>1. executions[e].phase # "done" /\ executions'[e].phase # "done"  BY <1>1, <1>2
  <2> QED  BY <1>1, <1>2, <2>1, OutcomesKept
<1> QED  BY <1>2, <1>3, <1>4, <1>5, <1>6, <1>7 DEF ExecutorIInv

\* An execution ends, its record is stored, and the queue is processed.
LEMMA FinishStep ==
  ASSUME ExecutorIInv, NEW e \in DOMAIN executions, Finish(e)
  PROVE  /\ ExecutorIInv'
         /\ \A x \in DOMAIN executions :
              \/ executions'[x].phase # "racing"
              \/ executions'[x].phase = executions[x].phase
              \/ executions[x].phase = "idle" /\ executions[x].state = "queued"
<1> DEFINE ended == [executions[e] EXCEPT !.phase = "done"]
           execs == [executions EXCEPT ![e].phase = "done"]
           type == IF executions[e].phase = "completing" THEN "task.completed"
                   ELSE "task.failed"
<1>1. /\ executions[e].phase \in {"completing", "failing"} /\ executions[e] \in Execution
      /\ outcomes' = outcomes \cup {[execution |-> e, type |-> type]}
      /\ ProcessQueue(execs, current, queue, runningCount - 1)
  BY Facts DEF Finish, Finally
<1>2. /\ type \in {"task.completed", "task.failed"}
      /\ executions[e].state = "completed" <=> type = "task.completed"
  BY <1>1, Facts DEF Coherent
<1> HIDE DEF type
<1>3. /\ ended \in Execution /\ ended.phase = "done" /\ ended.state = executions[e].state
      /\ ended.state \in {"completed", "failed", "timed_out"}
  BY <1>1, Facts DEF Execution, Phase, Coherent
<1>4. execs = [executions EXCEPT ![e] = ended]
  OBVIOUS
<1> HIDE DEF ended, execs
<1>5. /\ execs \in Seq(Execution) /\ Len(execs) = Len(executions)
      /\ DOMAIN execs = DOMAIN executions
      /\ execs[e] = ended
      /\ \A x \in DOMAIN executions \ {e} : execs[x] = executions[x]
  <2>1. /\ execs \in Seq(Execution) /\ Len(execs) = Len(executions)
        /\ \A x \in 1..Len(executions) : execs[x] = IF x = e THEN ended ELSE executions[x]
    BY <1>3, <1>4, Facts, ExceptSeq
  <2> QED  BY <2>1, Facts
<1>6. \A x \in DOMAIN execs : Coherent(execs[x])
  BY <1>3, <1>5, Facts DEF Coherent
<1>7. /\ runningCount - 1 \in 0..MaxConcurrent
      /\ runningCount - 1 = Cardinality(Inside(execs))
  <2>1. Inside(execs) = Inside(executions) \ {e}
    BY <1>3, <1>5 DEF Inside
  <2>2. IsFiniteSet(Inside(executions)) /\ e \in Inside(executions)
    BY <1>1, Facts, Finite DEF Inside
  <2>3. Cardinality(Inside(executions) \ {e}) = Cardinality(Inside(executions)) - 1
        /\ IsFiniteSet(Inside(executions) \ {e})
    BY <2>2, FS_RemoveElement
  <2>4. Cardinality(Inside(executions) \ {e}) \in Nat  BY <2>3, FS_CardinalityType
  <2> QED  BY <2>1, <2>3, <2>4, Facts
<1>8. Listed(execs, current, queue)
  <2>1. \A x \in DOMAIN executions : execs[x].state = executions[x].state
    BY <1>3, <1>5
  <2> QED  BY <2>1, Facts DEF Listed
<1>9. /\ executions' \in Seq(Execution) /\ Len(executions') = Len(execs)
      /\ current' = current /\ queue' \in Seq(Tasks) /\ runningCount' \in 0..MaxConcurrent
      /\ \A x \in DOMAIN execs :
           \/ executions'[x] = execs[x]
           \/ execs[x].state = "queued" /\ executions'[x] = Run(execs[x])
      /\ \A x \in DOMAIN executions' : Coherent(executions'[x])
      /\ Named(current, queue)' /\ RunningCountIsExact' /\ NoIdleSlot'
  BY <1>1, <1>5, <1>6, <1>7, <1>8, Facts, ProcessQueueStep
<1>10. DOMAIN executions' = DOMAIN executions
  BY <1>5, <1>9
<1>11. ExecutorTypeOK'
  BY <1>1, <1>2, <1>5, <1>9 DEF ExecutorTypeOK, ExecutorIInv
<1>12. /\ executions'[e] = ended
       /\ \A x \in DOMAIN executions \ {e} :
            \/ executions'[x] = executions[x]
            \/ executions[x].state = "queued" /\ executions'[x] = Run(executions[x])
  BY <1>3, <1>5, <1>9
<1>13. \A x \in DOMAIN executions : executions[x].state = "queued" =>
         executions[x].phase = "idle" /\ Run(executions[x]).phase = "racing"
  BY Facts DEF Coherent, Execution, Phase, Run
<1>14. OutcomeMatchesState'
  <2> DEFINE types(x) == {o.type : o \in {p \in outcomes : p.execution = x}}
             typesAfter(x) == {o.type : o \in {p \in outcomes' : p.execution = x}}
  <2> SUFFICES ASSUME NEW x \in DOMAIN executions'
               PROVE  typesAfter(x) = IF executions'[x].phase # "done" THEN {}
                                 ELSE IF executions'[x].state = "completed"
                                      THEN {"task.completed"} ELSE {"task.failed"}
    BY DEF OutcomeMatchesState
  <2>1. types(x) = IF executions[x].phase # "done" THEN {}
                   ELSE IF executions[x].state = "completed"
                        THEN {"task.completed"} ELSE {"task.failed"}
    BY <1>10 DEF ExecutorIInv, OutcomeMatchesState
  <2>2. CASE x = e
    <3> DEFINE record == [execution |-> e, type |-> type]
    <3>1. typesAfter(x) = types(x) \cup {type}
      <4>1. record.execution = x /\ record.type = type  BY <2>2
      <4>2. outcomes' = outcomes \cup {record}  BY <1>1
      <4> HIDE DEF record
      <4>3. {p \in outcomes' : p.execution = x} = {p \in outcomes : p.execution = x} \cup {record}
        BY <4>1, <4>2
      <4> QED  BY <4>1, <4>3
    <3> HIDE DEF types, typesAfter
    <3> QED  BY <1>1, <1>2, <1>3, <1>12, <2>1, <2>2, <3>1
  <2>3. CASE x # e
    <3>1. typesAfter(x) = types(x)  BY <1>1, <2>3
    <3> HIDE DEF types, typesAfter
    <3> QED  BY <1>10, <1>12, <1>13, <2>1, <2>3, <3>1
  <2> QED  BY <2>2, <2>3
<1>15. \A x \in DOMAIN executions :
         \/ executions'[x].phase # "racing"
         \/ executions'[x].phase = executions[x].phase
         \/ executions[x].phase = "idle" /\ executions[x].state = "queued"
  BY <1>3, <1>12, <1>13
<1> QED  BY <1>9, <1>11, <1>14, <1>15 DEF ExecutorIInv

-----------------------------------------------------------------------------
(* The theorems.                                                           *)

\* A step keeps the invariant and starts only what is queued.
LEMMA NextStep ==
  ASSUME ExecutorIInv, [ExecutorNext]_executorVars
  PROVE  /\ ExecutorIInv'
         /\ \A e \in DOMAIN executions :
              executions'[e].phase = "racing" /\ executions[e].phase # "racing" =>
                executions[e].phase = "idle" /\ executions[e].state = "queued"
<1>1. CASE \E t \in Tasks : enqueue(t)
  <2>1. PICK t \in Tasks : enqueue(t)  BY <1>1
  <2>2. \A e \in DOMAIN executions : executions[e].state = "queued" =>
          executions[e].phase = "idle"
    BY Facts DEF Coherent, Execution, Phase
  <2> QED  BY <2>1, <2>2, EnqueueStep
<1>2. CASE \E t \in Tasks : cancel(t)
  BY <1>2, CancelStep
<1>3. CASE \E e \in DOMAIN executions : AgentReturns(e) \/ AgentThrows(e) \/ TimesOut(e)
  <2>1. PICK e \in DOMAIN executions : AgentReturns(e) \/ AgentThrows(e) \/ TimesOut(e)
    BY <1>3
  <2>2. CASE AgentReturns(e)
    <3>1. Decide(e, "completed", "completing")  BY <2>2 DEF AgentReturns
    <3> QED  BY <3>1, DecideStep
  <2>3. CASE AgentThrows(e)
    <3>1. Decide(e, "failed", "failing")  BY <2>3 DEF AgentThrows
    <3> QED  BY <3>1, DecideStep
  <2>4. CASE TimesOut(e)
    <3>1. Decide(e, "timed_out", "failing")  BY <2>4 DEF TimesOut
    <3> QED  BY <3>1, DecideStep
  <2> QED  BY <2>1, <2>2, <2>3, <2>4
<1>4. CASE \E e \in DOMAIN executions : Finish(e)
  BY <1>4, FinishStep
<1>5. CASE UNCHANGED executorVars
  <2>1. ExecutorIInv'
    BY <1>5 DEF ExecutorIInv, executorVars, ExecutorTypeOK, Coherent, Named, RunningCountIsExact, InExecution,
                NoIdleSlot, Waiting, OutcomeMatchesState
  <2> QED  BY <1>5, <2>1 DEF executorVars
<1> QED  BY <1>1, <1>2, <1>3, <1>4, <1>5 DEF ExecutorNext

\* The invariant holds in every behaviour.
THEOREM InvariantHolds == ExecutorSpec => []ExecutorIInv
<1>1. ExecutorInit => ExecutorIInv  BY InitInv
<1>2. ExecutorIInv /\ [ExecutorNext]_executorVars => ExecutorIInv'  BY NextStep
<1> QED  BY <1>1, <1>2, PTL DEF ExecutorSpec

\* The state of the executor has its types: the slots are never overdrawn, the
\* queue holds tasks and every record is of an execution.
THEOREM TypeCorrect == ExecutorSpec => []ExecutorTypeOK
<1>1. ExecutorIInv => ExecutorTypeOK  BY DEF ExecutorIInv
<1> QED  BY <1>1, InvariantHolds, PTL

\* runningCount is the number of executions inside executeTask, at most
\* MaxConcurrent, whatever is cancelled or enqueued again (processQueue).
THEOREM SlotsAreCounted == ExecutorSpec => []RunningCountIsExact
<1>1. ExecutorIInv => RunningCountIsExact  BY DEF ExecutorIInv
<1> QED  BY <1>1, InvariantHolds, PTL

\* An execution waits only when it is in the queue and every slot is taken
\* (processQueue).
THEOREM SlotsAreUsed == ExecutorSpec => []NoIdleSlot
<1>1. ExecutorIInv => NoIdleSlot  BY DEF ExecutorIInv
<1> QED  BY <1>1, InvariantHolds, PTL

\* An execution leaves one record, when it is over, of the type of its final state
\* (executeTask).
THEOREM OneOutcome == ExecutorSpec => []OutcomeMatchesState
<1>1. ExecutorIInv => OutcomeMatchesState  BY DEF ExecutorIInv
<1> QED  BY <1>1, InvariantHolds, PTL

\* An execution is started once, and not after it was cancelled (processQueue,
\* cancel).
THEOREM StartedOnce == ExecutorSpec => StartsOnlyQueued
<1>1. ExecutorIInv /\ [ExecutorNext]_executorVars =>
        [\A e \in DOMAIN executions :
           executions'[e].phase = "racing" /\ executions[e].phase # "racing" =>
             executions[e].phase = "idle" /\ executions[e].state = "queued"]_executorVars
  BY NextStep
<1> QED  BY <1>1, InvariantHolds, PTL DEF ExecutorSpec, StartsOnlyQueued
=============================================================================
