----------------------- MODULE TaskProtocolProperties -----------------------
(***************************************************************************)
(* What the task protocol of the daemons should guarantee: safety, the     *)
(* implementation of TaskLifecycle, liveness, and the inductive invariant  *)
(* on which the proofs rest.                                               *)
(***************************************************************************)
EXTENDS TaskProtocol

\* Every record ever published: its author stores it before it is sent.
Published == UNION {store[a] : a \in Agents}

Assignments(t) == {r \in Published : r.type = "assigned" /\ r.task = t}
Verdicts(t) == {r \in Published : r.type = "verified" /\ r.task = t}
Settlements(t) == {r \in Published : r.type = "settled" /\ r.task = t}

TypeOK ==
  /\ online \subseteq Agents
  /\ peers \in [Agents -> SUBSET Agents]
  /\ inbox \in [Agents -> SUBSET ActivityRecord]
  /\ pending \in [Agents -> SUBSET ActivityRecord]
  /\ store \in [Agents -> SUBSET ActivityRecord]
  /\ bidsSent \in [Agents -> SUBSET Tasks]
  /\ tasksPosted \in [Agents -> SUBSET Tasks]
  /\ assignedTasks \in [Agents -> [Tasks -> Agents \cup {NoAgent}]]
  /\ completedTasks \in [Agents -> SUBSET Tasks]
  /\ escrow \in [Agents -> [Tasks -> EscrowStates]]

\* A task is assigned to one executor, by its poster, among those that bid:
\* two bids handled at once, or a poster that stops and starts in between,
\* never give the task away twice (autoAssign, "Don't assign if already
\* assigned").
SingleAssignment ==
  \A t \in Tasks : \A r, s \in Assignments(t) :
    /\ r = s
    /\ r.agent = Poster[t]
    /\ Record("bid", t, r.peer, NoAgent) \in Published

\* Nobody works, and no result is published, for a task that was not given to
\* that worker: whatever was lost or reordered on the way (executeTask).
WorkOnlyWhenAssigned ==
  \A t \in Tasks, w \in Agents :
    \/ Record("completed", t, w, NoAgent) \in Published
    \/ \E r \in pending[w] : r.type = "assigned" /\ r.task = t
    => Record("assigned", t, Poster[t], w) \in Published

\* A worker never starts before its payment is secured: while the poster that
\* made the assignment lives, its escrow is locked or already paid out
\* (autoAssign publishes after fund and confirm).
WorkIsEscrowed ==
  \A w \in Agents : \A r \in pending[w] :
    r.type = "assigned" /\ r.task \in tasksPosted[Poster[r.task]]
      => escrow[Poster[r.task]][r.task] \in {"locked", "expired", "claimed"}

\* The record a settlement (or a claim of the escrow) needs: the executor's
\* result and a verdict in its favour.
PaymentIsDue(t) ==
  /\ \E r \in Assignments(t) :
       Record("completed", t, r.peer, NoAgent) \in Published
  /\ \E v \in Verdicts(t) : v.passed

\* Money moves, and a settlement is announced, only by the poster and only
\* after the executor's own result and a passing verdict were published; an
\* attestation rates that executor (settleTask, publishAttestation).
PaymentFollowsWork ==
  \A t \in Tasks :
    /\ \A r \in Settlements(t) : r.agent = Poster[t] /\ PaymentIsDue(t)
    /\ \A a \in Agents : escrow[a][t] = "claimed" => PaymentIsDue(t)
    /\ \A r \in Published :
         r.type = "attestation" /\ r.task = t
           => Settlements(t) # {} /\ Record("assigned", t, r.agent, r.peer)
                                       \in Published

-----------------------------------------------------------------------------
(* The inductive invariant behind the safety properties.                   *)

\* Who writes which record, and what its fields hold.
WellFormed(r) ==
  /\ r.type \in {"posted", "assigned", "settled", "attestation"}
       => r.agent = Poster[r.task]
  /\ r.type \in {"posted", "bid", "completed"} => r.peer = NoAgent
  /\ r.type = "assigned" => r.peer \in Agents
  /\ r.type # "verified" => r.passed

\* The published records the author of r acted on.
RestsOn(r) ==
  /\ r.type \in {"bid", "assigned"}
       => Record("posted", r.task, Poster[r.task], NoAgent) \in Published
  /\ r.type = "assigned" => Record("bid", r.task, r.peer, NoAgent) \in Published
  /\ r.type = "completed"
       => Record("assigned", r.task, Poster[r.task], r.agent) \in Published
  /\ r.type = "verified"
       => \E c \in Published : c.type = "completed" /\ c.task = r.task
  /\ r.type = "settled" => \E v \in Verdicts(r.task) : v.passed
  /\ r.type = "attestation"
       => /\ Settlements(r.task) # {}
          /\ Record("assigned", r.task, r.agent, r.peer) \in Published

Ledger ==
  /\ \A r \in Published : WellFormed(r) /\ RestsOn(r)
  /\ \A t \in Tasks : \A r, s \in Assignments(t) : r = s

\* What is under way or parked was published, and authors keep their records.
Stored ==
  /\ \A a \in Agents : inbox[a] \subseteq Published /\ pending[a] \subseteq Published
  /\ \A a \in Agents : \A r \in store[a] : r \in store[r.agent]

\* The maps of a poster agree with what it has published.
DeskOf(a, t) ==
  /\ t \in tasksPosted[a] => a = Poster[t]
  /\ assignedTasks[a][t] # NoAgent => t \in tasksPosted[a]
  /\ t \in tasksPosted[a] =>
       \A r \in Assignments(t) :
         /\ assignedTasks[a][t] = r.peer
         /\ escrow[a][t] \in {"locked", "expired", "claimed"}
  /\ escrow[a][t] = "claimed" => \E v \in Verdicts(t) : v.passed

Desk == \A a \in Agents, t \in Tasks : DeskOf(a, t)

\* A parked handler still has the reasons it was parked for.
Grounds(a, r) ==
  /\ r.type = "bid" => /\ r.task \in tasksPosted[a]
                       /\ assignedTasks[a][r.task] = r.agent
                       /\ Assignments(r.task) = {}
  /\ r.type = "assigned" => r.peer = a
  /\ r.type = "verified" => r.task \in tasksPosted[a] /\ r.passed
  /\ r.type = "settled" => assignedTasks[a][r.task] # NoAgent

Parked == \A a \in Agents : \A r \in pending[a] : Grounds(a, r)

IInv == TypeOK /\ Ledger /\ Stored /\ Desk /\ Parked

-----------------------------------------------------------------------------
(* What the documents say and the code does not do.                        *)

\* SPEC.md 6.3 step 13 and the state machine of 6.2: a task is settled once.
\* autoVerify never verifies twice, but the passing verdict of a peer starts
\* a settlement of its own.
SingleSettlement ==
  \A t \in Tasks : \A r, s \in Settlements(t) : r = s

\* SPEC.md 6.3 steps 11 to 13: when the settlement is published the worker has
\* claimed the escrow.
SettledMeansClaimed ==
  \A t \in Tasks :
    /\ Settlements(t) # {}
    /\ t \in tasksPosted[Poster[t]]
    => escrow[Poster[t]][t] = "claimed"

\* An agent bids only while it has capacity: what it executes never exceeds
\* max_concurrent_tasks (skill/SKILL.md, bidder.ts, tests/marketplace.test.ts).
CapacityRespected ==
  \A a \in Agents :
    Cardinality({r \in pending[a] : r.type = "assigned"}) <= MaxConcurrentTasks

\* SPEC.md 6.3 step 12 and 8.3: both parties attest a settled task.
BothPartiesAttest ==
  \A t \in Tasks, w \in Agents :
    Settlements(t) # {} /\ w \in {r.peer : r \in Assignments(t)}
      ~> \E r \in Published : r.type = "attestation" /\ r.task = t /\ r.agent = w

\* SPEC.md 6.4: an escrow whose time has run out goes back to the requester,
\* if the worker has not claimed it.
EscrowResolved ==
  \A t \in Tasks :
    escrow[Poster[t]][t] = "expired" ~> escrow[Poster[t]][t] # "expired"

-----------------------------------------------------------------------------
(* The protocol implements TaskLifecycle: the status of a task is read off *)
(* the published records in the order of precedence of resolveStatus.      *)

Seen(t, type) == \E r \in Published : r.task = t /\ r.type = type

Status(t) ==
  IF Seen(t, "settled") THEN "settled"
  ELSE IF Seen(t, "verified") THEN "verified"
  ELSE IF Seen(t, "completed") THEN "completed"
  ELSE IF Seen(t, "assigned") THEN "assigned"
  ELSE IF Seen(t, "posted") THEN "open"
  ELSE "unposted"

Bidders(t) == {w \in Agents : Record("bid", t, w, NoAgent) \in Published}
Worker(t) == {w \in Agents : \E r \in Assignments(t) : r.peer = w}
Approved == {t \in Tasks : \E v \in Verdicts(t) : v.passed}

Lifecycle == INSTANCE TaskLifecycle WITH
  status <- [t \in Tasks |-> Status(t)],
  bidders <- [t \in Tasks |-> Bidders(t)],
  worker <- [t \in Tasks |-> Worker(t)],
  approved <- Approved

\* Seen from outside every task goes through the life TaskLifecycle describes,
\* step by step and never back, through stops, cuts, losses and verdicts of
\* peers (the whole of handleIncomingRecord).
ImplementsLifecycle == Lifecycle!Spec

-----------------------------------------------------------------------------
(* Liveness, under FairSpec.                                               *)

\* A posted task that some peer is willing to do is settled in the end, and
\* its executor rated, when nothing fails (the chain of handlers autoBid,
\* autoAssign, executeTask, autoVerify, settleTask, publishAttestation).
EventuallySettled ==
  \A t \in Tasks :
    t \in tasksPosted[Poster[t]] /\ Willing[t] \ {Poster[t]} # {}
      ~> \E r \in Published : r.type = "attestation" /\ r.task = t
                            /\ r.agent = Poster[t]
=============================================================================
