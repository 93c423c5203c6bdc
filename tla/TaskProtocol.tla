---------------------------- MODULE TaskProtocol ----------------------------
(***************************************************************************)
(* The task protocol the rird daemons run among themselves                 *)
(* (src/src/daemon/index.ts): a requester posts a task, peers bid, the     *)
(* first bid to arrive gets the task and an escrow, the executor works,    *)
(* the requester verifies, settles and attests.                            *)
(*                                                                         *)
(* Every handler of the daemon is an async function.  It runs without      *)
(* interruption up to its first real wait (a signature computed off the    *)
(* event loop, or a timer) and continues in a later turn, when other       *)
(* records may have been handled.  A handler is therefore two actions:     *)
(* Receive... does what happens before the wait and parks the record that  *)
(* triggered it in pending; Send... is the continuation.  Records that     *)
(* arrive are verified asynchronously before they are routed, so inbox is  *)
(* a set: nothing keeps the order in which they were sent.                 *)
(*                                                                         *)
(* A record is broadcast once, to the peers connected at that moment; it   *)
(* is never forwarded and never sent again.  The maps of the daemon's      *)
(* context are lost when the process stops; the record store is not.       *)
(***************************************************************************)
EXTENDS Naturals, FiniteSets

CONSTANTS
  Agents,              \* the daemons
  Tasks,               \* one element per "post:" command
  Poster,              \* Poster[t]: the agent whose user posts t
  Willing,             \* Willing[t]: agents whose skills and price fit t
  Verifiers,           \* peers that publish a verdict of their own
  MaxConcurrentTasks,  \* config agent.max_concurrent_tasks
  MayStop,             \* agents whose process may stop (and start again)
  Faults,              \* which of "cut" and "late" may happen
  NoAgent              \* "no entry" in a map from tasks to agents

ASSUME ConstantsAssumption ==
  /\ Poster \in [Tasks -> Agents]
  /\ Willing \in [Tasks -> SUBSET Agents]
  /\ Verifiers \subseteq Agents
  /\ MaxConcurrentTasks \in Nat \ {0}
  /\ MayStop \subseteq Agents
  /\ Faults \subseteq {"cut", "late"}
  /\ NoAgent \notin Agents

VARIABLES
  online,         \* agents whose process runs
  peers,          \* peers[a]: NetworkNode's map of live connections
  inbox,          \* inbox[a]: records on their way to a's record handler
  pending,        \* pending[a]: records whose handler is parked at a wait
  store,          \* store[a]: the SQLite activity store (survives a stop)
  bidsSent,       \* the four maps of DaemonContext, lost at a stop
  tasksPosted,
  assignedTasks,
  completedTasks,
  escrow          \* escrow[a][t]: a's in-memory escrow for t

network  == <<online, peers>>
context  == <<bidsSent, tasksPosted, assignedTasks, completedTasks, escrow>>
vars == <<network, inbox, pending, store, context>>

-----------------------------------------------------------------------------
(* Activity records.  The id is the hash of the content, so two records    *)
(* are the same record exactly when they are equal.                        *)

RecordTypes == {"posted", "bid", "assigned", "completed", "verified",
                "settled", "attestation"}

\* peer: the executor (assigned), the author of the verdict acted on
\* (settled), the agent rated (attestation).  passed: the verdict (verified).
ActivityRecord == [type : RecordTypes, task : Tasks, agent : Agents,
                   peer : Agents \cup {NoAgent}, passed : BOOLEAN]

Record(type, t, a, p) ==
  [type |-> type, task |-> t, agent |-> a, peer |-> p, passed |-> TRUE]

EscrowStates == {"none", "pending", "locked", "expired", "claimed"}

-----------------------------------------------------------------------------
Init ==
  /\ online = Agents
  /\ peers = [a \in Agents |-> Agents \ {a}]
  /\ inbox = [a \in Agents |-> {}]
  /\ pending = [a \in Agents |-> {}]
  /\ store = [a \in Agents |-> {}]
  /\ bidsSent = [a \in Agents |-> {}]
  /\ tasksPosted = [a \in Agents |-> {}]
  /\ assignedTasks = [a \in Agents |-> [t \in Tasks |-> NoAgent]]
  /\ completedTasks = [a \in Agents |-> {}]
  /\ escrow = [a \in Agents |-> [t \in Tasks |-> "none"]]

-----------------------------------------------------------------------------
(* Building blocks of the handlers.                                        *)

\* store.insert, then gossip.publish: broadcast to the connected peers.
Publish(a, r) ==
  /\ store' = [store EXCEPT ![a] = @ \cup {r}]
  /\ inbox' = [b \in Agents |->
                 IF b \in peers[a] THEN inbox[b] \cup {r} ELSE inbox[b]]

\* handleIncomingRecord up to the switch: skip our own records, store the rest.
Handle(a, r) ==
  /\ a \in online
  /\ r \in inbox[a]
  /\ inbox' = [inbox EXCEPT ![a] = @ \ {r}]
  /\ store' = IF r.agent = a THEN store
              ELSE [store EXCEPT ![a] = @ \cup {r}]

\* The handler of r goes on to its first wait if cond holds, else returns.
ParkIf(cond, a, r) ==
  pending' = IF cond THEN [pending EXCEPT ![a] = @ \cup {r}] ELSE pending

\* A parked handler continues and is done, or waits again on behalf of next.
Resume(a, r, next) ==
  /\ r \in pending[a]
  /\ pending' = [pending EXCEPT ![a] = (@ \ {r}) \cup next]

-----------------------------------------------------------------------------
(* The command line: "post: <description> --budget <xmr>".                 *)

Post(a, t) ==
  LET r == Record("posted", t, a, NoAgent) IN
  /\ a \in online
  /\ Poster[t] = a
  /\ r \notin store[a]
  /\ Publish(a, r)
  /\ tasksPosted' = [tasksPosted EXCEPT ![a] = @ \cup {t}]
  /\ UNCHANGED <<network, pending, bidsSent, assignedTasks, completedTasks,
                 escrow>>

-----------------------------------------------------------------------------
(* Bidding.                                                                *)

\* bidder.ts declares the set of active tasks and never adds to it.
ActiveTasks(a) == {}

\* Whether bidder.evaluate recommends a bid: capacity, skills and price, and a
\* deadline that has come too close when the record was long under way.
Evaluate(a, t) ==
  { bid \in BOOLEAN :
      IF Cardinality(ActiveTasks(a)) < MaxConcurrentTasks /\ a \in Willing[t]
      THEN bid \/ "late" \in Faults
      ELSE ~bid }

Bids(a, r, bid) == r.agent # a /\ r.task \notin bidsSent[a] /\ bid

ReceivePosted(a, r) ==
  /\ r.type = "posted"
  /\ Handle(a, r)
  /\ \E bid \in Evaluate(a, r.task) :
       /\ bidsSent' = IF Bids(a, r, bid)
                      THEN [bidsSent EXCEPT ![a] = @ \cup {r.task}]
                      ELSE bidsSent
       /\ ParkIf(Bids(a, r, bid), a, r)
  /\ UNCHANGED <<network, tasksPosted, assignedTasks, completedTasks, escrow>>

SendBid(a, r) ==
  /\ r.type = "posted"
  /\ Resume(a, r, {})
  /\ Publish(a, Record("bid", r.task, a, NoAgent))
  /\ UNCHANGED <<network, context>>

-----------------------------------------------------------------------------
(* Assignment.                                                             *)

\* Mutant of Assigns: "don't assign if already assigned" is dropped.
AssignsAgain(a, r) == r.agent # a /\ r.task \in tasksPosted[a]

\* The first bid for one of our tasks takes it.
Assigns(a, r) ==
  r.agent # a /\ r.task \in tasksPosted[a] /\ assignedTasks[a][r.task] = NoAgent

\* The entry in assignedTasks and the escrow are made before the first wait.
ReceiveBid(a, r) ==
  /\ r.type = "bid"
  /\ Handle(a, r)
  /\ IF Assigns(a, r)
     THEN /\ assignedTasks' = [assignedTasks EXCEPT ![a][r.task] = r.agent]
          /\ escrow' = [escrow EXCEPT ![a][r.task] = "pending"]
     ELSE UNCHANGED <<assignedTasks, escrow>>
  /\ ParkIf(Assigns(a, r), a, r)
  /\ UNCHANGED <<network, bidsSent, tasksPosted, completedTasks>>

\* Mutant of FundEscrow: the escrow is funded and never confirmed.
FundOnly(a, t) == escrow' = [escrow EXCEPT ![a][t] = "funded"]

FundEscrow(a, t) == escrow' = [escrow EXCEPT ![a][t] = "locked"]

\* The escrow is funded and confirmed, then the assignment is published.
SendAssignment(a, r) ==
  /\ r.type = "bid"
  /\ Resume(a, r, {})
  /\ FundEscrow(a, r.task)
  /\ Publish(a, Record("assigned", r.task, a, r.agent))
  /\ UNCHANGED <<network, bidsSent, tasksPosted, assignedTasks,
                 completedTasks>>

\* 900 seconds have passed since the escrow of t was made.
LockExpires(a, t) ==
  /\ escrow[a][t] = "locked"
  /\ escrow' = [escrow EXCEPT ![a][t] = "expired"]
  /\ UNCHANGED <<network, inbox, pending, store, bidsSent, tasksPosted,
                 assignedTasks, completedTasks>>

-----------------------------------------------------------------------------
(* Execution.                                                              *)

\* Mutant of Executes: everybody who hears of an assignment works.
ExecutesAny(a, r) == r.agent # a

Executes(a, r) == r.agent # a /\ r.peer = a

ReceiveAssigned(a, r) ==
  /\ r.type = "assigned"
  /\ Handle(a, r)
  /\ ParkIf(Executes(a, r), a, r)
  /\ UNCHANGED <<network, context>>

SendCompletion(a, r) ==
  /\ r.type = "assigned"
  /\ Resume(a, r, {})
  /\ Publish(a, Record("completed", r.task, a, NoAgent))
  /\ UNCHANGED <<network, context>>

-----------------------------------------------------------------------------
(* Verification.                                                           *)

Verifies(a, r) ==
  r.agent # a /\ r.task \in tasksPosted[a] /\ r.task \notin completedTasks[a]

ReceiveCompleted(a, r) ==
  /\ r.type = "completed"
  /\ Handle(a, r)
  /\ completedTasks' = IF Verifies(a, r)
                       THEN [completedTasks EXCEPT ![a] = @ \cup {r.task}]
                       ELSE completedTasks
  /\ ParkIf(Verifies(a, r), a, r)
  /\ UNCHANGED <<network, bidsSent, tasksPosted, assignedTasks, escrow>>

\* Mutant of SettlesOwn: the chain from autoVerify into settleTask is cut.
SettlesNone(a, t) == FALSE

\* settleTask returns at once unless the task is one of ours.
SettlesOwn(a, t) == t \in tasksPosted[a]

\* settleTask up to its wait: the claim succeeds once the lock has expired; a
\* claim that is refused is ignored and the settlement goes on.
ClaimEscrow(a, t) ==
  escrow' = IF escrow[a][t] = "expired"
            THEN [escrow EXCEPT ![a][t] = "claimed"]
            ELSE escrow

\* The verdict is published and the handler chains into settleTask.
SendVerdict(a, r) ==
  LET verdict == Record("verified", r.task, a, NoAgent) IN
  /\ r.type = "completed"
  /\ Resume(a, r, IF SettlesOwn(a, r.task) THEN {verdict} ELSE {})
  /\ Publish(a, verdict)
  /\ IF SettlesOwn(a, r.task) THEN ClaimEscrow(a, r.task) ELSE escrow' = escrow
  /\ UNCHANGED <<network, bidsSent, tasksPosted, assignedTasks,
                 completedTasks>>

\* A peer that implements SPEC.md 6.3 steps 9 and 10 checks a result it has
\* heard of and publishes a verdict.  The daemon in src/ never does.
PeerVerdict(a, r, passed) ==
  LET verdict == [type |-> "verified", task |-> r.task, agent |-> a,
                  peer |-> NoAgent, passed |-> passed] IN
  /\ a \in online \cap Verifiers
  /\ a # Poster[r.task]
  /\ r \in store[a] /\ r.type = "completed" /\ r.agent # a
  /\ \A v \in store[a] :
       ~(v.type = "verified" /\ v.task = r.task /\ v.agent = a)
  /\ Publish(a, verdict)
  /\ UNCHANGED <<network, pending, context>>

-----------------------------------------------------------------------------
(* Settlement and attestation.                                             *)

\* Mutant of Settles: the verdict's passed is not looked at.
SettlesAny(a, r) == r.agent # a /\ r.task \in tasksPosted[a]

\* A verdict that arrives from a peer settles the task too.
Settles(a, r) == r.agent # a /\ r.task \in tasksPosted[a] /\ r.passed

ReceiveVerified(a, r) ==
  /\ r.type = "verified"
  /\ Handle(a, r)
  /\ ParkIf(Settles(a, r), a, r)
  /\ IF Settles(a, r) THEN ClaimEscrow(a, r.task) ELSE escrow' = escrow
  /\ UNCHANGED <<network, bidsSent, tasksPosted, assignedTasks,
                 completedTasks>>

\* Who to rate is read from assignedTasks: no entry, no attestation.
Attests(a, t) == assignedTasks[a][t] # NoAgent

SendSettlement(a, r) ==
  LET settlement == Record("settled", r.task, a, r.agent) IN
  /\ r.type = "verified"
  /\ Resume(a, r, IF Attests(a, r.task) THEN {settlement} ELSE {})
  /\ Publish(a, settlement)
  /\ UNCHANGED <<network, context>>

ReceiveSettled(a, r) ==
  /\ r.type = "settled"
  /\ Handle(a, r)
  /\ ParkIf(r.agent # a /\ Attests(a, r.task), a, r)
  /\ UNCHANGED <<network, context>>

SendAttestation(a, r) ==
  /\ r.type = "settled"
  /\ Resume(a, r, {})
  /\ Publish(a, Record("attestation", r.task, a, assignedTasks[a][r.task]))
  /\ UNCHANGED <<network, context>>

ReceiveAttestation(a, r) ==
  /\ r.type = "attestation"
  /\ Handle(a, r)
  /\ UNCHANGED <<network, pending, context>>

-----------------------------------------------------------------------------
(* The process and its connections.                                        *)

\* quit, a signal or a crash: the context and the parked handlers are gone,
\* and some of what a had written to its connections never arrives.
Stop(a) ==
  LET inFlight == UNION { {b} \X {r \in inbox[b] : r.agent = a} :
                            b \in Agents } IN
  /\ a \in online \cap MayStop
  /\ online' = online \ {a}
  /\ peers' = [b \in Agents |-> IF b = a THEN {} ELSE peers[b] \ {a}]
  /\ \E lost \in SUBSET inFlight :
       inbox' = [b \in Agents |-> IF b = a THEN {}
                                 ELSE {r \in inbox[b] : <<b, r>> \notin lost}]
  /\ pending' = [pending EXCEPT ![a] = {}]
  /\ bidsSent' = [bidsSent EXCEPT ![a] = {}]
  /\ tasksPosted' = [tasksPosted EXCEPT ![a] = {}]
  /\ assignedTasks' = [assignedTasks EXCEPT ![a] = [t \in Tasks |-> NoAgent]]
  /\ completedTasks' = [completedTasks EXCEPT ![a] = {}]
  /\ escrow' = [escrow EXCEPT ![a] = [t \in Tasks |-> "none"]]
  /\ UNCHANGED store

\* main: a new context, and a dial to the bootstrap nodes that answer.
Start(a) ==
  /\ a \notin online
  /\ online' = online \cup {a}
  /\ \E dialed \in SUBSET online :
       peers' = [b \in Agents |-> IF b = a THEN dialed
                                  ELSE IF b \in dialed THEN peers[b] \cup {a}
                                  ELSE peers[b]]
  /\ UNCHANGED <<inbox, pending, store, context>>

\* A connection breaks while both processes live; nobody dials again.
Cut(a, b) ==
  LET inFlight(c, d) == {r \in inbox[c] : r.agent = d} IN
  /\ "cut" \in Faults
  /\ b \in peers[a]
  /\ peers' = [peers EXCEPT ![a] = @ \ {b}, ![b] = @ \ {a}]
  /\ \E lostA \in SUBSET inFlight(a, b), lostB \in SUBSET inFlight(b, a) :
       inbox' = [inbox EXCEPT ![a] = @ \ lostA, ![b] = @ \ lostB]
  /\ UNCHANGED <<online, pending, store, context>>

-----------------------------------------------------------------------------
Receive(a, r) ==
  \/ ReceivePosted(a, r)
  \/ ReceiveBid(a, r)
  \/ ReceiveAssigned(a, r)
  \/ ReceiveCompleted(a, r)
  \/ ReceiveVerified(a, r)
  \/ ReceiveSettled(a, r)
  \/ ReceiveAttestation(a, r)

Continue(a, r) ==
  \/ SendBid(a, r)
  \/ SendAssignment(a, r)
  \/ SendCompletion(a, r)
  \/ SendVerdict(a, r)
  \/ SendSettlement(a, r)
  \/ SendAttestation(a, r)

Next ==
  \/ \E a \in Agents, t \in Tasks : Post(a, t)
  \/ \E a \in Agents : \E r \in inbox[a] : Receive(a, r)
  \/ \E a \in Agents : \E r \in pending[a] : Continue(a, r)
  \/ \E a \in Agents : \E r \in store[a], passed \in BOOLEAN :
       PeerVerdict(a, r, passed)
  \/ \E a \in Agents, t \in Tasks : LockExpires(a, t)
  \/ \E a \in Agents : Stop(a)
  \/ \E a \in Agents : Start(a)
  \/ \E a, b \in Agents : Cut(a, b)

Spec == Init /\ [][Next]_vars

\* The event loop delivers what has arrived and runs the continuations whose
\* signature or timer is done.  Users, locks and faults owe nothing.
FairSpec ==
  /\ Spec
  /\ \A a \in Agents :
       /\ WF_vars(\E r \in inbox[a] : Receive(a, r))
       /\ WF_vars(\E r \in pending[a] : Continue(a, r))
=============================================================================
