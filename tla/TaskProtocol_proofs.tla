------------------------ MODULE TaskProtocol_proofs ------------------------
(***************************************************************************)
(* What TaskProtocol guarantees for any agents, tasks, verifiers and       *)
(* faults: first its types, then that IInv is inductive, and the safety    *)
(* properties that TLC checks on small instances, which follow from it.    *)
(***************************************************************************)
EXTENDS TaskProtocolProperties, TLAPS

-----------------------------------------------------------------------------
(* Lemmas about the building blocks.                                       *)

\* The constructor of records is well typed and returns what it is given.
LEMMA RecordFacts ==
  ASSUME NEW type \in RecordTypes, NEW t \in Tasks, NEW a \in Agents,
         NEW p \in Agents \cup {NoAgent}
  PROVE  /\ Record(type, t, a, p) \in ActivityRecord
         /\ Record(type, t, a, p).type = type
         /\ Record(type, t, a, p).task = t
         /\ Record(type, t, a, p).agent = a
         /\ Record(type, t, a, p).peer = p
         /\ Record(type, t, a, p).passed
BY DEF Record, ActivityRecord

\* Publishing keeps the types of the two variables it writes.
LEMMA PublishType ==
  ASSUME TypeOK, NEW a \in Agents, NEW r \in ActivityRecord, Publish(a, r)
  PROVE  /\ inbox' \in [Agents -> SUBSET ActivityRecord]
         /\ store' \in [Agents -> SUBSET ActivityRecord]
BY DEF TypeOK, Publish

\* So does the common start of every record handler.
LEMMA HandleType ==
  ASSUME TypeOK, NEW a \in Agents, NEW r \in inbox[a], Handle(a, r)
  PROVE  /\ r \in ActivityRecord
         /\ inbox' \in [Agents -> SUBSET ActivityRecord]
         /\ store' \in [Agents -> SUBSET ActivityRecord]
<1>1. r \in ActivityRecord  BY DEF TypeOK
<1> QED  BY <1>1 DEF TypeOK, Handle

\* Parking and resuming keep the type of pending.
LEMMA ParkType ==
  ASSUME TypeOK, NEW a \in Agents, NEW r \in ActivityRecord,
         NEW cond \in BOOLEAN, ParkIf(cond, a, r)
  PROVE  pending' \in [Agents -> SUBSET ActivityRecord]
BY DEF TypeOK, ParkIf

LEMMA ResumeType ==
  ASSUME TypeOK, NEW a \in Agents, NEW r \in pending[a],
         NEW next \in SUBSET ActivityRecord, Resume(a, r, next)
  PROVE  /\ r \in ActivityRecord
         /\ pending' \in [Agents -> SUBSET ActivityRecord]
BY DEF TypeOK, Resume

\* An escrow that is claimed, or not, is an escrow.
LEMMA ClaimType ==
  ASSUME TypeOK, NEW a \in Agents, NEW t \in Tasks,
         ClaimEscrow(a, t) \/ escrow' = escrow
  PROVE  escrow' \in [Agents -> [Tasks -> EscrowStates]]
<1>1. escrow \in [Agents -> [Tasks -> EscrowStates]]  BY DEF TypeOK
<1>2. "claimed" \in EscrowStates  BY DEF EscrowStates
<1>3. [escrow EXCEPT ![a][t] = "claimed"] \in [Agents -> [Tasks -> EscrowStates]]
  BY <1>1, <1>2
<1> QED  BY <1>1, <1>3 DEF ClaimEscrow

-----------------------------------------------------------------------------
(* Types.                                                                  *)

\* Every step of the protocol keeps the types.
LEMMA TypeStep ==
  ASSUME TypeOK, [Next]_vars
  PROVE  TypeOK'
<1> USE ConstantsAssumption
<1>1. ASSUME NEW a \in Agents, NEW t \in Tasks, Post(a, t) PROVE TypeOK'
  <2>1. Record("posted", t, a, NoAgent) \in ActivityRecord
    BY RecordFacts DEF RecordTypes
  <2>2. /\ inbox' \in [Agents -> SUBSET ActivityRecord]
        /\ store' \in [Agents -> SUBSET ActivityRecord]
    BY <1>1, <2>1, PublishType DEF Post
  <2> QED  BY <1>1, <2>2 DEF TypeOK, Post, network
<1>2. ASSUME NEW a \in Agents, NEW r \in inbox[a], Receive(a, r) PROVE TypeOK'
  <2> DEFINE InStoOK == /\ r \in ActivityRecord
                        /\ inbox' \in [Agents -> SUBSET ActivityRecord]
                        /\ store' \in [Agents -> SUBSET ActivityRecord]
             PendOK == pending' \in [Agents -> SUBSET ActivityRecord]
  <2>1. CASE ReceivePosted(a, r)
    <3>1. InStoOK  BY <2>1, HandleType DEF ReceivePosted
    <3>2. PICK bid \in Evaluate(a, r.task) :
            /\ bidsSent' = IF Bids(a, r, bid)
                           THEN [bidsSent EXCEPT ![a] = @ \cup {r.task}]
                           ELSE bidsSent
            /\ ParkIf(Bids(a, r, bid), a, r)
      BY <2>1 DEF ReceivePosted
    <3>3. bid \in BOOLEAN  BY <3>2 DEF Evaluate
    <3>4. Bids(a, r, bid) \in BOOLEAN  BY <3>3 DEF Bids
    <3>5. PendOK  BY <3>1, <3>2, <3>4, ParkType
    <3>6. bidsSent' \in [Agents -> SUBSET Tasks]
      BY <3>1, <3>2 DEF TypeOK, ActivityRecord
    <3> QED  BY <2>1, <3>1, <3>5, <3>6 DEF TypeOK, ReceivePosted, network
  <2>2. CASE ReceiveBid(a, r)
    <3>1. InStoOK  BY <2>2, HandleType DEF ReceiveBid
    <3>2. PendOK
      <4>1. Assigns(a, r) \in BOOLEAN  BY DEF Assigns
      <4> QED  BY <2>2, <3>1, <4>1, ParkType DEF ReceiveBid
    <3>3. r.task \in Tasks /\ r.agent \in Agents
      BY <3>1 DEF ActivityRecord
    <3>4. /\ assignedTasks' \in [Agents -> [Tasks -> Agents \cup {NoAgent}]]
          /\ escrow' \in [Agents -> [Tasks -> EscrowStates]]
      <4>1. CASE Assigns(a, r)
        <5>1. assignedTasks' = [assignedTasks EXCEPT ![a][r.task] = r.agent]
          BY <2>2, <4>1 DEF ReceiveBid
        <5>2. escrow' = [escrow EXCEPT ![a][r.task] = "pending"]
          BY <2>2, <4>1 DEF ReceiveBid
        <5>3. assignedTasks' \in [Agents -> [Tasks -> Agents \cup {NoAgent}]]
          BY <3>3, <5>1 DEF TypeOK
        <5> QED  BY <3>3, <5>2, <5>3 DEF TypeOK, EscrowStates
      <4>2. CASE ~Assigns(a, r)
        BY <2>2, <4>2 DEF ReceiveBid, TypeOK
      <4> QED  BY <4>1, <4>2
    <3> QED  BY <2>2, <3>1, <3>2, <3>4 DEF TypeOK, ReceiveBid, network
  <2>3. CASE ReceiveAssigned(a, r)
    <3>1. InStoOK  BY <2>3, HandleType DEF ReceiveAssigned
    <3>2. PendOK
      <4>1. Executes(a, r) \in BOOLEAN  BY DEF Executes
      <4> QED  BY <2>3, <3>1, <4>1, ParkType DEF ReceiveAssigned
    <3> QED  BY <2>3, <3>1, <3>2
             DEF TypeOK, ReceiveAssigned, network, context
  <2>4. CASE ReceiveCompleted(a, r)
    <3>1. InStoOK  BY <2>4, HandleType DEF ReceiveCompleted
    <3>2. PendOK
      <4>1. Verifies(a, r) \in BOOLEAN  BY DEF Verifies
      <4> QED  BY <2>4, <3>1, <4>1, ParkType DEF ReceiveCompleted
    <3>3. completedTasks' \in [Agents -> SUBSET Tasks]
      BY <2>4, <3>1 DEF TypeOK, ReceiveCompleted, ActivityRecord
    <3> QED  BY <2>4, <3>1, <3>2, <3>3 DEF TypeOK, ReceiveCompleted, network
  <2>5. CASE ReceiveVerified(a, r)
    <3>1. InStoOK  BY <2>5, HandleType DEF ReceiveVerified
    <3>2. PendOK
      <4>1. Settles(a, r) \in BOOLEAN
        BY <3>1 DEF Settles, ActivityRecord
      <4> QED  BY <2>5, <3>1, <4>1, ParkType DEF ReceiveVerified
    <3>3. escrow' \in [Agents -> [Tasks -> EscrowStates]]
      BY <2>5, <3>1, ClaimType DEF ReceiveVerified, ActivityRecord
    <3> QED  BY <2>5, <3>1, <3>2, <3>3 DEF TypeOK, ReceiveVerified, network
  <2>6. CASE ReceiveSettled(a, r)
    <3>1. InStoOK  BY <2>6, HandleType DEF ReceiveSettled
    <3>2. PendOK
      <4>1. (r.agent # a /\ Attests(a, r.task)) \in BOOLEAN  OBVIOUS
      <4> QED  BY <2>6, <3>1, <4>1, ParkType DEF ReceiveSettled
    <3> QED  BY <2>6, <3>1, <3>2
             DEF TypeOK, ReceiveSettled, network, context
  <2>7. CASE ReceiveAttestation(a, r)
    <3>1. InStoOK  BY <2>7, HandleType DEF ReceiveAttestation
    <3> QED  BY <2>7, <3>1 DEF TypeOK, ReceiveAttestation, network, context
  <2> QED  BY <1>2, <2>1, <2>2, <2>3, <2>4, <2>5, <2>6, <2>7 DEF Receive
<1>3. ASSUME NEW a \in Agents, NEW r \in pending[a], Continue(a, r)
      PROVE  TypeOK'
  <2>1. r \in ActivityRecord  BY DEF TypeOK
  <2>2. r.task \in Tasks /\ r.agent \in Agents  BY <2>1 DEF ActivityRecord
  <2> DEFINE InStoOK == /\ inbox' \in [Agents -> SUBSET ActivityRecord]
                        /\ store' \in [Agents -> SUBSET ActivityRecord]
             PendOK == pending' \in [Agents -> SUBSET ActivityRecord]
  <2>3. CASE SendBid(a, r)
    <3>1. InStoOK
      BY <2>2, <2>3, RecordFacts, PublishType DEF SendBid, RecordTypes
    <3>2. PendOK  BY <2>3, ResumeType DEF SendBid
    <3> QED  BY <2>3, <3>1, <3>2 DEF TypeOK, SendBid, network, context
  <2>4. CASE SendAssignment(a, r)
    <3>1. InStoOK
      BY <2>2, <2>4, RecordFacts, PublishType DEF SendAssignment, RecordTypes
    <3>2. PendOK  BY <2>4, ResumeType DEF SendAssignment
    <3>3. escrow' \in [Agents -> [Tasks -> EscrowStates]]
      BY <2>4 DEF SendAssignment, FundEscrow, TypeOK, EscrowStates
    <3> QED  BY <2>4, <3>1, <3>2, <3>3 DEF TypeOK, SendAssignment, network
  <2>5. CASE SendCompletion(a, r)
    <3>1. InStoOK
      BY <2>2, <2>5, RecordFacts, PublishType DEF SendCompletion, RecordTypes
    <3>2. PendOK  BY <2>5, ResumeType DEF SendCompletion
    <3> QED  BY <2>5, <3>1, <3>2 DEF TypeOK, SendCompletion, network, context
  <2>6. CASE SendVerdict(a, r)
    <3> DEFINE verdict == Record("verified", r.task, a, NoAgent)
    <3>1. verdict \in ActivityRecord
      BY <2>2, RecordFacts DEF RecordTypes
    <3> HIDE DEF verdict
    <3>2. /\ Resume(a, r, IF SettlesOwn(a, r.task) THEN {verdict} ELSE {})
          /\ Publish(a, verdict)
      BY <2>6 DEF SendVerdict, verdict
    <3>3. InStoOK  BY <3>1, <3>2, PublishType
    <3>4. PendOK  BY <3>1, <3>2, ResumeType
    <3>5. escrow' \in [Agents -> [Tasks -> EscrowStates]]
      BY <2>2, <2>6, ClaimType DEF SendVerdict
    <3> QED  BY <2>6, <3>3, <3>4, <3>5 DEF TypeOK, SendVerdict, network
  <2>7. CASE SendSettlement(a, r)
    <3> DEFINE settlement == Record("settled", r.task, a, r.agent)
    <3>1. settlement \in ActivityRecord
      BY <2>2, RecordFacts DEF RecordTypes
    <3> HIDE DEF settlement
    <3>2. /\ Resume(a, r, IF Attests(a, r.task) THEN {settlement} ELSE {})
          /\ Publish(a, settlement)
      BY <2>7 DEF SendSettlement, settlement
    <3>3. InStoOK  BY <3>1, <3>2, PublishType
    <3>4. PendOK  BY <3>1, <3>2, ResumeType
    <3> QED  BY <2>7, <3>3, <3>4 DEF TypeOK, SendSettlement, network, context
  <2>8. CASE SendAttestation(a, r)
    <3>1. assignedTasks[a][r.task] \in Agents \cup {NoAgent}
      BY <2>2 DEF TypeOK
    <3>2. InStoOK
      BY <2>2, <2>8, <3>1, RecordFacts, PublishType
      DEF SendAttestation, RecordTypes
    <3>3. PendOK  BY <2>8, ResumeType DEF SendAttestation
    <3> QED  BY <2>8, <3>2, <3>3 DEF TypeOK, SendAttestation, network, context
  <2> QED  BY <1>3, <2>3, <2>4, <2>5, <2>6, <2>7, <2>8 DEF Continue
<1>4. ASSUME NEW a \in Agents, NEW r \in store[a], NEW passed \in BOOLEAN,
             PeerVerdict(a, r, passed)
      PROVE  TypeOK'
  <2> DEFINE verdict == [type |-> "verified", task |-> r.task, agent |-> a,
                         peer |-> NoAgent, passed |-> passed]
  <2>1. verdict \in ActivityRecord
    BY DEF TypeOK, ActivityRecord, RecordTypes
  <2> HIDE DEF verdict
  <2>2. Publish(a, verdict)  BY <1>4 DEF PeerVerdict, verdict
  <2>3. /\ inbox' \in [Agents -> SUBSET ActivityRecord]
        /\ store' \in [Agents -> SUBSET ActivityRecord]
    BY <2>1, <2>2, PublishType
  <2> QED  BY <1>4, <2>3 DEF TypeOK, PeerVerdict, network, context
<1>5. ASSUME NEW a \in Agents, NEW t \in Tasks, LockExpires(a, t)
      PROVE  TypeOK'
  BY <1>5 DEF TypeOK, LockExpires, network, EscrowStates
<1>6. ASSUME NEW a \in Agents, Stop(a) PROVE TypeOK'
  <2>1. inbox' \in [Agents -> SUBSET ActivityRecord]
    BY <1>6 DEF Stop, TypeOK
  <2>2. /\ pending' \in [Agents -> SUBSET ActivityRecord]
        /\ peers' \in [Agents -> SUBSET Agents]
        /\ online' \subseteq Agents
    BY <1>6 DEF Stop, TypeOK
  <2>3. /\ assignedTasks' \in [Agents -> [Tasks -> Agents \cup {NoAgent}]]
        /\ escrow' \in [Agents -> [Tasks -> EscrowStates]]
    BY <1>6 DEF Stop, TypeOK, EscrowStates
  <2> QED  BY <1>6, <2>1, <2>2, <2>3 DEF Stop, TypeOK
<1>7. ASSUME NEW a \in Agents, Start(a) PROVE TypeOK'
  BY <1>7 DEF TypeOK, Start, context
<1>8. ASSUME NEW a \in Agents, NEW b \in Agents, Cut(a, b) PROVE TypeOK'
  <2>1. peers' \in [Agents -> SUBSET Agents]
    BY <1>8 DEF TypeOK, Cut
  <2>2. inbox' \in [Agents -> SUBSET ActivityRecord]
    <3>1. PICK lostA, lostB :
            inbox' = [inbox EXCEPT ![a] = @ \ lostA, ![b] = @ \ lostB]
      BY <1>8 DEF Cut
    <3> QED  BY <3>1 DEF TypeOK
  <2> QED  BY <1>8, <2>1, <2>2 DEF TypeOK, Cut, context
<1>9. CASE UNCHANGED vars
  BY <1>9 DEF TypeOK, vars, network, context
<1> QED
  BY <1>1, <1>2, <1>3, <1>4, <1>5, <1>6, <1>7, <1>8, <1>9 DEF Next

\* TypeOK holds in every reachable state: the daemon's maps and stores only ever
\* hold what their declarations in src/src/daemon/index.ts say.
THEOREM TypeCorrect == Spec => []TypeOK
<1>1. Init => TypeOK
  BY ConstantsAssumption DEF Init, TypeOK, EscrowStates
<1> QED  BY <1>1, TypeStep, PTL DEF Spec

-----------------------------------------------------------------------------
(* What has been published only grows.                                     *)

\* A record is determined by its fields.
LEMMA RecordIs ==
  ASSUME NEW r \in ActivityRecord, r.passed
  PROVE  r = Record(r.type, r.task, r.agent, r.peer)
BY DEF ActivityRecord, Record

\* Published records are records.
LEMMA PublishedType ==
  ASSUME TypeOK
  PROVE  Published \subseteq ActivityRecord
BY DEF TypeOK, Published

\* What was published is in the store of its author.
LEMMA OwnStore ==
  ASSUME TypeOK, Stored, NEW r \in Published
  PROVE  r.agent \in Agents /\ r \in store[r.agent]
BY PublishedType DEF Published, Stored, ActivityRecord

\* Publish adds its record to what was published, and nothing else.
LEMMA PublishGrows ==
  ASSUME TypeOK, NEW a \in Agents, NEW x, Publish(a, x)
  PROVE  /\ Published' = Published \cup {x}
         /\ x \in store'[a]
         /\ \A b \in Agents : /\ store[b] \subseteq store'[b]
                              /\ store'[b] \subseteq store[b] \cup {x}
<1>1. /\ x \in store'[a]
      /\ \A b \in Agents : /\ store[b] \subseteq store'[b]
                           /\ store'[b] \subseteq store[b] \cup {x}
  BY DEF TypeOK, Publish
<1>2. x \in Published'  BY <1>1 DEF Published
<1>3. ASSUME NEW r \in Published PROVE r \in Published'
  <2>1. PICK b \in Agents : r \in store[b]  BY DEF Published
  <2>2. r \in store'[b]  BY <1>1, <2>1
  <2> QED  BY <2>2 DEF Published
<1>4. ASSUME NEW r \in Published' PROVE r \in Published \/ r = x
  <2>1. PICK b \in Agents : r \in store'[b]  BY DEF Published
  <2>2. r \in store[b] \/ r = x  BY <1>1, <2>1
  <2> QED  BY <2>2 DEF Published
<1> QED  BY <1>1, <1>2, <1>3, <1>4

\* Handling a record publishes nothing: what arrives was published.
LEMMA HandleKeeps ==
  ASSUME TypeOK, Stored, NEW a \in Agents, NEW r \in inbox[a], Handle(a, r)
  PROVE  /\ r \in Published /\ Published' = Published
         /\ \A b \in Agents : /\ store[b] \subseteq store'[b]
                              /\ store'[b] \subseteq store[b] \cup {r}
<1>1. r \in Published  BY DEF Stored
<1>2. \A b \in Agents : /\ store[b] \subseteq store'[b]
                        /\ store'[b] \subseteq store[b] \cup {r}
  BY DEF TypeOK, Handle
<1>3. Published' = Published
  BY <1>1, <1>2 DEF Published
<1> QED  BY <1>1, <1>2, <1>3

\* After a step that publishes x, what is on its way or parked was published,
\* and authors keep what they wrote.
LEMMA PublishStored ==
  ASSUME TypeOK, Stored, NEW a \in Agents, NEW x \in ActivityRecord,
         x.agent = a, Publish(a, x),
         \A b \in Agents : pending'[b] \subseteq pending[b] \cup {x}
  PROVE  Published' = Published \cup {x} /\ Stored'
<1>1. /\ Published' = Published \cup {x}
      /\ x \in store'[a]
      /\ \A b \in Agents : /\ store[b] \subseteq store'[b]
                           /\ store'[b] \subseteq store[b] \cup {x}
  BY PublishGrows
<1>2. \A b \in Agents : inbox'[b] \subseteq inbox[b] \cup {x}
  BY DEF Publish
<1>3. \A b \in Agents : /\ inbox'[b] \subseteq Published'
                        /\ pending'[b] \subseteq Published'
  BY <1>1, <1>2 DEF Stored
<1>4. \A b \in Agents : \A r \in store'[b] : r \in store'[r.agent]
  <2> TAKE b \in Agents
  <2> TAKE r \in store'[b]
  <2>1. CASE r = x  BY <1>1, <2>1
  <2>2. CASE r # x
    <3>1. r \in store[b]  BY <1>1, <2>2
    <3>2. r.agent \in Agents /\ r \in store[r.agent]
      BY <3>1 DEF Stored, TypeOK, ActivityRecord
    <3> QED  BY <1>1, <3>2
  <2> QED  BY <2>1, <2>2
<1> QED  BY <1>1, <1>3, <1>4 DEF Stored

\* Likewise after a step that handles a record.
LEMMA HandleStored ==
  ASSUME TypeOK, Stored, NEW a \in Agents, NEW r \in inbox[a], Handle(a, r),
         \A b \in Agents : pending'[b] \subseteq
                             IF b = a THEN pending[b] \cup {r} ELSE pending[b]
  PROVE  r \in Published /\ Published' = Published /\ Stored'
<1>1. r \in Published /\ Published' = Published
  BY HandleKeeps
<1>2. r.agent \in Agents /\ r \in store[r.agent]  BY <1>1, OwnStore
<1>3. \A b \in Agents : /\ store[b] \subseteq store'[b]
                        /\ store'[b] \subseteq store[b] \cup {r}
  BY HandleKeeps
<1>5. \A b \in Agents : inbox'[b] \subseteq inbox[b]
  BY DEF TypeOK, Handle
<1>6. \A b \in Agents : /\ inbox'[b] \subseteq Published'
                        /\ pending'[b] \subseteq Published'
  BY <1>1, <1>5 DEF Stored
<1>7. \A b \in Agents : \A s \in store'[b] : s \in store'[s.agent]
  <2> TAKE b \in Agents
  <2> TAKE s \in store'[b]
  <2>1. CASE s = r  BY <1>2, <1>3, <2>1
  <2>2. CASE s # r
    <3>1. s \in store[b]  BY <1>3, <2>2
    <3>2. s.agent \in Agents /\ s \in store[s.agent]
      BY <3>1 DEF Stored, TypeOK, ActivityRecord
    <3> QED  BY <1>3, <3>2
  <2> QED  BY <2>1, <2>2
<1> QED  BY <1>1, <1>6, <1>7 DEF Stored

-----------------------------------------------------------------------------
(* When the parts of the invariant survive.                                *)

\* The grounds a record rests on do not go away.
LEMMA RestsOnGrows ==
  ASSUME Published \subseteq Published', NEW r, RestsOn(r)
  PROVE  RestsOn(r)'
<1>1. /\ Verdicts(r.task) \subseteq Verdicts(r.task)'
      /\ Settlements(r.task) \subseteq Settlements(r.task)'
  BY DEF Verdicts, Settlements
<1> QED  BY <1>1 DEF RestsOn

\* One more record that is well formed, rests on published records and is not a
\* second assignment keeps the ledger.
LEMMA LedgerAdds ==
  ASSUME Ledger, NEW x, Published' = Published \cup {x},
         WellFormed(x), RestsOn(x),
         x.type = "assigned" => Assignments(x.task) = {}
  PROVE  Ledger'
<1>1. \A r \in Published' : WellFormed(r)' /\ RestsOn(r)'
  <2>1. \A r \in Published' : WellFormed(r) /\ RestsOn(r)  BY DEF Ledger
  <2>2. \A r \in Published' : RestsOn(r)'  BY <2>1, RestsOnGrows
  <2> QED  BY <2>1, <2>2 DEF WellFormed
<1>2. \A t \in Tasks : \A r, s \in Assignments(t)' : r = s
  BY DEF Ledger, Assignments
<1> QED  BY <1>1, <1>2 DEF Ledger

LEMMA LedgerSame ==
  ASSUME Ledger, Published' = Published
  PROVE  Ledger'
BY DEF Ledger, WellFormed, RestsOn, Assignments, Verdicts, Settlements

\* The desks of the posters are untouched by a step that leaves their maps
\* alone and publishes no assignment.
LEMMA DeskKept ==
  ASSUME Desk, UNCHANGED <<tasksPosted, assignedTasks, escrow>>,
         Published \subseteq Published',
         \A s \in Published' : s \in Published \/ s.type # "assigned"
  PROVE  Desk'
<1> SUFFICES ASSUME NEW a \in Agents, NEW t \in Tasks PROVE DeskOf(a, t)'
  BY DEF Desk
<1>1. Assignments(t)' = Assignments(t)  BY DEF Assignments
<1>2. Verdicts(t) \subseteq Verdicts(t)'  BY DEF Verdicts
<1> QED  BY <1>1, <1>2 DEF Desk, DeskOf

\* Likewise the grounds of the parked handlers, those of new ones apart.
LEMMA ParkedKept ==
  ASSUME Parked, UNCHANGED <<tasksPosted, assignedTasks>>,
         Published \subseteq Published',
         \A s \in Published' : s \in Published \/ s.type # "assigned",
         \A a \in Agents : \A r \in pending'[a] :
           r \in pending[a] \/ Grounds(a, r)
  PROVE  Parked'
<1> SUFFICES ASSUME NEW a \in Agents, NEW r \in pending'[a]
             PROVE  Grounds(a, r)'
  BY DEF Parked
<1>1. Assignments(r.task)' = Assignments(r.task)  BY DEF Assignments
<1>2. Grounds(a, r)  BY DEF Parked
<1> QED  BY <1>1, <1>2 DEF Grounds

\* ParkIf adds at most the record that is handled; Resume at most what it says.
LEMMA ParkAdds ==
  ASSUME TypeOK, NEW a \in Agents, NEW r, NEW cond \in BOOLEAN,
         ParkIf(cond, a, r)
  PROVE  \A b \in Agents : \A s \in pending'[b] :
           s \in pending[b] \/ (b = a /\ s = r /\ cond)
BY DEF TypeOK, ParkIf

LEMMA ResumeAdds ==
  ASSUME TypeOK, NEW a \in Agents, NEW r, NEW next, Resume(a, r, next)
  PROVE  \A b \in Agents : \A s \in pending'[b] :
           (s \in pending[b] /\ ~(b = a /\ s = r)) \/ (b = a /\ s \in next)
BY DEF TypeOK, Resume

-----------------------------------------------------------------------------
(* IInv is inductive, one group of actions at a time.                      *)

Safe == Ledger /\ Stored /\ Desk /\ Parked

\* A task that was never posted has not been assigned, so a poster that starts
\* on it has a clear desk.
LEMMA PostStep ==
  ASSUME IInv, NEW a \in Agents, NEW t \in Tasks, Post(a, t)
  PROVE  Safe'
<1> USE ConstantsAssumption
<1> DEFINE x == Record("posted", t, a, NoAgent)
<1>1. /\ x \in ActivityRecord /\ x.type = "posted" /\ x.task = t
      /\ x.agent = a /\ x.peer = NoAgent /\ x.passed
  BY RecordFacts DEF RecordTypes
<1>2. x \notin store[a] /\ Publish(a, x) /\ Poster[t] = a /\ pending' = pending
      /\ assignedTasks' = assignedTasks /\ escrow' = escrow
      /\ tasksPosted' = [tasksPosted EXCEPT ![a] = @ \cup {t}]
  BY DEF Post
<1>3. Assignments(t) = {}
  <2> SUFFICES ASSUME NEW r \in Assignments(t) PROVE FALSE
    OBVIOUS
  <2>1. r \in Published /\ r.type = "assigned" /\ r.task = t
    BY DEF Assignments
  <2>2. x \in Published
    BY <1>2, <2>1 DEF IInv, Ledger, RestsOn
  <2>3. x \in store[a]
    BY <1>1, <2>2, OwnStore DEF IInv
  <2> QED  BY <1>2, <2>3
<1> HIDE DEF x
<1>4. Published' = Published \cup {x} /\ Stored'
  BY <1>1, <1>2, PublishStored DEF IInv
<1>5. Ledger'
  <2>1. WellFormed(x)  BY <1>1, <1>2 DEF WellFormed
  <2>2. RestsOn(x)  BY <1>1 DEF RestsOn
  <2> QED  BY <1>1, <1>4, <2>1, <2>2, LedgerAdds DEF IInv
<1>6. \A u \in Tasks : /\ Assignments(u)' = Assignments(u)
                       /\ Verdicts(u)' = Verdicts(u)
  BY <1>1, <1>4 DEF Assignments, Verdicts
<1>7. \A b \in Agents, u \in Tasks :
        u \in tasksPosted'[b] => u \in tasksPosted[b] \/ (b = a /\ u = t)
  BY <1>2 DEF IInv, TypeOK
<1>8. \A b \in Agents : tasksPosted[b] \subseteq tasksPosted'[b]
  BY <1>2 DEF IInv, TypeOK
<1>9. Desk'
  <2> SUFFICES ASSUME NEW b \in Agents, NEW u \in Tasks PROVE DeskOf(b, u)'
    BY DEF Desk
  <2>1. DeskOf(b, u)  BY DEF IInv, Desk
  <2> QED  BY <1>2, <1>3, <1>6, <1>7, <1>8, <2>1 DEF DeskOf
<1>10. Parked'
  <2> SUFFICES ASSUME NEW b \in Agents, NEW r \in pending'[b]
               PROVE  Grounds(b, r)'
    BY DEF Parked
  <2>1. Grounds(b, r)  BY <1>2 DEF IInv, Parked
  <2>2. r.task \in Tasks  BY <1>2 DEF IInv, TypeOK, ActivityRecord
  <2> QED  BY <1>2, <1>6, <1>8, <2>1, <2>2 DEF Grounds
<1> QED  BY <1>4, <1>5, <1>9, <1>10 DEF Safe

\* Handlers that only park their record keep the ledger and the stores.
LEMMA OnlyParks ==
  ASSUME IInv, NEW a \in Agents, NEW r \in inbox[a], NEW cond \in BOOLEAN,
         Handle(a, r), ParkIf(cond, a, r), cond => Grounds(a, r),
         UNCHANGED <<tasksPosted, assignedTasks>>
  PROVE  /\ Published' = Published
         /\ Ledger' /\ Stored' /\ Parked'
<1>1. \A b \in Agents : \A s \in pending'[b] :
        s \in pending[b] \/ (b = a /\ s = r /\ cond)
  BY ParkAdds DEF IInv
<1>2. Published' = Published /\ Stored'
  BY <1>1, HandleStored DEF IInv
<1>3. Ledger'  BY <1>2, LedgerSame DEF IInv
<1>4. Parked'  BY <1>1, <1>2, ParkedKept DEF IInv
<1> QED  BY <1>2, <1>3, <1>4

\* So do continuations that publish anything but an assignment.
LEMMA OnlyPublishes ==
  ASSUME IInv, NEW a \in Agents, NEW x \in ActivityRecord, x.agent = a,
         x.type # "assigned", WellFormed(x), RestsOn(x), Publish(a, x),
         UNCHANGED <<tasksPosted, assignedTasks>>,
         \A b \in Agents : \A s \in pending'[b] :
           s \in pending[b] \/ (s = x /\ Grounds(b, x))
  PROVE  /\ Published' = Published \cup {x}
         /\ Ledger' /\ Stored' /\ Parked'
<1>1. Published' = Published \cup {x} /\ Stored'
  BY PublishStored DEF IInv
<1>2. Ledger'  BY <1>1, LedgerAdds DEF IInv
<1>3. Parked'
  <2>1. \A s \in Published' : s \in Published \/ s.type # "assigned"
    BY <1>1
  <2> QED  BY <1>1, <2>1, ParkedKept DEF IInv
<1> QED  BY <1>1, <1>2, <1>3

\* A claim after a passing verdict keeps the desks.
LEMMA DeskClaims ==
  ASSUME IInv, NEW a \in Agents, NEW t \in Tasks, ClaimEscrow(a, t),
         UNCHANGED <<tasksPosted, assignedTasks>>,
         Published \subseteq Published',
         \A s \in Published' : s \in Published \/ s.type # "assigned",
         \E v \in Verdicts(t)' : v.passed
  PROVE  Desk'
<1> SUFFICES ASSUME NEW b \in Agents, NEW u \in Tasks PROVE DeskOf(b, u)'
  BY DEF Desk
<1>1. DeskOf(b, u)  BY DEF IInv, Desk
<1>2. Assignments(u)' = Assignments(u)  BY DEF Assignments
<1>3. Verdicts(u) \subseteq Verdicts(u)'  BY DEF Verdicts
<1>4. \/ escrow'[b][u] = escrow[b][u]
      \/ u = t /\ escrow[b][u] = "expired" /\ escrow'[b][u] = "claimed"
  BY DEF ClaimEscrow, IInv, TypeOK
<1> QED  BY <1>1, <1>2, <1>3, <1>4 DEF DeskOf

\* A poster that gives its task away had not done so before.
LEMMA ReceiveBidStep ==
  ASSUME IInv, NEW a \in Agents, NEW r \in inbox[a], ReceiveBid(a, r)
  PROVE  Safe'
<1> USE ConstantsAssumption
<1>1. r \in ActivityRecord /\ r.type = "bid" /\ Handle(a, r)
      /\ ParkIf(Assigns(a, r), a, r) /\ tasksPosted' = tasksPosted
  BY DEF IInv, TypeOK, ReceiveBid
<1>2. r.task \in Tasks /\ r.agent \in Agents  BY <1>1 DEF ActivityRecord
<1>3. CASE ~Assigns(a, r)
  <2>1. UNCHANGED <<assignedTasks, escrow>>  BY <1>3 DEF ReceiveBid
  <2>2. Assigns(a, r) \in BOOLEAN  BY DEF Assigns
  <2>3. Published' = Published /\ Ledger' /\ Stored' /\ Parked'
    BY <1>1, <1>3, <2>1, <2>2, OnlyParks
  <2> QED  BY <1>1, <2>1, <2>3, DeskKept DEF IInv, Safe
<1>4. CASE Assigns(a, r)
  <2>1. /\ assignedTasks' = [assignedTasks EXCEPT ![a][r.task] = r.agent]
        /\ escrow' = [escrow EXCEPT ![a][r.task] = "pending"]
    BY <1>4 DEF ReceiveBid
  <2>2. r.task \in tasksPosted[a] /\ assignedTasks[a][r.task] = NoAgent
    BY <1>4 DEF Assigns
  <2>3. \A b \in Agents : \A s \in pending'[b] :
          s \in pending[b] \/ (b = a /\ s = r)
    BY <1>1, <1>4, ParkAdds DEF IInv
  <2>4. Published' = Published /\ Stored'
    BY <1>1, <2>3, HandleStored DEF IInv
  <2>5. Assignments(r.task) = {}
    <3> SUFFICES ASSUME NEW s \in Assignments(r.task) PROVE FALSE
      OBVIOUS
    <3>1. s.peer \in Agents
      BY DEF IInv, Ledger, WellFormed, Assignments
    <3>2. assignedTasks[a][r.task] = s.peer
      BY <1>2, <2>2 DEF IInv, Desk, DeskOf
    <3> QED  BY <2>2, <3>1, <3>2
  <2>6. \A b \in Agents, u \in Tasks :
          ~(b = a /\ u = r.task)
            => /\ assignedTasks'[b][u] = assignedTasks[b][u]
               /\ escrow'[b][u] = escrow[b][u]
    BY <1>2, <2>1 DEF IInv, TypeOK
  <2>7. assignedTasks'[a][r.task] = r.agent /\ escrow'[a][r.task] = "pending"
    BY <1>2, <2>1 DEF IInv, TypeOK
  <2>8. \A u : Assignments(u)' = Assignments(u) /\ Verdicts(u)' = Verdicts(u)
    BY <2>4 DEF Assignments, Verdicts
  <2>9. Desk'
    <3> SUFFICES ASSUME NEW b \in Agents, NEW u \in Tasks PROVE DeskOf(b, u)'
      BY DEF Desk
    <3>1. DeskOf(b, u)  BY DEF IInv, Desk
    <3>2. CASE b = a /\ u = r.task
      BY <1>1, <2>2, <2>5, <2>7, <2>8, <3>1, <3>2 DEF DeskOf
    <3>3. CASE ~(b = a /\ u = r.task)
      BY <1>1, <2>6, <2>8, <3>1, <3>3 DEF DeskOf
    <3> QED  BY <3>2, <3>3
  <2>10. Parked'
    <3> SUFFICES ASSUME NEW b \in Agents, NEW s \in pending'[b]
                 PROVE  Grounds(b, s)'
      BY DEF Parked
    <3>1. CASE b = a /\ s = r
      BY <1>1, <2>2, <2>5, <2>7, <2>8, <3>1 DEF Grounds
    <3>2. CASE s \in pending[b]
      <4>1. Grounds(b, s)  BY <3>2 DEF IInv, Parked
      <4>2. s.task \in Tasks /\ s.agent \in Agents
        BY <3>2 DEF IInv, TypeOK, ActivityRecord
      <4>3. CASE b = a /\ s.task = r.task
        BY <1>1, <1>2, <2>2, <2>7, <2>8, <4>1, <4>2, <4>3 DEF Grounds
      <4>4. CASE ~(b = a /\ s.task = r.task)
        BY <1>1, <2>6, <2>8, <4>1, <4>2, <4>4 DEF Grounds
      <4> QED  BY <4>3, <4>4
    <3> QED  BY <2>3, <3>1, <3>2
  <2> QED  BY <2>4, <2>9, <2>10, LedgerSame DEF IInv, Safe
<1> QED  BY <1>3, <1>4

\* The other records a daemon receives.
LEMMA ReceiveStep ==
  ASSUME IInv, NEW a \in Agents, NEW r \in inbox[a], Receive(a, r)
  PROVE  Safe'
<1>1. r \in ActivityRecord /\ r.task \in Tasks /\ r \in Published
  BY DEF IInv, TypeOK, ActivityRecord, Stored
<1>2. CASE ReceivePosted(a, r)
  <2>1. PICK bid \in BOOLEAN : ParkIf(Bids(a, r, bid), a, r)
    BY <1>2 DEF ReceivePosted, Evaluate
  <2>2. Bids(a, r, bid) \in BOOLEAN  BY DEF Bids
  <2>3. Grounds(a, r)  BY <1>2 DEF ReceivePosted, Grounds
  <2>4. Handle(a, r) /\ UNCHANGED <<tasksPosted, assignedTasks, escrow>>
    BY <1>2 DEF ReceivePosted
  <2>5. Published' = Published /\ Ledger' /\ Stored' /\ Parked'
    BY <2>1, <2>2, <2>3, <2>4, OnlyParks
  <2> QED  BY <2>4, <2>5, DeskKept DEF IInv, Safe
<1>3. CASE ReceiveBid(a, r)
  BY <1>3, ReceiveBidStep
<1>4. CASE ReceiveAssigned(a, r)
  <2>1. Executes(a, r) \in BOOLEAN  BY DEF Executes
  <2>2. Executes(a, r) => Grounds(a, r)
    BY <1>4 DEF ReceiveAssigned, Executes, Grounds
  <2>3. /\ Handle(a, r) /\ ParkIf(Executes(a, r), a, r)
        /\ UNCHANGED <<tasksPosted, assignedTasks, escrow>>
    BY <1>4 DEF ReceiveAssigned, context
  <2>4. Published' = Published /\ Ledger' /\ Stored' /\ Parked'
    BY <2>1, <2>2, <2>3, OnlyParks
  <2> QED  BY <2>3, <2>4, DeskKept DEF IInv, Safe
<1>5. CASE ReceiveCompleted(a, r)
  <2>1. Verifies(a, r) \in BOOLEAN  BY DEF Verifies
  <2>2. Grounds(a, r)  BY <1>5 DEF ReceiveCompleted, Grounds
  <2>3. /\ Handle(a, r) /\ ParkIf(Verifies(a, r), a, r)
        /\ UNCHANGED <<tasksPosted, assignedTasks, escrow>>
    BY <1>5 DEF ReceiveCompleted
  <2>4. Published' = Published /\ Ledger' /\ Stored' /\ Parked'
    BY <2>1, <2>2, <2>3, OnlyParks
  <2> QED  BY <2>3, <2>4, DeskKept DEF IInv, Safe
<1>6. CASE ReceiveVerified(a, r)
  <2>1. Settles(a, r) \in BOOLEAN  BY <1>1 DEF Settles, ActivityRecord
  <2>2. Settles(a, r) => Grounds(a, r)
    BY <1>6 DEF ReceiveVerified, Settles, Grounds
  <2>3. /\ Handle(a, r) /\ ParkIf(Settles(a, r), a, r)
        /\ UNCHANGED <<tasksPosted, assignedTasks>>
    BY <1>6 DEF ReceiveVerified
  <2>4. Published' = Published /\ Ledger' /\ Stored' /\ Parked'
    BY <2>1, <2>2, <2>3, OnlyParks
  <2>5. CASE Settles(a, r)
    <3>1. ClaimEscrow(a, r.task)  BY <1>6, <2>5 DEF ReceiveVerified
    <3>2. r \in Verdicts(r.task) /\ r.passed
      BY <1>1, <1>6, <2>5 DEF ReceiveVerified, Verdicts, Settles
    <3>3. Verdicts(r.task)' = Verdicts(r.task)  BY <2>4 DEF Verdicts
    <3>4. \E v \in Verdicts(r.task)' : v.passed  BY <3>2, <3>3
    <3> QED  BY <1>1, <2>3, <2>4, <3>1, <3>4, DeskClaims DEF Safe
  <2>6. CASE ~Settles(a, r)
    <3>1. escrow' = escrow  BY <1>6, <2>6 DEF ReceiveVerified
    <3> QED  BY <2>3, <2>4, <3>1, DeskKept DEF IInv, Safe
  <2> QED  BY <2>5, <2>6
<1>7. CASE ReceiveSettled(a, r)
  <2> DEFINE cond == r.agent # a /\ Attests(a, r.task)
  <2>1. cond => Grounds(a, r)
    BY <1>7 DEF ReceiveSettled, Attests, Grounds
  <2>2. /\ Handle(a, r) /\ ParkIf(cond, a, r)
        /\ UNCHANGED <<tasksPosted, assignedTasks, escrow>>
    BY <1>7 DEF ReceiveSettled, context
  <2>3. cond \in BOOLEAN  OBVIOUS
  <2> HIDE DEF cond
  <2>4. Published' = Published /\ Ledger' /\ Stored' /\ Parked'
    BY <2>1, <2>2, <2>3, OnlyParks
  <2> QED  BY <2>2, <2>4, DeskKept DEF IInv, Safe
<1>8. CASE ReceiveAttestation(a, r)
  <2>1. /\ Handle(a, r) /\ pending' = pending
        /\ UNCHANGED <<tasksPosted, assignedTasks, escrow>>
    BY <1>8 DEF ReceiveAttestation, context
  <2>2. ParkIf(FALSE, a, r)  BY <2>1 DEF ParkIf
  <2>3. Published' = Published /\ Ledger' /\ Stored' /\ Parked'
    BY <2>1, <2>2, OnlyParks
  <2> QED  BY <2>1, <2>3, DeskKept DEF IInv, Safe
<1> QED  BY <1>2, <1>3, <1>4, <1>5, <1>6, <1>7, <1>8 DEF Receive

\* The one assignment of a task: its poster's desk holds the bidder, the bid is
\* on record, and no other bid of that task is parked.
LEMMA SendAssignmentStep ==
  ASSUME IInv, NEW a \in Agents, NEW r \in pending[a], SendAssignment(a, r)
  PROVE  Safe'
<1> DEFINE x == Record("assigned", r.task, a, r.agent)
<1>1. r \in ActivityRecord /\ r.type = "bid" /\ r.task \in Tasks
      /\ r.agent \in Agents /\ r \in Published
  BY DEF IInv, TypeOK, ActivityRecord, Stored, SendAssignment
<1>2. /\ x \in ActivityRecord /\ x.type = "assigned" /\ x.task = r.task
      /\ x.agent = a /\ x.peer = r.agent /\ x.passed
  BY <1>1, RecordFacts DEF RecordTypes
<1>3. /\ r.task \in tasksPosted[a] /\ assignedTasks[a][r.task] = r.agent
      /\ Assignments(r.task) = {}
  BY <1>1 DEF IInv, Parked, Grounds
<1>4. a = Poster[r.task]
  BY <1>1, <1>3 DEF IInv, Desk, DeskOf
<1>5. WellFormed(r) /\ RestsOn(r)  BY <1>1 DEF IInv, Ledger
<1>6. r = Record("bid", r.task, r.agent, NoAgent)
  BY <1>1, <1>5, RecordIs DEF WellFormed
<1>7. /\ Publish(a, x) /\ Resume(a, r, {}) /\ FundEscrow(a, r.task)
      /\ UNCHANGED <<tasksPosted, assignedTasks>>
  BY DEF SendAssignment
<1> HIDE DEF x
<1>8. \A b \in Agents : \A s \in pending'[b] :
        s \in pending[b] /\ ~(b = a /\ s = r)
  BY <1>7, ResumeAdds DEF IInv
<1>9. Published' = Published \cup {x} /\ Stored'
  BY <1>2, <1>7, <1>8, PublishStored DEF IInv
<1>10. Ledger'
  <2>1. WellFormed(x)  BY <1>1, <1>2, <1>4 DEF WellFormed
  <2>2. RestsOn(x)  BY <1>1, <1>2, <1>5, <1>6 DEF RestsOn
  <2> QED  BY <1>2, <1>3, <1>9, <2>1, <2>2, LedgerAdds DEF IInv
<1>11. /\ Assignments(r.task)' = {x}
       /\ \A u : u # r.task => Assignments(u)' = Assignments(u)
       /\ \A u : Verdicts(u)' = Verdicts(u)
  BY <1>2, <1>3, <1>9 DEF Assignments, Verdicts
<1>12. /\ escrow'[a][r.task] = "locked"
       /\ \A b \in Agents, u \in Tasks :
            ~(b = a /\ u = r.task) => escrow'[b][u] = escrow[b][u]
  BY <1>1, <1>7 DEF FundEscrow, IInv, TypeOK
<1>13. Desk'
  <2> SUFFICES ASSUME NEW b \in Agents, NEW u \in Tasks PROVE DeskOf(b, u)'
    BY DEF Desk
  <2>1. DeskOf(b, u)  BY DEF IInv, Desk
  <2>2. CASE b = a /\ u = r.task
    BY <1>2, <1>3, <1>7, <1>11, <1>12, <2>1, <2>2 DEF DeskOf
  <2>3. CASE u # r.task
    BY <1>7, <1>11, <1>12, <2>1, <2>3 DEF DeskOf
  <2>4. CASE b # a /\ u = r.task
    BY <1>4, <1>7, <1>11, <1>12, <2>1, <2>4 DEF DeskOf
  <2> QED  BY <2>2, <2>3, <2>4
<1>14. Parked'
  <2> SUFFICES ASSUME NEW b \in Agents, NEW s \in pending'[b]
               PROVE  Grounds(b, s)'
    BY DEF Parked
  <2>1. s \in pending[b] /\ ~(b = a /\ s = r)  BY <1>8
  <2>2. Grounds(b, s)  BY <2>1 DEF IInv, Parked
  <2>3. ~(s.type = "bid" /\ s.task = r.task)
    <3> SUFFICES ASSUME s.type = "bid", s.task = r.task PROVE FALSE
      OBVIOUS
    <3>1. b = a
      BY <1>1, <1>4, <2>2 DEF Grounds, IInv, Desk, DeskOf
    <3>2. s.agent = r.agent  BY <1>3, <2>2, <3>1 DEF Grounds
    <3>3. s \in ActivityRecord /\ WellFormed(s)
      BY <2>1 DEF IInv, TypeOK, Stored, Ledger
    <3>4. s = Record("bid", r.task, r.agent, NoAgent)
      BY <3>2, <3>3, RecordIs DEF WellFormed
    <3> QED  BY <1>6, <2>1, <3>1, <3>4
  <2> QED  BY <1>7, <1>11, <2>2, <2>3 DEF Grounds
<1> QED  BY <1>9, <1>10, <1>13, <1>14 DEF Safe

\* What a settlement rests on: somebody completed the task, having been given it.
LEMMA SettledWasAssigned ==
  ASSUME IInv, NEW r \in Published, r.type \in {"verified", "settled"}
  PROVE  \E w \in Agents :
           /\ Record("assigned", r.task, Poster[r.task], w) \in Published
           /\ Record("completed", r.task, w, NoAgent) \in Published
<1>1. PICK v \in Published : v.type = "verified" /\ v.task = r.task
  BY DEF IInv, Ledger, RestsOn, Verdicts
<1>2. PICK c \in Published : c.type = "completed" /\ c.task = r.task
  BY <1>1 DEF IInv, Ledger, RestsOn
<1>3. c \in ActivityRecord /\ c.agent \in Agents
  BY PublishedType DEF IInv, ActivityRecord
<1>4. Record("assigned", r.task, Poster[r.task], c.agent) \in Published
  BY <1>2 DEF IInv, Ledger, RestsOn
<1>5. c = Record("completed", r.task, c.agent, NoAgent)
  BY <1>2, <1>3, RecordIs DEF IInv, Ledger, WellFormed
<1> QED  BY <1>3, <1>4, <1>5

\* The other continuations.
LEMMA ContinueStep ==
  ASSUME IInv, NEW a \in Agents, NEW r \in pending[a], Continue(a, r)
  PROVE  Safe'
<1>1. r \in ActivityRecord /\ r.task \in Tasks /\ r.agent \in Agents
      /\ r \in Published
  BY DEF IInv, TypeOK, ActivityRecord, Stored
<1>2. WellFormed(r) /\ RestsOn(r) /\ Grounds(a, r)
  BY <1>1 DEF IInv, Ledger, Parked
<1>3. CASE SendBid(a, r)
  <2> DEFINE x == Record("bid", r.task, a, NoAgent)
  <2>1. /\ x \in ActivityRecord /\ x.type = "bid" /\ x.task = r.task
        /\ x.agent = a /\ x.peer = NoAgent /\ x.passed
    BY <1>1, RecordFacts DEF RecordTypes
  <2>2. /\ r.type = "posted" /\ Publish(a, x) /\ Resume(a, r, {})
        /\ UNCHANGED <<tasksPosted, assignedTasks, escrow>>
    BY <1>3 DEF SendBid, context
  <2> HIDE DEF x
  <2>3. r = Record("posted", r.task, Poster[r.task], NoAgent)
    BY <1>1, <1>2, <2>2, RecordIs DEF WellFormed
  <2>4. WellFormed(x) /\ RestsOn(x)
    BY <1>1, <2>1, <2>3 DEF WellFormed, RestsOn
  <2>5. \A b \in Agents : \A s \in pending'[b] : s \in pending[b]
    BY <2>2, ResumeAdds DEF IInv
  <2>6. Published' = Published \cup {x} /\ Ledger' /\ Stored' /\ Parked'
    BY <2>1, <2>2, <2>4, <2>5, OnlyPublishes
  <2> QED  BY <2>1, <2>2, <2>6, DeskKept DEF IInv, Safe
<1>4. CASE SendAssignment(a, r)
  BY <1>4, SendAssignmentStep
<1>5. CASE SendCompletion(a, r)
  <2> DEFINE x == Record("completed", r.task, a, NoAgent)
  <2>1. /\ x \in ActivityRecord /\ x.type = "completed" /\ x.task = r.task
        /\ x.agent = a /\ x.peer = NoAgent /\ x.passed
    BY <1>1, RecordFacts DEF RecordTypes
  <2>2. /\ r.type = "assigned" /\ Publish(a, x) /\ Resume(a, r, {})
        /\ UNCHANGED <<tasksPosted, assignedTasks, escrow>>
    BY <1>5 DEF SendCompletion, context
  <2> HIDE DEF x
  <2>3. r = Record("assigned", r.task, Poster[r.task], a)
    BY <1>1, <1>2, <2>2, RecordIs DEF WellFormed, Grounds
  <2>4. WellFormed(x) /\ RestsOn(x)
    BY <1>1, <2>1, <2>3 DEF WellFormed, RestsOn
  <2>5. \A b \in Agents : \A s \in pending'[b] : s \in pending[b]
    BY <2>2, ResumeAdds DEF IInv
  <2>6. Published' = Published \cup {x} /\ Ledger' /\ Stored' /\ Parked'
    BY <2>1, <2>2, <2>4, <2>5, OnlyPublishes
  <2> QED  BY <2>1, <2>2, <2>6, DeskKept DEF IInv, Safe
<1>6. CASE SendVerdict(a, r)
  <2> DEFINE x == Record("verified", r.task, a, NoAgent)
             next == IF SettlesOwn(a, r.task) THEN {x} ELSE {}
  <2>1. /\ x \in ActivityRecord /\ x.type = "verified" /\ x.task = r.task
        /\ x.agent = a /\ x.peer = NoAgent /\ x.passed
    BY <1>1, RecordFacts DEF RecordTypes
  <2>2. /\ r.type = "completed" /\ Publish(a, x) /\ Resume(a, r, next)
        /\ UNCHANGED <<tasksPosted, assignedTasks>>
    BY <1>6 DEF SendVerdict
  <2>3. \A s \in next : s = x /\ r.task \in tasksPosted[a]
    BY DEF SettlesOwn
  <2>4. IF SettlesOwn(a, r.task) THEN ClaimEscrow(a, r.task)
        ELSE escrow' = escrow
    BY <1>6 DEF SendVerdict
  <2> HIDE DEF x, next
  <2>5. WellFormed(x) /\ RestsOn(x)
    BY <1>1, <2>1, <2>2 DEF WellFormed, RestsOn
  <2>6. \A b \in Agents : \A s \in pending'[b] :
          s \in pending[b] \/ (b = a /\ s \in next)
    BY <2>2, ResumeAdds DEF IInv
  <2>7. \A b \in Agents : \A s \in pending'[b] :
          s \in pending[b] \/ (s = x /\ Grounds(b, x))
    BY <2>1, <2>3, <2>6 DEF Grounds
  <2>8. Published' = Published \cup {x} /\ Ledger' /\ Stored' /\ Parked'
    BY <2>1, <2>2, <2>5, <2>7, OnlyPublishes
  <2>9. \E v \in Verdicts(r.task)' : v.passed
    BY <2>1, <2>8 DEF Verdicts
  <2>10. \A s \in Published' : s \in Published \/ s.type # "assigned"
    BY <2>1, <2>8
  <2>11. Desk'
    <3>1. CASE SettlesOwn(a, r.task)
      BY <1>1, <2>2, <2>4, <2>8, <2>9, <2>10, <3>1, DeskClaims
    <3>2. CASE ~SettlesOwn(a, r.task)
      BY <2>2, <2>4, <2>8, <2>10, <3>2, DeskKept DEF IInv
    <3> QED  BY <3>1, <3>2
  <2> QED  BY <2>8, <2>11 DEF Safe
<1>7. CASE SendSettlement(a, r)
  <2> DEFINE x == Record("settled", r.task, a, r.agent)
             next == IF Attests(a, r.task) THEN {x} ELSE {}
  <2>1. /\ x \in ActivityRecord /\ x.type = "settled" /\ x.task = r.task
        /\ x.agent = a /\ x.passed
    BY <1>1, RecordFacts DEF RecordTypes
  <2>2. /\ r.type = "verified" /\ Publish(a, x) /\ Resume(a, r, next)
        /\ UNCHANGED <<tasksPosted, assignedTasks, escrow>>
    BY <1>7 DEF SendSettlement, context
  <2>3. \A s \in next : s = x /\ assignedTasks[a][r.task] # NoAgent
    BY DEF Attests
  <2> HIDE DEF x, next
  <2>4. r.task \in tasksPosted[a] /\ r.passed
    BY <1>2, <2>2 DEF Grounds
  <2>5. a = Poster[r.task]
    BY <1>1, <2>4 DEF IInv, Desk, DeskOf
  <2>6. r \in Verdicts(r.task)  BY <1>1, <2>2 DEF Verdicts
  <2>7. WellFormed(x) /\ RestsOn(x)
    BY <1>1, <2>1, <2>4, <2>5, <2>6 DEF WellFormed, RestsOn
  <2>8. \A b \in Agents : \A s \in pending'[b] :
          s \in pending[b] \/ (b = a /\ s \in next)
    BY <2>2, ResumeAdds DEF IInv
  <2>9. \A b \in Agents : \A s \in pending'[b] :
          s \in pending[b] \/ (s = x /\ Grounds(b, x))
    BY <2>1, <2>3, <2>8 DEF Grounds
  <2>10. Published' = Published \cup {x} /\ Ledger' /\ Stored' /\ Parked'
    BY <2>1, <2>2, <2>7, <2>9, OnlyPublishes
  <2> QED  BY <2>1, <2>2, <2>10, DeskKept DEF IInv, Safe
<1>8. CASE SendAttestation(a, r)
  <2> DEFINE x == Record("attestation", r.task, a, assignedTasks[a][r.task])
  <2>1. assignedTasks[a][r.task] \in Agents \cup {NoAgent}
    BY <1>1 DEF IInv, TypeOK
  <2>2. /\ x \in ActivityRecord /\ x.type = "attestation" /\ x.task = r.task
        /\ x.agent = a /\ x.peer = assignedTasks[a][r.task] /\ x.passed
    BY <1>1, <2>1, RecordFacts DEF RecordTypes
  <2>3. /\ r.type = "settled" /\ Publish(a, x) /\ Resume(a, r, {})
        /\ UNCHANGED <<tasksPosted, assignedTasks, escrow>>
    BY <1>8 DEF SendAttestation, context
  <2> HIDE DEF x
  <2>4. r.task \in tasksPosted[a] /\ a = Poster[r.task]
    BY <1>1, <1>2, <2>3 DEF Grounds, IInv, Desk, DeskOf
  <2>5. PICK w \in Agents : Record("assigned", r.task, a, w) \in Published
    BY <1>1, <2>3, <2>4, SettledWasAssigned
  <2>6. /\ Record("assigned", r.task, a, w) \in Assignments(r.task)
        /\ Record("assigned", r.task, a, w).peer = w
    BY <1>1, <2>5, RecordFacts DEF Assignments, RecordTypes
  <2>7. assignedTasks[a][r.task] = w
    BY <1>1, <2>4, <2>6 DEF IInv, Desk, DeskOf
  <2>8. r \in Settlements(r.task)  BY <1>1, <2>3 DEF Settlements
  <2>9. WellFormed(x) /\ RestsOn(x)
    BY <1>1, <2>2, <2>4, <2>5, <2>7, <2>8 DEF WellFormed, RestsOn
  <2>10. \A b \in Agents : \A s \in pending'[b] : s \in pending[b]
    BY <2>3, ResumeAdds DEF IInv
  <2>11. Published' = Published \cup {x} /\ Ledger' /\ Stored' /\ Parked'
    BY <2>2, <2>3, <2>9, <2>10, OnlyPublishes
  <2> QED  BY <2>2, <2>3, <2>11, DeskKept DEF IInv, Safe
<1> QED  BY <1>3, <1>4, <1>5, <1>6, <1>7, <1>8 DEF Continue

\* A verdict of a peer, for or against, is about a completed task.
LEMMA PeerVerdictStep ==
  ASSUME IInv, NEW a \in Agents, NEW r \in store[a], NEW passed \in BOOLEAN,
         PeerVerdict(a, r, passed)
  PROVE  Safe'
<1> DEFINE x == [type |-> "verified", task |-> r.task, agent |-> a,
                 peer |-> NoAgent, passed |-> passed]
<1>1. r \in Published /\ r \in ActivityRecord /\ r.type = "completed"
  BY DEF IInv, TypeOK, Published, PeerVerdict
<1>2. /\ x \in ActivityRecord /\ x.type = "verified" /\ x.task = r.task
      /\ x.agent = a
  BY <1>1 DEF ActivityRecord, RecordTypes
<1>3. /\ Publish(a, x) /\ pending' = pending
      /\ UNCHANGED <<tasksPosted, assignedTasks, escrow>>
  BY DEF PeerVerdict, context
<1> HIDE DEF x
<1>4. WellFormed(x) /\ RestsOn(x)
  BY <1>1, <1>2 DEF WellFormed, RestsOn
<1>5. Published' = Published \cup {x} /\ Ledger' /\ Stored' /\ Parked'
  BY <1>2, <1>3, <1>4, OnlyPublishes
<1> QED  BY <1>2, <1>3, <1>5, DeskKept DEF IInv, Safe

\* A stop empties a desk, and whatever else fails only loses records under way.
LEMMA FaultStep ==
  ASSUME IInv,
         \/ \E a \in Agents : Stop(a) \/ Start(a)
         \/ \E a, b \in Agents : Cut(a, b)
         \/ \E a \in Agents, t \in Tasks : LockExpires(a, t)
         \/ UNCHANGED vars
  PROVE  Safe'
<1>1. store' = store
  BY DEF Stop, Start, Cut, LockExpires, vars
<1>2. Published' = Published  BY <1>1 DEF Published
<1>3. Ledger'  BY <1>2, LedgerSame DEF IInv
<1>4. \A u : Assignments(u)' = Assignments(u) /\ Verdicts(u)' = Verdicts(u)
  BY <1>2 DEF Assignments, Verdicts
<1>5. \A b \in Agents : /\ inbox'[b] \subseteq inbox[b]
                        /\ pending'[b] \subseteq pending[b]
  <2>1. ASSUME NEW a \in Agents, Stop(a)
        PROVE  \A b \in Agents : /\ inbox'[b] \subseteq inbox[b]
                                 /\ pending'[b] \subseteq pending[b]
    BY <2>1 DEF Stop, IInv, TypeOK
  <2>2. ASSUME NEW a \in Agents, NEW b \in Agents, Cut(a, b)
        PROVE  \A c \in Agents : /\ inbox'[c] \subseteq inbox[c]
                                 /\ pending'[c] \subseteq pending[c]
    <3>1. PICK lostA, lostB :
            inbox' = [inbox EXCEPT ![a] = @ \ lostA, ![b] = @ \ lostB]
      BY <2>2 DEF Cut
    <3>2. pending' = pending  BY <2>2 DEF Cut
    <3> QED  BY <3>1, <3>2 DEF IInv, TypeOK
  <2>3. ASSUME \/ \E a \in Agents : Start(a)
               \/ \E a \in Agents, t \in Tasks : LockExpires(a, t)
               \/ UNCHANGED vars
        PROVE  inbox' = inbox /\ pending' = pending
    BY <2>3 DEF Start, LockExpires, vars
  <2> QED  BY <2>1, <2>2, <2>3
<1>6. Stored'  BY <1>1, <1>2, <1>5 DEF IInv, Stored
<1>7. CASE \E a \in Agents : Stop(a)
  <2>1. PICK a \in Agents : Stop(a)  BY <1>7
  <2>2. /\ tasksPosted' = [tasksPosted EXCEPT ![a] = {}]
        /\ pending' = [pending EXCEPT ![a] = {}]
        /\ assignedTasks' =
             [assignedTasks EXCEPT ![a] = [t \in Tasks |-> NoAgent]]
        /\ escrow' = [escrow EXCEPT ![a] = [t \in Tasks |-> "none"]]
    BY <2>1 DEF Stop
  <2>3. /\ pending'[a] = {} /\ tasksPosted'[a] = {}
        /\ \A t \in Tasks : assignedTasks'[a][t] = NoAgent
        /\ \A t \in Tasks : escrow'[a][t] = "none"
    BY <2>2 DEF IInv, TypeOK
  <2>4. \A b \in Agents \ {a} : /\ pending'[b] = pending[b]
                                /\ tasksPosted'[b] = tasksPosted[b]
                                /\ assignedTasks'[b] = assignedTasks[b]
                                /\ escrow'[b] = escrow[b]
    BY <2>2 DEF IInv, TypeOK
  <2>5. Desk'
    <3> SUFFICES ASSUME NEW b \in Agents, NEW u \in Tasks PROVE DeskOf(b, u)'
      BY DEF Desk
    <3>1. CASE b = a  BY <2>3, <3>1 DEF DeskOf
    <3>2. CASE b # a
      <4>1. DeskOf(b, u)  BY DEF IInv, Desk
      <4> QED  BY <1>4, <2>4, <3>2, <4>1 DEF DeskOf
    <3> QED  BY <3>1, <3>2
  <2>6. Parked'
    <3> SUFFICES ASSUME NEW b \in Agents, NEW s \in pending'[b]
                 PROVE  Grounds(b, s)'
      BY DEF Parked
    <3>1. b # a  BY <2>3
    <3>2. Grounds(b, s)  BY <2>4, <3>1 DEF IInv, Parked
    <3> QED  BY <1>4, <2>4, <3>1, <3>2 DEF Grounds
  <2> QED  BY <1>3, <1>6, <2>5, <2>6 DEF Safe
<1>8. CASE \E a \in Agents, t \in Tasks : LockExpires(a, t)
  <2>1. PICK a \in Agents, t \in Tasks : LockExpires(a, t)  BY <1>8
  <2>2. UNCHANGED <<tasksPosted, assignedTasks>>  BY <2>1 DEF LockExpires
  <2>3. \A b \in Agents, u \in Tasks :
          \/ escrow'[b][u] = escrow[b][u]
          \/ escrow[b][u] = "locked" /\ escrow'[b][u] = "expired"
    BY <2>1 DEF LockExpires, IInv, TypeOK
  <2>4. Desk'
    <3> SUFFICES ASSUME NEW b \in Agents, NEW u \in Tasks PROVE DeskOf(b, u)'
      BY DEF Desk
    <3>1. DeskOf(b, u)  BY DEF IInv, Desk
    <3> QED  BY <1>4, <2>2, <2>3, <3>1 DEF DeskOf
  <2>5. Parked'  BY <1>2, <1>5, <2>2, ParkedKept DEF IInv
  <2> QED  BY <1>3, <1>6, <2>4, <2>5 DEF Safe
<1>9. CASE UNCHANGED <<tasksPosted, assignedTasks, escrow>>
  BY <1>2, <1>3, <1>5, <1>6, <1>9, DeskKept, ParkedKept DEF IInv, Safe
<1> QED
  BY <1>7, <1>8, <1>9 DEF Start, Cut, context, vars

-----------------------------------------------------------------------------
(* The theorems.                                                           *)

LEMMA IInvInit ==
  ASSUME Init
  PROVE  IInv
<1>1. Published = {}  BY DEF Init, Published
<1>2. TypeOK  BY ConstantsAssumption DEF Init, TypeOK, EscrowStates
<1>3. Ledger  BY <1>1 DEF Ledger, Assignments
<1>4. Stored  BY DEF Init, Stored
<1>5. Desk  BY DEF Init, Desk, DeskOf
<1>6. Parked  BY DEF Init, Parked
<1> QED  BY <1>2, <1>3, <1>4, <1>5, <1>6 DEF IInv

LEMMA IInvStep ==
  ASSUME IInv, [Next]_vars
  PROVE  IInv'
<1>1. TypeOK'  BY TypeStep DEF IInv
<1>2. Safe'
  BY PostStep, ReceiveStep, ContinueStep, PeerVerdictStep, FaultStep DEF Next
<1> QED  BY <1>1, <1>2 DEF IInv, Safe

\* The inductive invariant holds in every reachable state.
THEOREM InvariantHolds == Spec => []IInv
BY IInvInit, IInvStep, PTL DEF Spec

\* No task is ever given to two workers, whatever is lost, delayed, reordered or
\* restarted: autoAssign's check of assignedTasks suffices because a poster that
\* lost the map has also lost tasksPosted.
THEOREM AssignedOnce == Spec => []SingleAssignment
<1>1. IInv => SingleAssignment
  <2> SUFFICES ASSUME IInv, NEW t \in Tasks, NEW r \in Assignments(t),
                      NEW s \in Assignments(t)
               PROVE  /\ r = s
                      /\ r.agent = Poster[t]
                      /\ Record("bid", t, r.peer, NoAgent) \in Published
    BY DEF SingleAssignment
  <2> QED  BY DEF IInv, Ledger, WellFormed, RestsOn, Assignments
<1> QED  BY <1>1, InvariantHolds, PTL

\* A worker only works on, and only reports, what its poster gave it
\* (executeTask).
THEOREM WorkIsAssigned == Spec => []WorkOnlyWhenAssigned
<1>1. IInv => WorkOnlyWhenAssigned
  <2> SUFFICES ASSUME IInv, NEW t \in Tasks, NEW w \in Agents,
                      \/ Record("completed", t, w, NoAgent) \in Published
                      \/ \E r \in pending[w] : r.type = "assigned" /\ r.task = t
               PROVE  Record("assigned", t, Poster[t], w) \in Published
    BY DEF WorkOnlyWhenAssigned
  <2>1. CASE Record("completed", t, w, NoAgent) \in Published
    <3>1. /\ Record("completed", t, w, NoAgent).type = "completed"
          /\ Record("completed", t, w, NoAgent).task = t
          /\ Record("completed", t, w, NoAgent).agent = w
      BY RecordFacts DEF RecordTypes
    <3> QED  BY <2>1, <3>1 DEF IInv, Ledger, RestsOn
  <2>2. CASE \E r \in pending[w] : r.type = "assigned" /\ r.task = t
    <3>1. PICK r \in pending[w] : r.type = "assigned" /\ r.task = t
      BY <2>2
    <3>2. r \in Published /\ r \in ActivityRecord
      BY DEF IInv, TypeOK, Stored
    <3>3. r.agent = Poster[t] /\ r.peer = w /\ r.passed
      BY <3>1, <3>2 DEF IInv, Ledger, WellFormed, Parked, Grounds
    <3> QED  BY <3>1, <3>2, <3>3, RecordIs
  <2> QED  BY <2>1, <2>2
<1> QED  BY <1>1, InvariantHolds, PTL

\* While a worker works its payment is in the escrow (autoAssign).
THEOREM WorkerIsSecured == Spec => []WorkIsEscrowed
<1>1. IInv => WorkIsEscrowed
  <2> SUFFICES ASSUME IInv, NEW w \in Agents, NEW r \in pending[w],
                      r.type = "assigned", r.task \in tasksPosted[Poster[r.task]]
               PROVE  escrow[Poster[r.task]][r.task]
                        \in {"locked", "expired", "claimed"}
    BY DEF WorkIsEscrowed
  <2>1. r \in Published /\ r.task \in Tasks
    BY DEF IInv, TypeOK, Stored, ActivityRecord
  <2>2. r \in Assignments(r.task)  BY <2>1 DEF Assignments
  <2>3. Poster[r.task] \in Agents  BY <2>1, ConstantsAssumption
  <2> QED  BY <2>1, <2>2, <2>3 DEF IInv, Desk, DeskOf
<1> QED  BY <1>1, InvariantHolds, PTL

\* Nobody is paid, and nobody announces a settlement, before the executor's
\* result and a verdict in its favour (settleTask, publishAttestation).
THEOREM PaymentIsEarned == Spec => []PaymentFollowsWork
<1>1. ASSUME IInv, NEW t \in Tasks, \E v \in Verdicts(t) : v.passed
      PROVE  PaymentIsDue(t)
  <2>1. PICK v \in Verdicts(t) : v.passed  BY <1>1
  <2>2. v \in Published /\ v.type = "verified" /\ v.task = t
    BY DEF Verdicts
  <2>3. PICK w \in Agents :
          /\ Record("assigned", t, Poster[t], w) \in Published
          /\ Record("completed", t, w, NoAgent) \in Published
    BY <1>1, <2>2, SettledWasAssigned
  <2>4. Poster[t] \in Agents  BY ConstantsAssumption
  <2>5. /\ Record("assigned", t, Poster[t], w) \in Assignments(t)
        /\ Record("assigned", t, Poster[t], w).peer = w
    BY <2>3, <2>4, RecordFacts DEF Assignments, RecordTypes
  <2> QED  BY <2>1, <2>3, <2>5 DEF PaymentIsDue
<1>2. IInv => PaymentFollowsWork
  <2> SUFFICES ASSUME IInv, NEW t \in Tasks
               PROVE  /\ \A r \in Settlements(t) :
                           r.agent = Poster[t] /\ PaymentIsDue(t)
                      /\ \A a \in Agents :
                           escrow[a][t] = "claimed" => PaymentIsDue(t)
                      /\ \A r \in Published :
                           r.type = "attestation" /\ r.task = t
                             => /\ Settlements(t) # {}
                                /\ Record("assigned", t, r.agent, r.peer)
                                     \in Published
    BY DEF PaymentFollowsWork
  <2>1. \A r \in Settlements(t) : r.agent = Poster[t] /\ PaymentIsDue(t)
    <3> TAKE r \in Settlements(t)
    <3>1. WellFormed(r) /\ RestsOn(r) /\ r.type = "settled" /\ r.task = t
      BY DEF IInv, Ledger, Settlements
    <3>2. r.agent = Poster[t]  BY <3>1 DEF WellFormed
    <3>3. \E v \in Verdicts(t) : v.passed  BY <3>1 DEF RestsOn
    <3> QED  BY <1>1, <3>2, <3>3
  <2>2. \A a \in Agents : escrow[a][t] = "claimed" => PaymentIsDue(t)
    BY <1>1 DEF IInv, Desk, DeskOf
  <2>3. \A r \in Published :
          r.type = "attestation" /\ r.task = t
            => /\ Settlements(t) # {}
               /\ Record("assigned", t, r.agent, r.peer) \in Published
    BY DEF IInv, Ledger, RestsOn
  <2> QED  BY <2>1, <2>2, <2>3
<1> QED  BY <1>2, InvariantHolds, PTL
=============================================================================
