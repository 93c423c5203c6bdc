-------------------- MODULE TaskProtocolRefinement_proofs --------------------
(***************************************************************************)
(* The task protocol implements TaskLifecycle: the first state maps to its *)
(* first state, and every step to a step of a single task or to a stutter. *)
(***************************************************************************)
EXTENDS TaskProtocol_proofs

\* A step publishes one record or none.
LEMMA OneRecord ==
  ASSUME IInv, [Next]_vars
  PROVE  \/ Published' = Published
         \/ \E x : Published' = Published \cup {x}
<1>1. ASSUME NEW a \in Agents, NEW t \in Tasks, Post(a, t)
      PROVE  \E x : Published' = Published \cup {x}
  BY <1>1, PublishGrows DEF Post, IInv
<1>2. ASSUME NEW a \in Agents, NEW r \in inbox[a], Receive(a, r)
      PROVE  Published' = Published
  <2>1. Handle(a, r)
    BY <1>2 DEF Receive, ReceivePosted, ReceiveBid, ReceiveAssigned,
       ReceiveCompleted, ReceiveVerified, ReceiveSettled, ReceiveAttestation
  <2> QED  BY <2>1, HandleKeeps DEF IInv
<1>3. ASSUME NEW a \in Agents, NEW r \in pending[a], Continue(a, r)
      PROVE  \E x : Published' = Published \cup {x}
  <2>1. \E x : Publish(a, x)
    BY <1>3 DEF Continue, SendBid, SendAssignment, SendCompletion, SendVerdict,
       SendSettlement, SendAttestation
  <2> QED  BY <2>1, PublishGrows DEF IInv
<1>4. ASSUME NEW a \in Agents, NEW r \in store[a], NEW passed \in BOOLEAN,
             PeerVerdict(a, r, passed)
      PROVE  \E x : Published' = Published \cup {x}
  BY <1>4, PublishGrows DEF PeerVerdict, IInv
<1>5. ASSUME store' = store
      PROVE  Published' = Published
  BY <1>5 DEF Published
<1>6. ASSUME \/ \E a \in Agents : Stop(a) \/ Start(a)
             \/ \E a, b \in Agents : Cut(a, b)
             \/ \E a \in Agents, t \in Tasks : LockExpires(a, t)
             \/ UNCHANGED vars
      PROVE  Published' = Published
  BY <1>5, <1>6 DEF Stop, Start, Cut, LockExpires, vars
<1> QED  BY <1>1, <1>2, <1>3, <1>4, <1>6 DEF Next

\* How far a task has come shows in every earlier step of its life.
LEMMA SeenBefore ==
  ASSUME IInv, NEW t \in Tasks
  PROVE  /\ Seen(t, "settled") => Seen(t, "verified") /\ t \in Approved
         /\ Seen(t, "verified") => Seen(t, "completed")
         /\ Seen(t, "completed") => Seen(t, "assigned")
         /\ Seen(t, "assigned") => Seen(t, "posted")
<1>1. Seen(t, "settled") => Seen(t, "verified") /\ t \in Approved
  BY DEF IInv, Ledger, RestsOn, Seen, Approved, Verdicts
<1>2. Seen(t, "verified") => Seen(t, "completed")
  BY DEF IInv, Ledger, RestsOn, Seen
<1>3. Seen(t, "completed") => Seen(t, "assigned")
  <2> SUFFICES ASSUME Seen(t, "completed") PROVE Seen(t, "assigned")
    OBVIOUS
  <2>1. PICK c \in Published : c.type = "completed" /\ c.task = t
    BY DEF Seen
  <2>2. c.agent \in Agents  BY PublishedType DEF IInv, ActivityRecord
  <2>3. Record("assigned", t, Poster[t], c.agent) \in Published
    BY <2>1 DEF IInv, Ledger, RestsOn
  <2>4. /\ Record("assigned", t, Poster[t], c.agent).type = "assigned"
        /\ Record("assigned", t, Poster[t], c.agent).task = t
    BY <2>2, ConstantsAssumption, RecordFacts DEF RecordTypes
  <2> QED  BY <2>3, <2>4 DEF Seen
<1>4. Seen(t, "assigned") => Seen(t, "posted")
  <2> SUFFICES ASSUME Seen(t, "assigned") PROVE Seen(t, "posted")
    OBVIOUS
  <2>1. Record("posted", t, Poster[t], NoAgent) \in Published
    BY DEF Seen, IInv, Ledger, RestsOn
  <2>2. /\ Record("posted", t, Poster[t], NoAgent).type = "posted"
        /\ Record("posted", t, Poster[t], NoAgent).task = t
    BY ConstantsAssumption, RecordFacts DEF RecordTypes
  <2> QED  BY <2>1, <2>2 DEF Seen
<1> QED  BY <1>1, <1>2, <1>3, <1>4

\* What one more record changes in the life of the tasks: only the task it is
\* about, and of that only what its type says.
LEMMA OneRecordChanges ==
  ASSUME NEW x, Published' = Published \cup {x}
  PROVE  /\ \A u, type : Seen(u, type)' <=>
                           Seen(u, type) \/ (u = x.task /\ type = x.type)
         /\ \A u : u # x.task => Status(u)' = Status(u)
         /\ \A u : Assignments(u)' =
                     IF x.type = "assigned" /\ x.task = u
                     THEN Assignments(u) \cup {x} ELSE Assignments(u)
         /\ \A u : Verdicts(u)' =
                     IF x.type = "verified" /\ x.task = u
                     THEN Verdicts(u) \cup {x} ELSE Verdicts(u)
<1>1. \A u, type : Seen(u, type)' <=>
                     Seen(u, type) \/ (u = x.task /\ type = x.type)
  BY DEF Seen
<1>2. \A u : u # x.task => Status(u)' = Status(u)
  BY <1>1 DEF Status
<1>3. \A u : Assignments(u)' =
               IF x.type = "assigned" /\ x.task = u
               THEN Assignments(u) \cup {x} ELSE Assignments(u)
  BY DEF Assignments
<1>4. \A u : Verdicts(u)' =
               IF x.type = "verified" /\ x.task = u
               THEN Verdicts(u) \cup {x} ELSE Verdicts(u)
  BY DEF Verdicts
<1> QED  BY <1>1, <1>2, <1>3, <1>4

\* A constructed record keeps the type and the task it was given.
LEMMA Labels ==
  ASSUME NEW type, NEW t, NEW a, NEW p
  PROVE  /\ Record(type, t, a, p).type = type
         /\ Record(type, t, a, p).task = t
         /\ Record(type, t, a, p).agent = a
         /\ Record(type, t, a, p).peer = p
BY DEF Record

\* Each new record is a step of its task, or none if nothing new was said.
LEMMA RecordStep ==
  ASSUME IInv, IInv', NEW x, x \notin Published, Published' = Published \cup {x}
  PROVE  Lifecycle!Next \/ UNCHANGED Lifecycle!lifecycle
<1> DEFINE t == x.task
<1>1. x \in ActivityRecord
  <2>1. TypeOK'  BY DEF IInv
  <2>2. Published' \subseteq ActivityRecord  BY <2>1 DEF TypeOK, Published
  <2> QED  BY <2>2
<1>2. t \in Tasks /\ x.agent \in Agents /\ x.type \in RecordTypes
      /\ x.passed \in BOOLEAN
  BY <1>1 DEF ActivityRecord
<1>3. WellFormed(x) /\ RestsOn(x)'
  BY DEF IInv, Ledger, WellFormed
<1>4. /\ \A u, type : Seen(u, type)' <=>
                        Seen(u, type) \/ (u = x.task /\ type = x.type)
      /\ \A u : u # x.task => Status(u)' = Status(u)
      /\ \A u : Assignments(u)' =
                  IF x.type = "assigned" /\ x.task = u
                  THEN Assignments(u) \cup {x} ELSE Assignments(u)
      /\ \A u : Verdicts(u)' =
                  IF x.type = "verified" /\ x.task = u
                  THEN Verdicts(u) \cup {x} ELSE Verdicts(u)
  BY OneRecordChanges
<1>5. /\ Seen(t, "settled") => Seen(t, "verified") /\ t \in Approved
      /\ Seen(t, "verified") => Seen(t, "completed")
      /\ Seen(t, "completed") => Seen(t, "assigned")
      /\ Seen(t, "assigned") => Seen(t, "posted")
  BY <1>2, SeenBefore
<1>6. x.type # "bid" => \A u : Bidders(u)' = Bidders(u)
  BY Labels DEF Bidders
<1>7. x.type # "assigned" => \A u : Worker(u)' = Worker(u)
  BY <1>4 DEF Worker
<1>8. x.type # "verified" => Approved' = Approved
  BY <1>4 DEF Approved
<1>9. CASE x.type = "posted"
  <2>1. ~Seen(t, "posted")
    <3> SUFFICES ASSUME NEW r \in Published, r.type = "posted", r.task = t
                 PROVE  FALSE
      BY DEF Seen
    <3>1. r \in ActivityRecord /\ WellFormed(r)
      BY PublishedType DEF IInv, Ledger
    <3>2. r = Record("posted", t, Poster[t], NoAgent)
      BY <3>1, RecordIs DEF WellFormed
    <3>3. x = Record("posted", t, Poster[t], NoAgent)
      BY <1>1, <1>3, <1>9, RecordIs DEF WellFormed
    <3> QED  BY <3>2, <3>3
  <2>2. Status(t) = "unposted" /\ Status(t)' = "open"
    BY <1>4, <1>5, <1>9, <2>1 DEF Status
  <2>3. Lifecycle!Post(t)
    BY <1>2, <1>4, <1>6, <1>7, <1>8, <1>9, <2>2 DEF Lifecycle!Post
  <2> QED  BY <1>2, <2>3 DEF Lifecycle!Next
<1>10. CASE x.type = "bid"
  <2>1. Record("posted", t, Poster[t], NoAgent) \in Published
    BY <1>3, <1>10, Labels DEF RestsOn
  <2>2. Seen(t, "posted")  BY <2>1, Labels DEF Seen
  <2>3. Status(t) # "unposted"  BY <2>2 DEF Status
  <2>4. \A u : Status(u)' = Status(u)
    BY <1>4, <1>10 DEF Status
  <2>5. x = Record("bid", t, x.agent, NoAgent)
    BY <1>1, <1>3, <1>10, RecordIs DEF WellFormed
  <2>6. \A u \in Tasks : Bidders(u)' = IF u = t THEN Bidders(u) \cup {x.agent}
                                      ELSE Bidders(u)
    <3> SUFFICES ASSUME NEW u \in Tasks
                 PROVE  Bidders(u)' = IF u = t THEN Bidders(u) \cup {x.agent}
                                      ELSE Bidders(u)
      OBVIOUS
    <3>1. \A w \in Agents :
            Record("bid", u, w, NoAgent) = x <=> u = t /\ w = x.agent
      BY <2>5, Labels
    <3> QED  BY <1>2, <3>1 DEF Bidders
  <2>7. Lifecycle!Bid(t, x.agent)
    BY <1>2, <1>7, <1>8, <1>10, <2>3, <2>4, <2>6 DEF Lifecycle!Bid
  <2> QED  BY <1>2, <2>7 DEF Lifecycle!Next
<1>11. CASE x.type = "assigned"
  <2>1. Assignments(t) = {}
    <3> SUFFICES ASSUME NEW s \in Assignments(t) PROVE FALSE
      OBVIOUS
    <3>1. s \in Published  BY DEF Assignments
    <3>2. s \in Assignments(t)' /\ x \in Assignments(t)'
      BY <1>4, <1>11
    <3>3. s = x  BY <1>2, <3>2 DEF IInv, Ledger
    <3> QED  BY <3>1, <3>3
  <2>2. ~Seen(t, "assigned")  BY <2>1 DEF Seen, Assignments
  <2>3. /\ Record("posted", t, Poster[t], NoAgent) \in Published
        /\ Record("bid", t, x.peer, NoAgent) \in Published
        /\ x.peer \in Agents
    BY <1>3, <1>11, Labels DEF RestsOn, WellFormed
  <2>4. Seen(t, "posted")  BY <2>3, Labels DEF Seen
  <2>5. Status(t) = "open" /\ Status(t)' = "assigned"
    BY <1>4, <1>5, <1>11, <2>2, <2>4 DEF Status
  <2>6. \A u : Worker(u)' = IF u = t THEN {x.peer} ELSE Worker(u)
    BY <1>4, <1>11, <2>1, <2>3 DEF Worker
  <2>7. x.peer \in Bidders(t)  BY <2>3 DEF Bidders
  <2>8. Lifecycle!Assign(t, x.peer)
    BY <1>2, <1>4, <1>6, <1>8, <1>11, <2>5, <2>6, <2>7 DEF Lifecycle!Assign
  <2> QED  BY <1>2, <2>3, <2>8 DEF Lifecycle!Next
<1>12. CASE x.type = "completed"
  <2>1. Record("assigned", t, Poster[t], x.agent) \in Published
    BY <1>3, <1>12, Labels DEF RestsOn
  <2>2. Seen(t, "assigned")  BY <2>1, Labels DEF Seen
  <2>3. ~Seen(t, "completed")
    <3> SUFFICES ASSUME NEW c \in Published, c.type = "completed", c.task = t
                 PROVE  FALSE
      BY DEF Seen
    <3>1. c \in ActivityRecord /\ WellFormed(c) /\ RestsOn(c)
      BY PublishedType DEF IInv, Ledger
    <3>2. Record("assigned", t, Poster[t], c.agent) \in Published
      BY <3>1 DEF RestsOn
    <3>3. Record("assigned", t, Poster[t], c.agent)
            = Record("assigned", t, Poster[t], x.agent)
      BY <1>2, <2>1, <3>2, Labels DEF IInv, Ledger, Assignments
    <3>4. c.agent = x.agent  BY <3>3, Labels
    <3>5. c = Record("completed", t, c.agent, NoAgent)
      BY <3>1, RecordIs DEF WellFormed
    <3>6. x = Record("completed", t, x.agent, NoAgent)
      BY <1>1, <1>3, <1>12, RecordIs DEF WellFormed
    <3> QED  BY <3>4, <3>5, <3>6
  <2>4. Status(t) = "assigned" /\ Status(t)' = "completed"
    BY <1>4, <1>5, <1>12, <2>2, <2>3 DEF Status
  <2>5. Lifecycle!Complete(t)
    BY <1>2, <1>4, <1>6, <1>7, <1>8, <1>12, <2>4 DEF Lifecycle!Complete
  <2> QED  BY <1>2, <2>5 DEF Lifecycle!Next
<1>13. CASE x.type = "verified"
  <2>1. Seen(t, "completed")
    BY <1>3, <1>13 DEF RestsOn, Seen
  <2>2. Status(t) \in {"completed", "verified", "settled"}
    BY <2>1 DEF Status
  <2>3. Status(t)' = IF Status(t) = "settled" THEN Status(t) ELSE "verified"
    BY <1>4, <1>13 DEF Status
  <2>4. Approved' = IF x.passed THEN Approved \cup {t} ELSE Approved
    BY <1>2, <1>4, <1>13 DEF Approved
  <2>5. Lifecycle!Verify(t, x.passed)
    BY <1>2, <1>4, <1>6, <1>7, <1>13, <2>2, <2>3, <2>4 DEF Lifecycle!Verify
  <2> QED  BY <1>2, <2>5 DEF Lifecycle!Next
<1>14. CASE x.type = "settled"
  <2>1. Verdicts(t)' = Verdicts(t)  BY <1>4, <1>14
  <2>2. t \in Approved
    BY <1>2, <1>3, <1>14, <2>1 DEF RestsOn, Approved
  <2>3. Seen(t, "verified")
    BY <2>2 DEF Approved, Verdicts, Seen
  <2>4. CASE Seen(t, "settled")
    <3>1. \A u : Status(u)' = Status(u)  BY <1>4, <1>14, <2>4 DEF Status
    <3> QED  BY <1>6, <1>7, <1>8, <1>14, <3>1 DEF Lifecycle!lifecycle
  <2>5. CASE ~Seen(t, "settled")
    <3>1. Status(t) = "verified" /\ Status(t)' = "settled"
      BY <1>4, <1>14, <2>3, <2>5 DEF Status
    <3>2. Lifecycle!Settle(t)
      BY <1>2, <1>4, <1>6, <1>7, <1>8, <1>14, <2>2, <3>1 DEF Lifecycle!Settle
    <3> QED  BY <1>2, <3>2 DEF Lifecycle!Next
  <2> QED  BY <2>4, <2>5
<1>15. CASE x.type = "attestation"
  <2>1. \A u : Status(u)' = Status(u)  BY <1>4, <1>15 DEF Status
  <2> QED  BY <1>6, <1>7, <1>8, <1>15, <2>1 DEF Lifecycle!lifecycle
<1> QED
  BY <1>2, <1>9, <1>10, <1>11, <1>12, <1>13, <1>14, <1>15 DEF RecordTypes

\* Nothing published, nothing changed.
LEMMA QuietStep ==
  ASSUME Published' = Published
  PROVE  UNCHANGED Lifecycle!lifecycle
<1>1. \A u : /\ Status(u)' = Status(u) /\ Bidders(u)' = Bidders(u)
             /\ Worker(u)' = Worker(u)
  BY DEF Status, Seen, Bidders, Worker, Assignments
<1>2. Approved' = Approved  BY DEF Approved, Verdicts
<1> QED  BY <1>1, <1>2 DEF Lifecycle!lifecycle

\* The protocol implements the life of a task it promises, for any agents,
\* tasks and verifiers, through stops, restarts, cuts and losses (the whole of
\* handleIncomingRecord and the handlers it calls).
THEOREM Implements == Spec => ImplementsLifecycle
<1>1. Init => Lifecycle!Init
  <2> SUFFICES ASSUME Init PROVE Lifecycle!Init
    OBVIOUS
  <2>1. Published = {}  BY DEF Init, Published
  <2>2. \A t : /\ Status(t) = "unposted" /\ Bidders(t) = {} /\ Worker(t) = {}
    BY <2>1 DEF Status, Seen, Bidders, Worker, Assignments
  <2>3. Approved = {}  BY <2>1 DEF Approved, Verdicts
  <2> QED  BY <2>2, <2>3 DEF Lifecycle!Init
<1>2. IInv /\ IInv' /\ [Next]_vars => [Lifecycle!Next]_Lifecycle!lifecycle
  <2> SUFFICES ASSUME IInv, IInv', [Next]_vars
               PROVE  Lifecycle!Next \/ UNCHANGED Lifecycle!lifecycle
    OBVIOUS
  <2>1. CASE Published' = Published  BY <2>1, QuietStep
  <2>2. CASE Published' # Published
    <3>1. PICK x : Published' = Published \cup {x}  BY <2>2, OneRecord
    <3>2. x \notin Published  BY <2>2, <3>1
    <3> QED  BY <3>1, <3>2, RecordStep
  <2> QED  BY <2>1, <2>2
<1> QED
  BY <1>1, <1>2, InvariantHolds, PTL
  DEF Spec, ImplementsLifecycle, Lifecycle!Spec
=============================================================================
