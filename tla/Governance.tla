----------------------------- MODULE Governance -----------------------------
(***************************************************************************)
(* Governance by keyholders: the registry, the processor of actions and    *)
(* their propagation (src/src/governance/), as one daemon runs them.       *)
(*                                                                         *)
(* A decree is a governance record, named by its id.  Decree has what its  *)
(* fields order and, apart from them, what its authorization holds: the    *)
(* action string (says, with the second it was built in) and the keys with *)
(* a signature of that string.  Nothing compares the string with the       *)
(* fields.  For a decree that this daemon's user authors, says and signers *)
(* are the signatures collected beforehand; the authorization of the       *)
(* record has a string of its own, built anew.  Invalid signatures in a    *)
(* received record count for nothing and are left out.                     *)
(* A call is one receiveGovernanceRecord or createAndBroadcast             *)
(* under way, parked at one of its waits: the signatures, of the record    *)
(* and then of the keyholders one after the other (each checked against    *)
(* the registry as it is at that moment), the making of the record and the *)
(* broadcast.  The keyholders' signatures are verified a second time by    *)
(* processAction, after the record was marked as processed.                *)
(***************************************************************************)
EXTENDS Clock, Sequences, FiniteSets, SequencesExt

CONSTANTS
  KeyholderKeys,     \* the public keys that may become keyholders
  Genesis,           \* the keyholders of the genesis configuration
  Threshold,
  Decree,            \* [id -> [type, target, duration, says, signers]]
  LocalDecrees,      \* the ids that this daemon's own user authors
  Author,            \* the key of that user
  Subjects,          \* the agents that decrees are about
  GovernanceCalls,   \* the calls that may be under way at once
  GovernanceMaxTime, \* bound: the clock
  MaxActionLog       \* bound: applied decrees

Decrees == DOMAIN Decree

DecreeType == {"governance.warn", "governance.suspend", "governance.kill"}

\* What is signed: the act and the second in which its string was built.
ActionText == [type : DecreeType, target : Subjects, duration : Nat, ts : Nat]

ASSUME GovernanceAssumption ==
  /\ Genesis \subseteq KeyholderKeys /\ IsFiniteSet(KeyholderKeys)
  /\ Threshold \in 1..Cardinality(Genesis)
  /\ Decree \in [Decrees -> [type : DecreeType, target : Subjects, duration : Nat,
                             says : ActionText, signers : SUBSET KeyholderKeys]]
  /\ LocalDecrees \subseteq Decrees
  /\ Author \in KeyholderKeys
  /\ GovernanceMaxTime \in Nat /\ MaxActionLog \in Nat

VARIABLES
  keyholders,    \* the keys of the registry
  activeHolders, \* those that are active
  processedIds,
  actionLog,     \* the decrees that passed both verifications
  kills,
  suspensions,   \* [agent] -> its suspension record, or NoSuspension
  builtAt,       \* [decree] -> the time stamp in the action string of a local decree
  issuedAt,      \* [decree] -> the time stamp of its record
  circulating,   \* the decrees that may arrive from the network
  call,          \* [call] -> the call under way, or NoCall
  overlapped     \* decrees that two calls handled at the same time

governanceVars == <<keyholders, activeHolders, processedIds, actionLog, kills,
                    suspensions, builtAt, issuedAt, circulating, call, overlapped>>

NoSuspension == [decree |-> "none"]

NoCall == [at |-> "none"]

GovernanceInit ==
  /\ ClockInit
  /\ keyholders = Genesis
  /\ activeHolders = Genesis
  /\ processedIds = {}
  /\ actionLog = <<>>
  /\ kills = {}
  /\ suspensions = [a \in Subjects |-> NoSuspension]
  /\ builtAt = [d \in Decrees |-> 0]
  /\ issuedAt = [d \in Decrees |-> now]
  /\ circulating = Decrees \ LocalDecrees
  /\ call = [c \in GovernanceCalls |-> NoCall]
  /\ overlapped = {}

-----------------------------------------------------------------------------
(* The registry.                                                           *)

isKeyholder(k) == k \in activeHolders

deactivateKeyholder(k) ==
  /\ k \in activeHolders
  /\ activeHolders' = activeHolders \ {k}
  /\ UNCHANGED keyholders

\* A key that was deactivated is still known, and is not added again.
addKeyholder(k) ==
  /\ k \notin keyholders
  /\ keyholders' = keyholders \cup {k}
  /\ activeHolders' = activeHolders \cup {k}

RegistryChanges ==
  /\ \E k \in KeyholderKeys : deactivateKeyholder(k) \/ addKeyholder(k)
  /\ UNCHANGED <<processedIds, actionLog, kills, suspensions, builtAt, issuedAt,
                 circulating, call, overlapped>>

-----------------------------------------------------------------------------
(* The processor.                                                          *)

\* What the suspension record says at time t; the clock alone ends it.
SuspendedAt(record, t) ==
  /\ record # NoSuspension
  /\ record.liftedAt = 0
  /\ record.expiresAt > 0 => t < record.expiresAt

isSuspended(a) == SuspendedAt(suspensions[a], now)

isBlocked(a) == isSuspended(a) \/ a \in kills

\* The first reader after the expiry notes it in the record.
NoteExpiry(a) ==
  /\ suspensions[a] # NoSuspension
  /\ suspensions[a].liftedAt = 0
  /\ ~isSuspended(a)
  /\ suspensions' = [suspensions EXCEPT ![a].liftedAt = suspensions[a].expiresAt]

\* Whether the suspension has expired is not looked at.
liftSuspension(a) ==
  /\ suspensions[a] # NoSuspension
  /\ suspensions[a].liftedAt = 0
  /\ suspensions' = [suspensions EXCEPT ![a].liftedAt = now]

ReadOrLift ==
  /\ \E a \in Subjects : NoteExpiry(a) \/ liftSuspension(a)
  /\ UNCHANGED <<keyholders, activeHolders, processedIds, actionLog, kills,
                 builtAt, issuedAt, circulating, call, overlapped>>

Suspension(d) ==
  [ decree |-> d,
    expiresAt |-> IF Decree[d].duration > 0 THEN issuedAt[d] + Decree[d].duration ELSE 0,
    liftedAt |-> 0 ]

\* Mutant of ApplyDecree: a suspension does not ask whether its agent was killed.
ApplyDecreeRevives(d) ==
  LET a == Decree[d].target IN
  /\ actionLog' = Append(actionLog, d)
  /\ kills' = IF Decree[d].type = "governance.kill" THEN kills \cup {a} ELSE kills
  /\ suspensions' = [suspensions EXCEPT ![a] =
       CASE Decree[d].type = "governance.kill" -> NoSuspension
         [] Decree[d].type = "governance.suspend" -> Suspension(d)
         [] OTHER -> @]

\* Step 2 of processAction, with applyWarn, applySuspend and applyKill.  The log
\* has the decree also when a suspension comes too late.
ApplyDecree(d) ==
  LET a == Decree[d].target IN
  /\ actionLog' = Append(actionLog, d)
  /\ kills' = IF Decree[d].type = "governance.kill" THEN kills \cup {a} ELSE kills
  /\ suspensions' = [suspensions EXCEPT ![a] =
       CASE Decree[d].type = "governance.kill" -> NoSuspension
         [] Decree[d].type = "governance.suspend" /\ a \notin kills -> Suspension(d)
         [] OTHER -> @]

-----------------------------------------------------------------------------
(* The calls.                                                              *)

\* The action string in the authorization.
ActionString(d) ==
  IF d \in LocalDecrees
  THEN [type |-> Decree[d].type, target |-> Decree[d].target,
        duration |-> Decree[d].duration, ts |-> builtAt[d]]
  ELSE Decree[d].says

\* The keys in the authorization, and those whose signature is one of its string:
\* a signature collected for a string of another second is not.
Signatories(d) == Decree[d].signers \cup (IF d \in LocalDecrees THEN {Author} ELSE {})

Standing(d) ==
  IF ActionString(d) = Decree[d].says THEN Signatories(d) ELSE {Author}

Verification(d, at) == [at |-> at, decree |-> d, todo |-> Signatories(d), valid |-> {}]

Busy(c) == call[c] # NoCall

Duplicate(d) == d \in processedIds

\* receiveGovernanceRecord up to its first wait, the signature of the record; that
\* and the first keyholder's signature are one wait, as nothing is read between.
receiveGovernanceRecord(c, d) ==
  /\ ~Busy(c)
  /\ d \in circulating
  /\ ~Duplicate(d)
  /\ call' = [call EXCEPT ![c] = Verification(d, "received")]
  /\ overlapped' = IF \E o \in GovernanceCalls : Busy(o) /\ call[o].decree = d
                   THEN overlapped \cup {d} ELSE overlapped
  /\ UNCHANGED <<keyholders, activeHolders, processedIds, actionLog, kills,
                 suspensions, builtAt, issuedAt, circulating>>

\* createAndBroadcast up to its first wait, this daemon's own signature, which is
\* one with the verification for the same reason.  The action string has the second
\* of this call, whenever the other signatures were collected.
createAndBroadcast(c, d) ==
  /\ ~Busy(c)
  /\ d \in LocalDecrees \ (circulating \cup processedIds)
  /\ \A o \in GovernanceCalls : Busy(o) => call[o].decree # d
  /\ builtAt' = [builtAt EXCEPT ![d] = now]
  /\ call' = [call EXCEPT ![c] = Verification(d, "authored")]
  /\ UNCHANGED <<keyholders, activeHolders, processedIds, actionLog, kills,
                 suspensions, issuedAt, circulating, overlapped>>

Verifying(c) == call[c].at \in {"received", "authored", "processing"}

\* One turn of the loop of verifyMultiSig: the signature is checked against the
\* action string alone.
VerifySigner(c, k) ==
  /\ Verifying(c)
  /\ k \in call[c].todo
  /\ call' = [call EXCEPT ![c].todo = @ \ {k},
                          ![c].valid =
                            IF isKeyholder(k) /\ k \in Standing(call[c].decree)
                            THEN @ \cup {k} ELSE @]
  /\ UNCHANGED <<keyholders, activeHolders, processedIds, actionLog, kills,
                 suspensions, builtAt, issuedAt, circulating, overlapped>>

\* Mutant of MeetsThreshold: one signature is taken for granted.
MeetsThresholdAlmost(c) == call[c].todo = {} /\ Cardinality(call[c].valid) + 1 >= Threshold

MeetsThreshold(c) == call[c].todo = {} /\ Cardinality(call[c].valid) >= Threshold

FallsShort(c) ==
  /\ Verifying(c)
  /\ call[c].todo = {} /\ ~MeetsThreshold(c)
  /\ call' = [call EXCEPT ![c] = NoCall]
  /\ UNCHANGED <<keyholders, activeHolders, processedIds, actionLog, kills,
                 suspensions, builtAt, issuedAt, circulating, overlapped>>

\* Mutant of Process: the mark is forgotten.
ProcessUnmarked(c) ==
  /\ call' = [call EXCEPT ![c] = Verification(@.decree, "processing")]
  /\ UNCHANGED processedIds

\* The record is marked as processed and handed to processAction.
Process(c) ==
  /\ processedIds' = processedIds \cup {call[c].decree}
  /\ call' = [call EXCEPT ![c] = Verification(@.decree, "processing")]

AcceptReceived(c) ==
  /\ call[c].at = "received" /\ MeetsThreshold(c)
  /\ Process(c)
  /\ UNCHANGED <<keyholders, activeHolders, actionLog, kills, suspensions,
                 builtAt, issuedAt, circulating, overlapped>>

\* The author's record gets its time stamp; its signature is a wait.
CreateDecree(c) ==
  /\ call[c].at = "authored" /\ MeetsThreshold(c)
  /\ issuedAt' = [issuedAt EXCEPT ![call[c].decree] = now]
  /\ call' = [call EXCEPT ![c] = [at |-> "creating", decree |-> @.decree]]
  /\ UNCHANGED <<keyholders, activeHolders, processedIds, actionLog, kills,
                 suspensions, builtAt, circulating, overlapped>>

\* Peers that hear the broadcast may send the record back at once.
BroadcastDecree(c) ==
  /\ call[c].at = "creating"
  /\ circulating' = circulating \cup {call[c].decree}
  /\ call' = [call EXCEPT ![c].at = "broadcasting"]
  /\ UNCHANGED <<keyholders, activeHolders, processedIds, actionLog, kills,
                 suspensions, builtAt, issuedAt, overlapped>>

\* The broadcast has ended, in success or failure; without a broadcaster there
\* is none.
ApplyOwn(c) ==
  /\ call[c].at \in {"creating", "broadcasting"}
  /\ Process(c)
  /\ UNCHANGED <<keyholders, activeHolders, actionLog, kills, suspensions,
                 builtAt, issuedAt, circulating, overlapped>>

processAction(c) ==
  /\ call[c].at = "processing" /\ MeetsThreshold(c)
  /\ Len(actionLog) < MaxActionLog
  /\ ApplyDecree(call[c].decree)
  /\ call' = [call EXCEPT ![c] = NoCall]
  /\ UNCHANGED <<keyholders, activeHolders, processedIds, builtAt, issuedAt,
                 circulating, overlapped>>

GovernanceSteps ==
  \/ RegistryChanges
  \/ ReadOrLift
  \/ \E c \in GovernanceCalls :
       \/ \E d \in Decrees : receiveGovernanceRecord(c, d) \/ createAndBroadcast(c, d)
       \/ \E k \in KeyholderKeys : VerifySigner(c, k)
       \/ FallsShort(c) \/ AcceptReceived(c) \/ CreateDecree(c)
       \/ BroadcastDecree(c) \/ ApplyOwn(c) \/ processAction(c)

GovernanceNext ==
  \/ GovernanceSteps /\ UNCHANGED now
  \/ TickUpTo(GovernanceMaxTime) /\ UNCHANGED governanceVars

GovernanceSpec == GovernanceInit /\ [][GovernanceNext]_<<governanceVars, now>>

-----------------------------------------------------------------------------
(* Properties.                                                             *)

SuspensionRecord == [decree : Decrees, expiresAt : Nat, liftedAt : Nat]

CallRecord ==
  [at : {"creating", "broadcasting"}, decree : Decrees]
    \cup [at : {"received", "authored", "processing"}, decree : Decrees,
          todo : SUBSET KeyholderKeys, valid : SUBSET KeyholderKeys]

GovernanceTypeOK ==
  /\ now \in Nat
  /\ activeHolders \subseteq keyholders /\ keyholders \subseteq KeyholderKeys
  /\ processedIds \subseteq Decrees /\ circulating \subseteq Decrees
  /\ actionLog \in Seq(Decrees)
  /\ kills \subseteq Subjects
  /\ suspensions \in [Subjects -> SuspensionRecord \cup {NoSuspension}]
  /\ builtAt \in [Decrees -> Nat] /\ issuedAt \in [Decrees -> Nat]
  /\ call \in [GovernanceCalls -> CallRecord \cup {NoCall}]
  /\ overlapped \subseteq Decrees

\* A decree is applied at most once, unless two calls for it overlapped: the mark
\* in processedIds is set before the second verification, which may take as long
\* as it likes (receiveGovernanceRecord, createAndBroadcast).
AppliedOnce ==
  \A d \in Decrees \ overlapped :
    Cardinality({ i \in DOMAIN actionLog : actionLog[i] = d }) <= 1

Quorum(d) == Cardinality(Standing(d) \cap keyholders) >= Threshold

\* Whoever is killed or suspended is so by a logged decree whose fields order that
\* and whose action string at least Threshold different keyholders signed, whatever
\* the registry went through while the signatures were checked (verifyMultiSig,
\* processAction).  What the string says is another matter (SignedAsOrdered).
EffectsHaveQuorum ==
  /\ \A a \in kills : \E i \in DOMAIN actionLog :
       LET d == actionLog[i] IN
       Decree[d].type = "governance.kill" /\ Decree[d].target = a /\ Quorum(d)
  /\ \A a \in Subjects : suspensions[a] # NoSuspension =>
       LET d == suspensions[a].decree IN
       Contains(actionLog, d) /\ Decree[d].target = a /\ Quorum(d)

\* The act in the string that was signed is the act that is logged and applied
\* (verifyMultiSig: "The action string is the deterministic JSON of the governance
\* payload").  The code takes type, target and duration from the record and never
\* looks into the string (parseGovernanceRecord): this does not hold.
SignedAsOrdered ==
  \A i \in DOMAIN actionLog :
    LET d == actionLog[i] IN
    /\ ActionString(d).type = Decree[d].type
    /\ ActionString(d).target = Decree[d].target
    /\ ActionString(d).duration = Decree[d].duration

\* Signatures that were collected for an act count when the act is issued, as long as
\* their keys stay active keyholders (createAndBroadcast, "Pre-collected signatures
\* from other keyholders").  They do not when the second is another.
CollectedSignaturesCount ==
  \A c \in GovernanceCalls :
    LET d == call[c].decree IN
    /\ call[c].at = "authored" /\ call[c].todo = {}
    /\ Signatories(d) \subseteq Genesis \cap activeHolders
    /\ Cardinality(Signatories(d)) >= Threshold
    /\ [Decree[d].says EXCEPT !.ts = builtAt[d]] = ActionString(d)
    => MeetsThreshold(c)

\* The keyholders that SPEC.md asks for at each level of response.
KeyholdersFor ==
  [t \in DecreeType |-> CASE t = "governance.warn" -> 1
                           [] t = "governance.suspend" -> 2
                           [] OTHER -> 3]

\* A decree passes the verification when the keyholders of its level signed it
\* (SPEC.md, Network Governance).  The registry has one threshold for all levels.
LevelDecides ==
  \A c \in GovernanceCalls :
    Verifying(c) /\ call[c].todo = {} =>
      (MeetsThreshold(c) <=>
         Cardinality(call[c].valid) >= KeyholdersFor[Decree[call[c].decree].type])

\* A decree is applied once, also when two calls for it overlap (the answer of a
\* repeated record is "Duplicate governance record").  It is not: AppliedOnce.
NeverAppliedAgain ==
  \A d \in Decrees : Cardinality({ i \in DOMAIN actionLog : actionLog[i] = d }) <= 1

\* A killed agent stays killed and is not suspended again, though the verification
\* of a suspension was under way when it was killed; and an agent that is free
\* becomes blocked only by a step that logs a decree, never by the clock or a
\* reader (isSuspended, liftSuspension, applySuspend, applyKill).
BlockedByDecreeOnly ==
  [][/\ \A a \in kills : a \in kills' /\ suspensions'[a] = NoSuspension
     /\ \A a \in Subjects : ~isBlocked(a) /\ isBlocked(a)' =>
          /\ Len(actionLog') = Len(actionLog) + 1
          /\ Decree[Last(actionLog')].target = a]_<<governanceVars, now>>
=============================================================================
