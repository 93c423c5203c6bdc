---------------------------- MODULE Attestation ----------------------------
(***************************************************************************)
(* The attestation manager of one agent (src/src/reputation/attestation.ts)*)
(* over its store.  create looks for an earlier attestation of the same    *)
(* agent and task among the latest ones in the store, signs a new one,     *)
(* which is a wait, and stores it.  The attestations of other agents that  *)
(* arrive take up places among the latest.                                 *)
(***************************************************************************)
EXTENDS Clock, Sequences, FiniteSets, FiniteSetsExt

CONSTANTS
  AttestedPairs,      \* pairs of a target agent and a task, none of them this agent
  LatestLimit,        \* the limit of the query, 100
  AttestationMaxTime, \* bound: the clock
  MaxAttestations,    \* bound: records of others in the store
  MaxCreates          \* bound: calls of create

ASSUME AttestationAssumption ==
  /\ LatestLimit \in Nat \ {0} /\ AttestationMaxTime \in Nat 
  /\ MaxAttestations \in Nat /\ MaxCreates \in Nat

VARIABLES
  attested,    \* the store: records [own, pair, ts], in the order they were inserted
  signing,     \* the calls of create that wait for their signature: [pair, ts, n]
  creates,     \* calls of create so far
  excused     \* pairs for which a call came while another was signing, or when
              \* LatestLimit records at least as new had come after the first

attestationVars == <<attested, signing, creates, excused>>

Stranger == "a pair of another agent"

AttestationInit ==
  /\ ClockInit
  /\ attested = <<>> /\ signing = {} /\ creates = 0 /\ excused = {}

\* How many of the other records are as new as the i-th or newer.
NewerThan(i) == Cardinality({ j \in DOMAIN attested \ {i} : attested[j].ts >= attested[i].ts })

OwnOf(pair) == { i \in DOMAIN attested : attested[i].own /\ attested[i].pair = pair }

\* Mutant of LatestRecords: the query returns the oldest records.
LatestRecordsOldest(found) ==
  /\ Cardinality(found) = Min({LatestLimit, Len(attested)})
  /\ \A i \in found, j \in DOMAIN attested \ found : attested[i].ts <= attested[j].ts

\* What queryByType may return: the latest records, up to the limit.
LatestRecords(found) ==
  /\ Cardinality(found) = Min({LatestLimit, Len(attested)})
  /\ \A i \in found, j \in DOMAIN attested \ found : attested[i].ts >= attested[j].ts

\* create up to the signature: no earlier attestation of the pair was found.
createAttestation(pair) ==
  /\ creates < MaxCreates
  /\ \E found \in SUBSET DOMAIN attested : LatestRecords(found) /\ found \cap OwnOf(pair) = {}
  /\ creates' = creates + 1
  /\ signing' = signing \cup {[pair |-> pair, ts |-> now, n |-> creates]}
  /\ excused' = IF \/ \E s \in signing : s.pair = pair
                  \/ \E i \in OwnOf(pair) : NewerThan(i) >= LatestLimit
               THEN excused \cup {pair} ELSE excused
  /\ UNCHANGED attested

\* The attestation is signed and stored; nothing is looked up again.
StoreAttestation(s) ==
  /\ s \in signing
  /\ signing' = signing \ {s}
  /\ attested' = Append(attested, [own |-> TRUE, pair |-> s.pair, ts |-> s.ts])
  /\ UNCHANGED <<creates, excused>>

\* An attestation of another agent arrives and is stored by the daemon.
StoreForeign ==
  /\ Cardinality({ i \in DOMAIN attested : ~attested[i].own }) < MaxAttestations
  /\ attested' = Append(attested, [own |-> FALSE, pair |-> Stranger, ts |-> now])
  /\ UNCHANGED <<signing, creates, excused>>

AttestationSteps ==
  \/ \E pair \in AttestedPairs : createAttestation(pair)
  \/ \E s \in signing : StoreAttestation(s)
  \/ StoreForeign

AttestationNext ==
  \/ AttestationSteps /\ UNCHANGED now
  \/ TickUpTo(AttestationMaxTime) /\ UNCHANGED attestationVars

AttestationSpec == AttestationInit /\ [][AttestationNext]_<<attestationVars, now>>

-----------------------------------------------------------------------------
(* Properties.                                                             *)

AttestationTypeOK ==
  /\ \A i \in DOMAIN attested :
       /\ attested[i].own \in BOOLEAN /\ attested[i].ts \in 1..now
       /\ attested[i].pair \in AttestedPairs \cup {Stranger}
  /\ signing \subseteq [pair : AttestedPairs, ts : 1..now, n : 0..creates]
  /\ creates \in 0..MaxCreates
  /\ excused \subseteq AttestedPairs

\* An agent attests a task of another agent at most once, unless it was asked
\* again while the first attestation was being signed, or when LatestLimit others
\* had come in since (create, queryByType).
AttestedOnce == \A pair \in AttestedPairs \ excused : Cardinality(OwnOf(pair)) <= 1

\* There is one attestation of an agent for a task (create, "Check for duplicate
\* attestation (same agent, same task)").  Two calls may both find none.
NeverAttestedAgain == \A pair \in AttestedPairs : Cardinality(OwnOf(pair)) <= 1
=============================================================================
