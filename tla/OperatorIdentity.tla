-------------------------- MODULE OperatorIdentity --------------------------
(***************************************************************************)
(* Verification of the operator's identity                                 *)
(* (src/src/identity/verification.ts): a challenge is created, the         *)
(* operator publishes its code, and completeVerification looks for it and  *)
(* seals the identity.                                                     *)
(*                                                                         *)
(* Pending challenges are kept by method and identifier, here a key; the   *)
(* code of a challenge is its number.  A completion reads the challenge,   *)
(* waits for the answer of GitHub or of the name server, then for the      *)
(* seal to be written, and deletes what is pending under the key by then.  *)
(***************************************************************************)
EXTENDS Clock, FiniteSets

CONSTANTS
  EmailKeys,         \* the keys of the method email, answered without a wait
  PublishedKeys,     \* the keys of the methods github and domain
  ChallengeTtl,      \* CHALLENGE_TTL_SECONDS
  IdentityMaxTime,   \* bound: the clock
  MaxChallenges,     \* bound: challenges created
  MaxCompletions     \* bound: completions

ASSUME IdentityAssumption ==
  /\ EmailKeys \cap PublishedKeys = {}
  /\ ChallengeTtl \in Nat /\ IdentityMaxTime \in Nat
  /\ MaxChallenges \in Nat /\ MaxCompletions \in Nat

IdentityKeys == EmailKeys \cup PublishedKeys

VARIABLES
  pendingChallenges, \* [key] -> the number of its challenge, 0 for none
  expiry,            \* [challenge] -> the last second of its life
  challengeCount,    \* challenges created
  completions,       \* completions under way: [key, code, at, n]
  completionCount,
  sealed,            \* the code whose completion wrote the seal file last, 0 for none
  sealings,          \* [challenge] -> how often it has sealed an identity
  askedTwice         \* challenges that two completions had in hand at once

identityVars == <<pendingChallenges, expiry, challengeCount, completions,
                  completionCount, sealed, sealings, askedTwice>>

IdentityInit ==
  /\ ClockInit
  /\ pendingChallenges = [k \in IdentityKeys |-> 0]
  /\ expiry = [c \in 1..MaxChallenges |-> 0]
  /\ challengeCount = 0 /\ completionCount = 0
  /\ completions = {}
  /\ sealed = 0
  /\ sealings = [c \in 1..MaxChallenges |-> 0]
  /\ askedTwice = {}

\* A newer challenge takes the place of an older one.
createChallenge(k) ==
  /\ challengeCount < MaxChallenges
  /\ challengeCount' = challengeCount + 1
  /\ pendingChallenges' = [pendingChallenges EXCEPT ![k] = challengeCount + 1]
  /\ expiry' = [expiry EXCEPT ![challengeCount + 1] = now + ChallengeTtl]
  /\ UNCHANGED <<completions, completionCount, sealed, sealings, askedTwice>>

Lapsed(k) == now > expiry[pendingChallenges[k]]

\* completeVerification of an expired challenge; verifyEmailCode does the same.
DropLapsed(k) ==
  /\ pendingChallenges[k] # 0 /\ Lapsed(k)
  /\ pendingChallenges' = [pendingChallenges EXCEPT ![k] = 0]
  /\ UNCHANGED <<expiry, challengeCount, completions, completionCount, sealed, sealings,
                 askedTwice>>

Complete(k, at) ==
  LET code == pendingChallenges[k] IN
  /\ completionCount < MaxCompletions
  /\ code # 0 /\ ~Lapsed(k)
  /\ completionCount' = completionCount + 1
  /\ completions' = completions \cup {[key |-> k, code |-> code, at |-> at,
                                       n |-> completionCount]}
  /\ askedTwice' = IF \E m \in completions : m.code = code
                   THEN askedTwice \cup {code} ELSE askedTwice

\* A completion for GitHub or a domain, up to the answer.
AskPublished(k) ==
  /\ k \in PublishedKeys
  /\ Complete(k, "asking")
  /\ UNCHANGED <<pendingChallenges, expiry, challengeCount, sealed, sealings>>

\* Mutant of TakeCode: a code that was right may be used again.
TakeCodeAgain(k) == UNCHANGED pendingChallenges

\* verifyEmailCode deletes the challenge whose code was right.
TakeCode(k) == pendingChallenges' = [pendingChallenges EXCEPT ![k] = 0]

\* A completion with the right e-mail code goes on to the seal without a wait.
SubmitEmailCode(k) ==
  /\ k \in EmailKeys
  /\ TakeCode(k)
  /\ Complete(k, "sealing")
  /\ UNCHANGED <<expiry, challengeCount, sealed, sealings>>

\* External: the code is found, or it is not and the completion ends.
Answered(m, found) ==
  /\ m \in completions /\ m.at = "asking"
  /\ completions' = (completions \ {m}) \cup
                      (IF found THEN {[m EXCEPT !.at = "sealing"]} ELSE {})
  /\ UNCHANGED <<pendingChallenges, expiry, challengeCount, completionCount, sealed,
                 sealings, askedTwice>>

\* The seal is written over any earlier one; then what is pending under the key is
\* deleted, also a challenge that was created in the meantime.
SealWritten(m) ==
  /\ m \in completions /\ m.at = "sealing"
  /\ completions' = completions \ {m}
  /\ sealed' = m.code
  /\ sealings' = [sealings EXCEPT ![m.code] = @ + 1]
  /\ pendingChallenges' = [pendingChallenges EXCEPT ![m.key] = 0]
  /\ UNCHANGED <<expiry, challengeCount, completionCount, askedTwice>>

\* The process ends and starts again: the seal is on disk, the rest is not.
RestartIdentity ==
  /\ pendingChallenges' = [k \in IdentityKeys |-> 0]
  /\ completions' = {}
  /\ UNCHANGED <<expiry, challengeCount, completionCount, sealed, sealings, askedTwice>>

IdentitySteps ==
  \/ \E k \in IdentityKeys :
       createChallenge(k) \/ DropLapsed(k) \/ AskPublished(k) \/ SubmitEmailCode(k)
  \/ \E m \in completions :
       SealWritten(m) \/ \E found \in BOOLEAN : Answered(m, found)
  \/ RestartIdentity

IdentityNext ==
  \/ IdentitySteps /\ UNCHANGED now
  \/ TickUpTo(IdentityMaxTime) /\ UNCHANGED identityVars

IdentitySpec == IdentityInit /\ [][IdentityNext]_<<identityVars, now>>

-----------------------------------------------------------------------------
(* Properties.                                                             *)

IdentityTypeOK ==
  /\ pendingChallenges \in [IdentityKeys -> 0..challengeCount]
  /\ expiry \in [1..MaxChallenges -> Nat]
  /\ challengeCount \in 0..MaxChallenges /\ completionCount \in 0..MaxCompletions
  /\ completions \subseteq [key : IdentityKeys, code : 1..MaxChallenges,
                            at : {"asking", "sealing"}, n : 0..MaxCompletions]
  /\ sealed \in 0..challengeCount
  /\ sealings \in [1..MaxChallenges -> 0..MaxCompletions]
  /\ askedTwice \subseteq 1..MaxChallenges

\* A challenge seals an identity at most once, over retries and restarts, unless
\* two completions were waiting for its answer at the same time; that cannot
\* happen with the code of an e-mail, which is spent before the first wait
\* (completeVerification, verifyEmailCode).
SealedOnce ==
  /\ \A c \in 1..challengeCount : sealings[c] > 1 => c \in askedTwice
  /\ \A m \in completions : m.code \in askedTwice => m.key \in PublishedKeys
=============================================================================
