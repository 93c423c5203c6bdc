------------------------- MODULE Libraries_proofs --------------------------
(***************************************************************************)
(* What the libraries of a daemon guarantee, for any number of agents,     *)
(* tasks, calls and requests and any limits, and that they keep it side by *)
(* side.                                                                   *)
(***************************************************************************)
EXTENDS MCLibraries, Arrivals_proofs, Governance_proofs

-----------------------------------------------------------------------------
(* The attestations of an agent.                                           *)

Attestations == [own : BOOLEAN, pair : AttestedPairs \cup {Stranger}, ts : Nat]

\* OwnOf in any store.
OwnIn(s, pair) == { i \in 1..Len(s) : s[i].own /\ s[i].pair = pair }

\* The agent has attested the pair, or is about to, at most once.
AttestsOnce(pair) ==
  /\ \A i, j \in OwnIn(attested, pair) : i = j
  /\ \A s, t \in signing : s.pair = pair /\ t.pair = pair => s = t
  /\ OwnIn(attested, pair) # {} => \A s \in signing : s.pair # pair

AttestationIInv ==
  /\ now \in Nat \ {0}
  /\ attested \in Seq(Attestations)
  /\ \A i \in 1..Len(attested) : attested[i].ts \in 1..now
  /\ signing \subseteq [pair : AttestedPairs, ts : 1..now, n : 0..creates]
  /\ creates \in 0..MaxCreates
  /\ excused \subseteq AttestedPairs
  /\ \A pair \in AttestedPairs \ excused : AttestsOnce(pair)

LEMMA AttestationTypes ==
  ASSUME AttestationIInv
  PROVE  /\ now \in Nat /\ now >= 1 /\ creates \in Nat
         /\ attested \in Seq(Attestations) /\ Len(attested) \in Nat
         /\ DOMAIN attested = 1..Len(attested)
         /\ \A i \in 1..Len(attested) : attested[i] \in Attestations /\ attested[i].ts \in 1..now
         /\ \A pair : OwnOf(pair) = OwnIn(attested, pair)
<1>1. attested \in Seq(Attestations)  BY DEF AttestationIInv
<1>2. Len(attested) \in Nat /\ DOMAIN attested = 1..Len(attested)  BY <1>1, LenProperties
<1>3. \A i \in 1..Len(attested) : attested[i] \in Attestations  BY <1>1, ElementOfSeq
<1>4. now \in Nat /\ now >= 1 /\ creates \in Nat  BY AttestationAssumption DEF AttestationIInv
<1> QED  BY <1>1, <1>2, <1>3, <1>4 DEF AttestationIInv, OwnOf, OwnIn

LEMMA MinOfTwo ==
  ASSUME NEW a \in Nat, NEW b \in Nat
  PROVE  Min({a, b}) \in {a, b} /\ Min({a, b}) <= a /\ Min({a, b}) <= b
<1>1. \E x \in {a, b} : \A y \in {a, b} : x <= y  
  <2>1. CASE a <= b  BY <2>1
  <2>2. CASE b <= a  BY <2>2
  <2> QED  BY <2>1, <2>2
<1>2. Min({a, b}) \in {a, b} /\ \A y \in {a, b} : Min({a, b}) <= y  BY <1>1 DEF Min
<1> QED  BY <1>2

\* Whatever the query returns, an attestation that fewer than LatestLimit others are as new
\* as is in it.
LEMMA RecentIsFound ==
  ASSUME AttestationIInv, NEW found \in SUBSET (DOMAIN attested), LatestRecords(found),
         NEW i \in DOMAIN attested, ~(NewerThan(i) >= LatestLimit)
  PROVE  i \in found
<1> SUFFICES ASSUME i \notin found PROVE FALSE
  OBVIOUS
<1> DEFINE newer == { j \in DOMAIN attested \ {i} : attested[j].ts >= attested[i].ts }
           D == 1..Len(attested)
<1>1. DOMAIN attested = D /\ Len(attested) \in Nat  BY AttestationTypes
<1>2. IsFiniteSet(D) /\ Cardinality(D) = Len(attested)
  <2>1. /\ IsFiniteSet(1..Len(attested))
        /\ Cardinality(1..Len(attested)) = IF 1 > Len(attested) THEN 0 ELSE Len(attested) - 1 + 1
    BY <1>1, FS_Interval
  <2>2. (IF 1 > Len(attested) THEN 0 ELSE Len(attested) - 1 + 1) = Len(attested)  BY <1>1
  <2> QED  BY <2>1, <2>2
<1>3. found \subseteq newer  BY DEF LatestRecords
<1>4. newer \subseteq D  BY <1>1
<1> HIDE DEF newer
<1>5. /\ IsFiniteSet(newer) /\ IsFiniteSet(found)
      /\ Cardinality(found) \in Nat /\ Cardinality(newer) \in Nat
      /\ Cardinality(found) <= Cardinality(newer)
  <2>1. IsFiniteSet(newer)  BY <1>2, <1>4, FS_Subset
  <2> QED  BY <1>3, <2>1, FS_Subset, FS_CardinalityType
<1>6. NewerThan(i) = Cardinality(newer)  BY DEF NewerThan, newer
<1>7. LatestLimit \in Nat  BY AttestationAssumption
<1>8. Cardinality(found) = Min({LatestLimit, Len(attested)})  BY DEF LatestRecords
<1>9. Cardinality(found) # LatestLimit  BY <1>5, <1>6, <1>7
<1>10. Cardinality(found) = Cardinality(D)
  <2>1. Min({LatestLimit, Len(attested)}) \in {LatestLimit, Len(attested)}
    BY <1>1, <1>7, MinOfTwo
  <2> QED  BY <1>2, <1>8, <1>9, <2>1
<1>11. found = D  BY <1>1, <1>2, <1>10, FS_Subset
<1> QED  BY <1>1, <1>11

LEMMA AttestationCreate ==
  ASSUME AttestationIInv, now' = now, NEW pair \in AttestedPairs, createAttestation(pair)
  PROVE  AttestationIInv'
<1> DEFINE new == [pair |-> pair, ts |-> now, n |-> creates]
<1>1. /\ creates < MaxCreates /\ creates' = creates + 1 /\ attested' = attested
      /\ signing' = signing \cup {new}
      /\ excused' = IF \/ \E s \in signing : s.pair = pair
                       \/ \E i \in OwnOf(pair) : NewerThan(i) >= LatestLimit
                    THEN excused \cup {pair} ELSE excused
      /\ \E found \in SUBSET DOMAIN attested : LatestRecords(found) /\ found \cap OwnOf(pair) = {}
  BY DEF createAttestation
<1>2. new.pair = pair /\ new \in [pair : AttestedPairs, ts : 1..now, n : 0..creates']
  <2>1. now \in 1..now /\ creates \in 0..creates'  BY <1>1, AttestationTypes
  <2> QED  BY <2>1
<1> HIDE DEF new
<1>3. signing' \subseteq [pair : AttestedPairs, ts : 1..now, n : 0..creates']
  <2>1. 0..creates \subseteq 0..creates'  BY <1>1, AttestationTypes
  <2> QED  BY <1>1, <1>2, <2>1 DEF AttestationIInv
<1>4. creates' \in 0..MaxCreates
  BY <1>1, AttestationTypes, AttestationAssumption
<1>5. excused' \subseteq AttestedPairs /\ excused \subseteq excused'
  BY <1>1 DEF AttestationIInv
<1>6. ASSUME NEW p \in AttestedPairs \ excused'  PROVE AttestsOnce(p)'
  <2>1. AttestsOnce(p)  BY <1>5 DEF AttestationIInv
  <2>2. CASE p # pair
    <3>1. \A s \in signing' : s.pair = p => s \in signing  BY <1>1, <1>2, <2>2
    <3>2. \A s \in signing' : s.pair # p \/ s \in signing  BY <3>1
    <3> QED  BY <1>1, <2>1, <3>1 DEF AttestsOnce
  <2>3. CASE p = pair
    <3>1. /\ \A s \in signing : s.pair # pair
          /\ \A i \in OwnOf(pair) : ~(NewerThan(i) >= LatestLimit)
      BY <1>1, <2>3
    <3>2. OwnOf(pair) = {}
      <4>1. OwnOf(pair) \subseteq DOMAIN attested  BY DEF OwnOf
      <4>2. PICK found \in SUBSET DOMAIN attested :
              LatestRecords(found) /\ found \cap OwnOf(pair) = {}
        BY <1>1
      <4> QED  BY <3>1, <4>1, <4>2, RecentIsFound
    <3>3. OwnIn(attested, pair) = {}  BY <3>2, AttestationTypes
    <3> QED  BY <1>1, <2>3, <3>1, <3>3 DEF AttestsOnce
  <2> QED  BY <2>2, <2>3
<1> QED  BY <1>1, <1>3, <1>4, <1>5, <1>6 DEF AttestationIInv

\* What is appended to the store.
LEMMA Stored ==
  ASSUME AttestationIInv, NEW a \in Attestations, a.ts \in 1..now, now' = now,
         attested' = Append(attested, a)
  PROVE  /\ attested' \in Seq(Attestations)
         /\ \A i \in 1..Len(attested') : attested'[i].ts \in 1..now'
         /\ \A pair : OwnIn(attested', pair) =
              OwnIn(attested, pair) \cup
              {i \in {Len(attested) + 1} : a.own /\ a.pair = pair}
<1>1. /\ attested' \in Seq(Attestations) /\ Len(attested') = Len(attested) + 1
      /\ attested'[Len(attested) + 1] = a
      /\ \A i \in 1..Len(attested) : attested'[i] = attested[i]
  BY AttestationTypes, AppendProperties
<1>2. \A i : i \in 1..Len(attested') <=> i \in 1..Len(attested) \/ i = Len(attested) + 1
  <2>1. Len(attested) \in Nat  BY AttestationTypes
  <2> QED  BY <1>1, <2>1
<1>3. \A i \in 1..Len(attested') : attested'[i].ts \in 1..now'
  BY <1>1, <1>2, AttestationTypes
<1>4. ASSUME NEW pair
      PROVE  OwnIn(attested', pair) =
               OwnIn(attested, pair) \cup {i \in {Len(attested) + 1} : a.own /\ a.pair = pair}
  <2>1. \A i : i \in OwnIn(attested', pair) <=>
          \/ i \in OwnIn(attested, pair)
          \/ i = Len(attested) + 1 /\ a.own /\ a.pair = pair
    BY <1>1, <1>2 DEF OwnIn
  <2> QED  BY <2>1
<1> QED  BY <1>1, <1>3, <1>4

LEMMA AttestationStore ==
  ASSUME AttestationIInv, now' = now, NEW s \in signing, StoreAttestation(s)
  PROVE  AttestationIInv'
<1> DEFINE a == [own |-> TRUE, pair |-> s.pair, ts |-> s.ts]
<1>1. /\ signing' = signing \ {s} /\ attested' = Append(attested, a)
      /\ UNCHANGED <<creates, excused>>
  BY DEF StoreAttestation
<1>2. s.pair \in AttestedPairs /\ s.ts \in 1..now  BY DEF AttestationIInv
<1>3. a \in Attestations /\ a.ts \in 1..now /\ a.pair = s.pair /\ a.own = TRUE
  BY <1>2, AttestationTypes DEF Attestations
<1> HIDE DEF a
<1>4. /\ attested' \in Seq(Attestations)
      /\ \A i \in 1..Len(attested') : attested'[i].ts \in 1..now'
      /\ \A pair : OwnIn(attested', pair) =
           OwnIn(attested, pair) \cup {i \in {Len(attested) + 1} : a.own /\ a.pair = pair}
  BY <1>1, <1>3, Stored
<1>5. ASSUME NEW p \in AttestedPairs \ excused  PROVE AttestsOnce(p)'
  <2>1. AttestsOnce(p)  BY DEF AttestationIInv
  <2>2. CASE p # s.pair
    <3>1. OwnIn(attested', p) = OwnIn(attested, p)  BY <1>3, <1>4, <2>2
    <3> QED  BY <1>1, <2>1, <3>1 DEF AttestsOnce
  <2>3. CASE p = s.pair
    <3>1. OwnIn(attested, p) = {}  BY <2>1, <2>3 DEF AttestsOnce
    <3>2. OwnIn(attested', p) = {Len(attested) + 1}  BY <1>3, <1>4, <2>3, <3>1
    <3>3. \A t \in signing' : t.pair # p  BY <1>1, <2>1, <2>3 DEF AttestsOnce
    <3> QED  BY <3>2, <3>3 DEF AttestsOnce
  <2> QED  BY <2>2, <2>3
<1> QED  BY <1>1, <1>4, <1>5 DEF AttestationIInv

LEMMA AttestationForeign ==
  ASSUME AttestationIInv, now' = now, StoreForeign
  PROVE  AttestationIInv'
<1> DEFINE a == [own |-> FALSE, pair |-> Stranger, ts |-> now]
<1>1. attested' = Append(attested, a) /\ UNCHANGED <<signing, creates, excused>>
  BY DEF StoreForeign
<1>2. a \in Attestations /\ a.ts \in 1..now /\ a.own = FALSE
  BY AttestationTypes DEF Attestations
<1> HIDE DEF a
<1>3. /\ attested' \in Seq(Attestations)
      /\ \A i \in 1..Len(attested') : attested'[i].ts \in 1..now'
      /\ \A pair : OwnIn(attested', pair) =
           OwnIn(attested, pair) \cup {i \in {Len(attested) + 1} : a.own /\ a.pair = pair}
  BY <1>1, <1>2, Stored
<1>4. \A pair : OwnIn(attested', pair) = OwnIn(attested, pair)  BY <1>2, <1>3
<1>5. \A p \in AttestedPairs \ excused : AttestsOnce(p)'
  BY <1>1, <1>4 DEF AttestationIInv, AttestsOnce
<1> QED  BY <1>1, <1>3, <1>5 DEF AttestationIInv

LEMMA AttestationInitInv ==
  ASSUME AttestationInit
  PROVE  AttestationIInv
<1>1. now = 1 /\ attested = <<>> /\ signing = {} /\ creates = 0 /\ excused = {}
  BY DEF AttestationInit, ClockInit
<1>2. <<>> \in Seq(Attestations) /\ Len(<<>>) = 0  BY EmptySeq
<1>3. 0 \in 0..MaxCreates  BY AttestationAssumption
<1>4. \A pair : OwnIn(attested, pair) = {}  BY <1>1, <1>2 DEF OwnIn
<1> QED  BY <1>1, <1>2, <1>3, <1>4 DEF AttestationIInv, AttestsOnce

LEMMA AttestationRests ==
  ASSUME AttestationIInv, now' \in Nat, now' >= now, UNCHANGED attestationVars
  PROVE  AttestationIInv'
<1>1. now' \in Nat \ {0} /\ 1..now \subseteq 1..now'  BY AttestationTypes
<1>2. UNCHANGED <<attested, signing, creates, excused>>  BY DEF attestationVars
<1> QED  BY <1>1, <1>2 DEF AttestationIInv, AttestsOnce

LEMMA AttestationStepInv ==
  ASSUME AttestationIInv, [AttestationNext]_<<attestationVars, now>>
  PROVE  AttestationIInv'
<1>1. ASSUME AttestationSteps, UNCHANGED now  PROVE AttestationIInv'
  BY <1>1, AttestationCreate, AttestationStore, AttestationForeign DEF AttestationSteps
<1>3. ASSUME TickUpTo(AttestationMaxTime)  PROVE now' \in Nat /\ now' >= now
  BY <1>3, AttestationTypes DEF TickUpTo
<1>4. UNCHANGED now => now' \in Nat /\ now' >= now  BY AttestationTypes
<1> QED  BY <1>1, <1>3, <1>4, AttestationRests DEF AttestationNext

LEMMA AttestationInvImplies ==
  ASSUME AttestationIInv
  PROVE  AttestationTypeOK /\ AttestedOnce
<1>1. AttestationTypeOK
  BY AttestationTypes DEF AttestationIInv, AttestationTypeOK, Attestations
<1>2. ASSUME NEW pair \in AttestedPairs \ excused  PROVE Cardinality(OwnOf(pair)) <= 1
  <2>1. \A i, j \in OwnOf(pair) : i = j
    BY AttestationTypes DEF AttestationIInv, AttestsOnce
  <2>2. CASE OwnOf(pair) = {}
    <3>1. Cardinality(OwnOf(pair)) = 0  BY <2>2, FS_EmptySet
    <3> QED  BY <3>1
  <2>3. CASE OwnOf(pair) # {}
    <3>1. PICK i : OwnOf(pair) = {i}  BY <2>1, <2>3
    <3>2. Cardinality({i}) = 1  BY FS_Singleton
    <3> QED  BY <3>1, <3>2
  <2> QED  BY <2>2, <2>3
<1> QED  BY <1>1, <1>2 DEF AttestedOnce

\* An agent attests a task once, whichever of the latest records the query returns, unless
\* it was asked again while it signed or LatestLimit newer records have come in.
THEOREM AttestsOnlyOnce == AttestationSpec => [](AttestationTypeOK /\ AttestedOnce)
<1>1. AttestationInit => AttestationIInv  BY AttestationInitInv
<1>2. AttestationIInv /\ [AttestationNext]_<<attestationVars, now>> => AttestationIInv'
  BY AttestationStepInv
<1>3. AttestationIInv => AttestationTypeOK /\ AttestedOnce  BY AttestationInvImplies
<1> QED  BY <1>1, <1>2, <1>3, PTL DEF AttestationSpec

-----------------------------------------------------------------------------
(* The verification of the operator.                                       *)

InHand(c) == { m \in completions : m.code = c }

\* A challenge, its completions and what is pending agree on the key.
OneKeyPerCode ==
  /\ \A k, l \in IdentityKeys :
       pendingChallenges[k] = pendingChallenges[l] /\ pendingChallenges[k] # 0 => k = l
  /\ \A m \in completions, k \in IdentityKeys : pendingChallenges[k] = m.code => k = m.key
  /\ \A m, o \in completions : m.code = o.code => m.key = o.key

\* What has sealed was created and is no longer pending; neither is an e-mail code
\* in hand.
SpentCodes ==
  /\ \A c \in 1..MaxChallenges : c > challengeCount => sealings[c] = 0
  /\ \A c \in 1..MaxChallenges, k \in IdentityKeys :
       pendingChallenges[k] = c => sealings[c] = 0
  /\ \A m \in completions, k \in IdentityKeys :
       m.key \in EmailKeys => pendingChallenges[k] # m.code

\* Only the answers that are published can be asked for twice.
TwiceIsPublished ==
  /\ \A m \in completions : m.code \in askedTwice => m.key \in PublishedKeys
  /\ \A k \in IdentityKeys : pendingChallenges[k] \in askedTwice => k \in PublishedKeys

\* Each completion seals at most once.
SealsBacked(c) ==
  /\ sealings[c] + Cardinality(InHand(c)) <= completionCount
  /\ c \notin askedTwice => sealings[c] + Cardinality(InHand(c)) <= 1

Completions == [key : IdentityKeys, code : 1..challengeCount,
                at : {"asking", "sealing"}, n : 0..MaxCompletions]

IdentityShape ==
  /\ now \in Nat
  /\ pendingChallenges \in [IdentityKeys -> 0..challengeCount]
  /\ expiry \in [1..MaxChallenges -> Nat]
  /\ challengeCount \in 0..MaxChallenges /\ completionCount \in 0..MaxCompletions
  /\ completions \subseteq Completions
  /\ IsFiniteSet(completions)
  /\ sealed \in 0..challengeCount
  /\ sealings \in [1..MaxChallenges -> Nat]
  /\ askedTwice \subseteq 1..challengeCount

IdentityIInv ==
  /\ IdentityShape /\ OneKeyPerCode /\ SpentCodes /\ TwiceIsPublished
  /\ \A c \in 1..MaxChallenges : SealsBacked(c)

LEMMA NoMore ==
  ASSUME NEW S, IsFiniteSet(S), NEW T, T \subseteq S
  PROVE  IsFiniteSet(T) /\ Cardinality(T) \in Nat /\ Cardinality(T) <= Cardinality(S)
BY FS_Subset, FS_CardinalityType

LEMMA OneMore ==
  ASSUME NEW S, IsFiniteSet(S), NEW x, NEW T, T \subseteq S \cup {x}
  PROVE  IsFiniteSet(T) /\ Cardinality(T) \in Nat /\ Cardinality(T) <= Cardinality(S) + 1
<1>1. IsFiniteSet(S \cup {x}) /\ Cardinality(S \cup {x}) <= Cardinality(S) + 1
  <2>1. Cardinality(S) \in Nat  BY FS_CardinalityType
  <2>2. /\ IsFiniteSet(S \cup {x})
        /\ Cardinality(S \cup {x}) = IF x \in S THEN Cardinality(S) ELSE Cardinality(S) + 1
    BY FS_AddElement
  <2> QED  BY <2>1, <2>2
<1>2. Cardinality(S) \in Nat /\ Cardinality(S \cup {x}) \in Nat  BY <1>1, FS_CardinalityType
<1>3. /\ IsFiniteSet(T) /\ Cardinality(T) \in Nat
      /\ Cardinality(T) <= Cardinality(S \cup {x})
  BY <1>1, NoMore
<1> QED  BY <1>1, <1>2, <1>3

LEMMA OneLess ==
  ASSUME NEW S, IsFiniteSet(S), NEW x \in S, NEW T, T \subseteq S \ {x}
  PROVE  IsFiniteSet(T) /\ Cardinality(T) \in Nat /\ Cardinality(T) <= Cardinality(S) - 1
<1>1. IsFiniteSet(S \ {x}) /\ Cardinality(S \ {x}) = Cardinality(S) - 1
  <2>1. /\ IsFiniteSet(S \ {x})
        /\ Cardinality(S \ {x}) = IF x \in S THEN Cardinality(S) - 1 ELSE Cardinality(S)
    BY FS_RemoveElement
  <2> QED  BY <2>1
<1>2. Cardinality(S) \in Nat /\ Cardinality(S \ {x}) \in Nat  BY <1>1, FS_CardinalityType
<1>3. IsFiniteSet(T) /\ Cardinality(T) \in Nat /\ Cardinality(T) <= Cardinality(S \ {x})
  BY <1>1, NoMore
<1> QED  BY <1>1, <1>2, <1>3

LEMMA OneChanged ==
  ASSUME NEW S, IsFiniteSet(S), NEW x \in S, NEW y, NEW T, T \subseteq (S \ {x}) \cup {y}
  PROVE  IsFiniteSet(T) /\ Cardinality(T) \in Nat /\ Cardinality(T) <= Cardinality(S)
<1> DEFINE R == S \ {x}
<1>1. IsFiniteSet(R) /\ Cardinality(R) \in Nat /\ Cardinality(R) <= Cardinality(S) - 1
  BY OneLess
<1>2. T \subseteq R \cup {y}  OBVIOUS
<1> HIDE DEF R
<1>3. IsFiniteSet(T) /\ Cardinality(T) \in Nat /\ Cardinality(T) <= Cardinality(R) + 1
  BY <1>1, <1>2, OneMore
<1>4. Cardinality(S) \in Nat  BY FS_CardinalityType
<1> QED  BY <1>1, <1>3, <1>4

LEMMA InHandFinite ==
  ASSUME IdentityIInv, NEW c
  PROVE  IsFiniteSet(InHand(c)) /\ Cardinality(InHand(c)) \in Nat
<1>1. InHand(c) \subseteq completions  BY DEF InHand
<1> QED  BY <1>1, NoMore DEF IdentityIInv, IdentityShape

LEMMA IdentityTypes ==
  ASSUME IdentityIInv
  PROVE  /\ now \in Nat /\ challengeCount \in Nat /\ challengeCount <= MaxChallenges
         /\ completionCount \in Nat /\ completionCount <= MaxCompletions
         /\ MaxChallenges \in Nat /\ MaxCompletions \in Nat /\ ChallengeTtl \in Nat
         /\ \A k \in IdentityKeys :
              pendingChallenges[k] \in Nat /\ pendingChallenges[k] <= challengeCount
         /\ \A c \in 1..MaxChallenges : sealings[c] \in Nat
         /\ \A m \in completions :
              /\ m.key \in IdentityKeys
              /\ m.code \in 1..challengeCount /\ m.code \in 1..MaxChallenges
<1>1. IdentityShape  BY DEF IdentityIInv
<1>2. /\ challengeCount \in Nat /\ challengeCount <= MaxChallenges
      /\ completionCount \in Nat /\ completionCount <= MaxCompletions
      /\ MaxChallenges \in Nat /\ MaxCompletions \in Nat /\ ChallengeTtl \in Nat /\ now \in Nat
  BY <1>1, IdentityAssumption DEF IdentityShape
<1>3. \A m \in completions : m.key \in IdentityKeys /\ m.code \in 1..challengeCount
  BY <1>1 DEF IdentityShape, Completions
<1>4. 1..challengeCount \subseteq 1..MaxChallenges  BY <1>2
<1> QED  BY <1>1, <1>2, <1>3, <1>4 DEF IdentityShape

LEMMA ChallengeStep ==
  ASSUME IdentityIInv, now' = now, NEW k \in IdentityKeys, createChallenge(k)
  PROVE  IdentityIInv'
<1> DEFINE fresh == challengeCount + 1
<1>1. /\ challengeCount < MaxChallenges /\ challengeCount' = fresh
      /\ pendingChallenges' = [pendingChallenges EXCEPT ![k] = fresh]
      /\ expiry' = [expiry EXCEPT ![fresh] = now + ChallengeTtl]
      /\ UNCHANGED <<completions, completionCount, sealed, sealings, askedTwice>>
  BY DEF createChallenge
<1>2. /\ fresh \in 1..MaxChallenges /\ 1..challengeCount \subseteq 1..fresh
      /\ 0..challengeCount \subseteq 0..fresh /\ fresh \notin 0..challengeCount
      /\ fresh \in 0..fresh
  BY <1>1, IdentityTypes
<1> HIDE DEF fresh
<1>3. /\ pendingChallenges'[k] = fresh
      /\ \A l \in IdentityKeys \ {k} : pendingChallenges'[l] = pendingChallenges[l]
  BY <1>1 DEF IdentityIInv, IdentityShape
<1>4. IdentityShape'
  <2>1. pendingChallenges' \in [IdentityKeys -> 0..fresh]
    BY <1>1, <1>2 DEF IdentityIInv, IdentityShape
  <2>2. expiry' \in [1..MaxChallenges -> Nat]
    <3>1. now + ChallengeTtl \in Nat  BY IdentityTypes
    <3> QED  BY <1>1, <1>2, <3>1 DEF IdentityIInv, IdentityShape
  <2>3. completions' \subseteq Completions'
    BY <1>1, <1>2 DEF IdentityIInv, IdentityShape, Completions
  <2>4. challengeCount' \in 0..MaxChallenges  BY <1>1, <1>2, IdentityTypes
  <2> QED  BY <1>1, <1>2, <2>1, <2>2, <2>3, <2>4 DEF IdentityIInv, IdentityShape
<1>5. \A l \in IdentityKeys : pendingChallenges[l] # fresh  
  BY <1>2 DEF IdentityIInv, IdentityShape
<1>6. \A m \in completions : m.code # fresh  
  <2>1. fresh \notin 1..challengeCount  BY <1>2, IdentityTypes
  <2> QED  BY <2>1, IdentityTypes
<1>7. OneKeyPerCode'
  BY <1>1, <1>3, <1>5, <1>6 DEF IdentityIInv, OneKeyPerCode
<1>8. fresh \notin askedTwice /\ sealings[fresh] = 0
  <2>1. fresh \notin 1..challengeCount /\ fresh > challengeCount
    BY <1>2, IdentityTypes DEF fresh
  <2> QED  BY <1>2, <2>1 DEF IdentityIInv, IdentityShape, SpentCodes
<1>9. SpentCodes'
  <2>1. \A c \in 1..MaxChallenges : c > challengeCount' => sealings'[c] = 0
    <3>1. fresh > challengeCount /\ challengeCount \in Nat /\ fresh \in Nat
      BY <1>2, IdentityTypes DEF fresh
    <3>2. \A c \in 1..MaxChallenges : c > fresh => c > challengeCount  BY <3>1
    <3> QED  BY <1>1, <3>2 DEF IdentityIInv, SpentCodes
  <2>2. \A c \in 1..MaxChallenges, l \in IdentityKeys :
          pendingChallenges'[l] = c => sealings'[c] = 0
    BY <1>1, <1>3, <1>8 DEF IdentityIInv, SpentCodes
  <2>3. \A m \in completions', l \in IdentityKeys :
          m.key \in EmailKeys => pendingChallenges'[l] # m.code
    BY <1>1, <1>3, <1>6 DEF IdentityIInv, SpentCodes
  <2> QED  BY <2>1, <2>2, <2>3 DEF SpentCodes
<1>10. TwiceIsPublished'  BY <1>1, <1>3, <1>8 DEF IdentityIInv, TwiceIsPublished
<1>11. \A c \in 1..MaxChallenges : SealsBacked(c)'
  BY <1>1 DEF IdentityIInv, SealsBacked, InHand
<1> QED  BY <1>4, <1>7, <1>9, <1>10, <1>11 DEF IdentityIInv

\* Challenges may go, with the rest as it is.
LEMMA PendingDropped ==
  ASSUME IdentityIInv,
         pendingChallenges' \in [IdentityKeys -> 0..challengeCount],
         \A k \in IdentityKeys : pendingChallenges'[k] \in {0, pendingChallenges[k]},
         UNCHANGED <<now, expiry, challengeCount, completions, completionCount, sealed,
                     sealings, askedTwice>>
  PROVE  IdentityIInv'
<1>1. IdentityShape'  BY DEF IdentityIInv, IdentityShape, Completions
<1>2. \A m \in completions : m.code # 0  BY IdentityTypes
<1>3. OneKeyPerCode'
  BY <1>2 DEF IdentityIInv, OneKeyPerCode
<1>4. SpentCodes'
  BY <1>2 DEF IdentityIInv, SpentCodes
<1>5. 0 \notin askedTwice  BY DEF IdentityIInv, IdentityShape
<1>6. TwiceIsPublished'  BY <1>5 DEF IdentityIInv, TwiceIsPublished
<1>7. \A c \in 1..MaxChallenges : SealsBacked(c)'  BY DEF IdentityIInv, SealsBacked, InHand
<1> QED  BY <1>1, <1>3, <1>4, <1>6, <1>7 DEF IdentityIInv

LEMMA DropStep ==
  ASSUME IdentityIInv, now' = now, NEW k \in IdentityKeys, DropLapsed(k)
  PROVE  IdentityIInv'
<1>1. /\ pendingChallenges' = [pendingChallenges EXCEPT ![k] = 0]
      /\ UNCHANGED <<now, expiry, challengeCount, completions, completionCount, sealed,
                     sealings, askedTwice>>
  BY DEF DropLapsed
<1>2. pendingChallenges \in [IdentityKeys -> 0..challengeCount] /\ 0 \in 0..challengeCount
  BY IdentityTypes DEF IdentityIInv, IdentityShape
<1>3. /\ pendingChallenges' \in [IdentityKeys -> 0..challengeCount]
      /\ \A l \in IdentityKeys : pendingChallenges'[l] \in {0, pendingChallenges[l]}
  BY <1>1, <1>2
<1> QED  BY <1>1, <1>3, PendingDropped

\* What a completion that begins adds.
LEMMA Completed ==
  ASSUME IdentityIInv, NEW k \in IdentityKeys, NEW at \in {"asking", "sealing"},
         Complete(k, at), UNCHANGED <<challengeCount, sealings>>
  PROVE  /\ pendingChallenges[k] \in 1..challengeCount /\ sealings[pendingChallenges[k]] = 0
         /\ completionCount' = completionCount + 1 /\ completionCount' <= MaxCompletions
         /\ completions' = completions \cup {[key |-> k, code |-> pendingChallenges[k],
                                               at |-> at, n |-> completionCount]}
         /\ completions' \subseteq Completions' /\ IsFiniteSet(completions')
         /\ askedTwice' \subseteq 1..challengeCount /\ askedTwice \subseteq askedTwice'
         /\ askedTwice' # askedTwice =>
              /\ askedTwice' = askedTwice \cup {pendingChallenges[k]}
              /\ \E m \in completions : m.code = pendingChallenges[k]
         /\ \A c \in 1..MaxChallenges : SealsBacked(c)'
<1> DEFINE code == pendingChallenges[k]
           new == [key |-> k, code |-> code, at |-> at, n |-> completionCount]
<1>1. /\ completionCount < MaxCompletions /\ code # 0
      /\ completionCount' = completionCount + 1
      /\ completions' = completions \cup {new}
      /\ askedTwice' = IF \E m \in completions : m.code = code
                       THEN askedTwice \cup {code} ELSE askedTwice
  BY DEF Complete
<1>2. code \in 1..challengeCount /\ code \in 1..MaxChallenges  BY <1>1, IdentityTypes
<1>3. new \in Completions' /\ new.code = code
  <2>1. completionCount \in 0..MaxCompletions  BY IdentityTypes
  <2> QED  BY <1>2, <2>1 DEF Completions
<1> HIDE DEF new
<1>4. sealings[code] = 0
  BY <1>2 DEF IdentityIInv, SpentCodes
<1>5. completionCount' <= MaxCompletions  BY <1>1, IdentityTypes
<1>6. completions' \subseteq Completions'
  BY <1>1, <1>3 DEF IdentityIInv, IdentityShape, Completions
<1>7. IsFiniteSet(completions')  BY <1>1, OneMore DEF IdentityIInv, IdentityShape
<1>8. ASSUME NEW c \in 1..MaxChallenges  PROVE SealsBacked(c)'
  <2>0. /\ SealsBacked(c) /\ sealings[c] \in Nat /\ completionCount \in Nat
        /\ sealings'[c] = sealings[c]
    BY IdentityTypes DEF IdentityIInv
  <2>1. IsFiniteSet(InHand(c)) /\ Cardinality(InHand(c)) \in Nat  BY InHandFinite
  <2>2. CASE c # code
    <3>1. InHand(c)' = InHand(c)  BY <1>1, <1>3, <2>2 DEF InHand
    <3>2. c \notin askedTwice' => c \notin askedTwice  BY <1>1
    <3>3. Cardinality(InHand(c)') = Cardinality(InHand(c))  BY <3>1
    <3> DEFINE n == Cardinality(InHand(c))
    <3>4. sealings[c] + n <= completionCount /\ (c \notin askedTwice => sealings[c] + n <= 1)
      BY <2>0 DEF SealsBacked
    <3>5. n \in Nat  BY <2>1
    <3> HIDE DEF n
    <3>6. sealings[c] + n <= completionCount + 1  BY <2>0, <3>4, <3>5
    <3> QED  BY <1>1, <2>0, <3>2, <3>3, <3>4, <3>6 DEF n, SealsBacked
  <2>3. CASE c = code
    <3> DEFINE n == Cardinality(InHand(c))
               m == Cardinality(InHand(c)')
    <3>1. InHand(c)' \subseteq InHand(c) \cup {new}  BY <1>1 DEF InHand
    <3>2. m \in Nat /\ m <= n + 1  BY <2>1, <3>1, OneMore
    <3>3. c \notin askedTwice' => n = 0
      <4>1. c \notin askedTwice' => InHand(c) = {}  BY <1>1, <2>3 DEF InHand
      <4> QED  BY <4>1, FS_EmptySet
    <3>4. sealings[c] + n <= completionCount /\ n \in Nat  BY <2>0, <2>1 DEF SealsBacked
    <3>5. sealings[c] = 0  BY <1>4, <2>3
    <3> HIDE DEF n, m
    <3>6. 0 + m <= completionCount + 1 /\ (c \notin askedTwice' => 0 + m <= 1)
      BY <2>0, <3>2, <3>3, <3>4, <3>5
    <3> QED  BY <1>1, <2>0, <3>5, <3>6 DEF m, SealsBacked
  <2> QED  BY <2>2, <2>3
<1>9. /\ askedTwice' \subseteq 1..challengeCount /\ askedTwice \subseteq askedTwice'
      /\ askedTwice' # askedTwice =>
           askedTwice' = askedTwice \cup {code} /\ \E m \in completions : m.code = code
  BY <1>1, <1>2 DEF IdentityIInv, IdentityShape
<1> QED  BY <1>1, <1>2, <1>4, <1>5, <1>6, <1>7, <1>8, <1>9 DEF new

LEMMA AskStep ==
  ASSUME IdentityIInv, now' = now, NEW k \in IdentityKeys, AskPublished(k)
  PROVE  IdentityIInv'
<1> DEFINE code == pendingChallenges[k]
           new == [key |-> k, code |-> code, at |-> "asking", n |-> completionCount]
<1>1. /\ k \in PublishedKeys /\ Complete(k, "asking")
      /\ UNCHANGED <<pendingChallenges, expiry, challengeCount, sealed, sealings>>
  BY DEF AskPublished
<1>2. /\ code \in 1..challengeCount /\ sealings[code] = 0
      /\ completionCount' = completionCount + 1 /\ completionCount' <= MaxCompletions
      /\ completions' = completions \cup {new}
      /\ completions' \subseteq Completions' /\ IsFiniteSet(completions')
      /\ askedTwice' \subseteq 1..challengeCount
      /\ askedTwice' # askedTwice => askedTwice' = askedTwice \cup {code}
      /\ \A c \in 1..MaxChallenges : SealsBacked(c)'
  BY <1>1, Completed
<1>3. new.key = k /\ new.code = code  OBVIOUS
<1> HIDE DEF new
<1>4. k \notin EmailKeys  BY <1>1, IdentityAssumption
<1>5. IdentityShape'
  <2>1. completionCount' \in 0..MaxCompletions  BY <1>2, IdentityTypes
  <2> QED  BY <1>1, <1>2, <2>1 DEF IdentityIInv, IdentityShape
<1>6. \A m \in completions : m.code = code => m.key = k
  BY DEF IdentityIInv, OneKeyPerCode
<1>7. \A l \in IdentityKeys : pendingChallenges[l] = code => l = k
  <2>1. code # 0  BY <1>2
  <2> QED  BY <2>1 DEF IdentityIInv, OneKeyPerCode
<1>8. OneKeyPerCode'
  BY <1>1, <1>2, <1>3, <1>6, <1>7 DEF IdentityIInv, OneKeyPerCode
<1>9. SpentCodes'
  BY <1>1, <1>2, <1>3, <1>4 DEF IdentityIInv, SpentCodes
<1>10. TwiceIsPublished'
  <2>1. \A c : c \in askedTwice' => c \in askedTwice \/ c = code  BY <1>2
  <2> QED  BY <1>1, <1>2, <1>3, <1>6, <1>7, <2>1 DEF IdentityIInv, TwiceIsPublished
<1> QED  BY <1>2, <1>5, <1>8, <1>9, <1>10 DEF IdentityIInv

LEMMA SubmitStep ==
  ASSUME IdentityIInv, now' = now, NEW k \in IdentityKeys, SubmitEmailCode(k)
  PROVE  IdentityIInv'
<1> DEFINE code == pendingChallenges[k]
           new == [key |-> k, code |-> code, at |-> "sealing", n |-> completionCount]
<1>1. /\ k \in EmailKeys /\ Complete(k, "sealing")
      /\ pendingChallenges' = [pendingChallenges EXCEPT ![k] = 0]
      /\ UNCHANGED <<expiry, challengeCount, sealed, sealings>>
  BY DEF SubmitEmailCode, TakeCode
<1>2. /\ code \in 1..challengeCount /\ sealings[code] = 0
      /\ completionCount' = completionCount + 1 /\ completionCount' <= MaxCompletions
      /\ completions' = completions \cup {new}
      /\ completions' \subseteq Completions' /\ IsFiniteSet(completions')
      /\ askedTwice' \subseteq 1..challengeCount
      /\ askedTwice' # askedTwice => \E m \in completions : m.code = code
      /\ \A c \in 1..MaxChallenges : SealsBacked(c)'
  BY <1>1, Completed
<1>3. new.key = k /\ new.code = code  OBVIOUS
<1> HIDE DEF new
<1>4. k \notin PublishedKeys  BY <1>1, IdentityAssumption
<1>5. \A m \in completions : m.code # code
  BY <1>1 DEF IdentityIInv, OneKeyPerCode, SpentCodes
<1>6. askedTwice' = askedTwice  BY <1>2, <1>5
<1>7. code \notin askedTwice  BY <1>4 DEF IdentityIInv, TwiceIsPublished
<1>8. /\ pendingChallenges' \in [IdentityKeys -> 0..challengeCount]
      /\ pendingChallenges'[k] = 0
      /\ \A l \in IdentityKeys \ {k} : pendingChallenges'[l] = pendingChallenges[l]
  <2>1. pendingChallenges \in [IdentityKeys -> 0..challengeCount] /\ 0 \in 0..challengeCount
    BY IdentityTypes DEF IdentityIInv, IdentityShape
  <2> QED  BY <1>1, <2>1
<1>9. code # 0 /\ \A l \in IdentityKeys : pendingChallenges'[l] # code
  <2>1. code # 0  BY <1>2
  <2>2. \A l \in IdentityKeys : pendingChallenges[l] = code => l = k
    BY <2>1 DEF IdentityIInv, OneKeyPerCode
  <2> QED  BY <1>8, <2>1, <2>2
<1>10. IdentityShape'
  <2>1. completionCount' \in 0..MaxCompletions  BY <1>2, IdentityTypes
  <2> QED  BY <1>1, <1>2, <1>8, <2>1 DEF IdentityIInv, IdentityShape
<1>11. \A m \in completions : m.code # 0  BY IdentityTypes
<1>12. OneKeyPerCode'
  <2>1. \A l, o \in IdentityKeys :
          pendingChallenges'[l] = pendingChallenges'[o] /\ pendingChallenges'[l] # 0 => l = o
    BY <1>8 DEF IdentityIInv, OneKeyPerCode
  <2>2. \A m \in completions', l \in IdentityKeys : pendingChallenges'[l] = m.code => l = m.key
    BY <1>2, <1>3, <1>8, <1>9, <1>11 DEF IdentityIInv, OneKeyPerCode
  <2>3. \A m, o \in completions' : m.code = o.code => m.key = o.key
    BY <1>2, <1>3, <1>5 DEF IdentityIInv, OneKeyPerCode
  <2> QED  BY <2>1, <2>2, <2>3 DEF OneKeyPerCode
<1>13. SpentCodes'
  <2>1. \A c \in 1..MaxChallenges, l \in IdentityKeys :
          pendingChallenges'[l] = c => sealings[c] = 0
    BY <1>8 DEF IdentityIInv, SpentCodes
  <2>2. \A m \in completions', l \in IdentityKeys :
          m.key \in EmailKeys => pendingChallenges'[l] # m.code
    BY <1>2, <1>3, <1>8, <1>9, <1>11 DEF IdentityIInv, SpentCodes
  <2> QED  BY <1>1, <2>1, <2>2 DEF IdentityIInv, SpentCodes
<1>14. TwiceIsPublished'
  <2>1. 0 \notin askedTwice  BY DEF IdentityIInv, IdentityShape
  <2> QED  BY <1>2, <1>3, <1>6, <1>7, <1>8, <2>1 DEF IdentityIInv, TwiceIsPublished
<1> QED  BY <1>2, <1>10, <1>12, <1>13, <1>14 DEF IdentityIInv

\* Completions may end, or go on with the same code and key.
LEMMA CompletionsGoOn ==
  ASSUME IdentityIInv, IsFiniteSet(completions'), completions' \subseteq Completions,
         \A m \in completions' : \E o \in completions : m.key = o.key /\ m.code = o.code,
         \A c \in 1..MaxChallenges : Cardinality(InHand(c)') <= Cardinality(InHand(c)),
         UNCHANGED <<now, pendingChallenges, expiry, challengeCount, completionCount, sealed,
                     sealings, askedTwice>>
  PROVE  IdentityIInv'
<1>1. IdentityShape'  BY DEF IdentityIInv, IdentityShape, Completions
<1>2. OneKeyPerCode'
  <2>1. \A m \in completions', k \in IdentityKeys : pendingChallenges[k] = m.code => k = m.key
    BY DEF IdentityIInv, OneKeyPerCode
  <2>2. \A m, o \in completions' : m.code = o.code => m.key = o.key
    <3> TAKE m \in completions', o \in completions'
    <3>1. PICK p \in completions : m.key = p.key /\ m.code = p.code  OBVIOUS
    <3>2. PICK q \in completions : o.key = q.key /\ o.code = q.code  OBVIOUS
    <3> QED  BY <3>1, <3>2 DEF IdentityIInv, OneKeyPerCode
  <2> QED  BY <2>1, <2>2 DEF IdentityIInv, OneKeyPerCode
<1>3. SpentCodes'  BY DEF IdentityIInv, SpentCodes
<1>4. TwiceIsPublished'  BY DEF IdentityIInv, TwiceIsPublished
<1>5. ASSUME NEW c \in 1..MaxChallenges  PROVE SealsBacked(c)'
  <2> DEFINE n == Cardinality(InHand(c))
             m == Cardinality(InHand(c)')
  <2>1. n \in Nat  BY InHandFinite
  <2>2. m \in Nat
    <3>1. InHand(c)' \subseteq completions'  BY DEF InHand
    <3> QED  BY <3>1, NoMore
  <2>3. m <= n  OBVIOUS
  <2>4. sealings[c] + n <= completionCount /\ (c \notin askedTwice => sealings[c] + n <= 1)
    BY DEF IdentityIInv, SealsBacked
  <2>5. sealings[c] \in Nat /\ completionCount \in Nat  BY IdentityTypes
  <2> HIDE DEF n, m
  <2>6. sealings[c] + m <= completionCount /\ (c \notin askedTwice => sealings[c] + m <= 1)
    BY <2>1, <2>2, <2>3, <2>4, <2>5
  <2> QED  BY <2>6 DEF m, SealsBacked
<1> QED  BY <1>1, <1>2, <1>3, <1>4, <1>5 DEF IdentityIInv

LEMMA AnsweredStep ==
  ASSUME IdentityIInv, now' = now, NEW m \in completions, NEW found \in BOOLEAN,
         Answered(m, found)
  PROVE  IdentityIInv'
<1> DEFINE next == [m EXCEPT !.at = "sealing"]
<1>1. /\ completions' = (completions \ {m}) \cup (IF found THEN {next} ELSE {})
      /\ UNCHANGED <<pendingChallenges, expiry, challengeCount, completionCount, sealed,
                     sealings, askedTwice>>
  BY DEF Answered
<1>2. next \in Completions /\ next.key = m.key /\ next.code = m.code
  BY DEF IdentityIInv, IdentityShape, Completions
<1> HIDE DEF next
<1>3. completions' \subseteq (completions \ {m}) \cup {next}  BY <1>1
<1>4. IsFiniteSet(completions')
  BY <1>3, OneChanged DEF IdentityIInv, IdentityShape
<1>5. ASSUME NEW c \in 1..MaxChallenges
      PROVE  Cardinality(InHand(c)') <= Cardinality(InHand(c))
  <2>1. IsFiniteSet(InHand(c)) /\ Cardinality(InHand(c)) \in Nat  BY InHandFinite
  <2>2. CASE m.code = c
    <3>1. m \in InHand(c) /\ InHand(c)' \subseteq (InHand(c) \ {m}) \cup {next}
      BY <1>3, <2>2 DEF InHand
    <3> QED  BY <2>1, <3>1, OneChanged
  <2>3. CASE m.code # c
    <3>1. InHand(c)' \subseteq InHand(c)  BY <1>2, <1>3, <2>3 DEF InHand
    <3> QED  BY <2>1, <3>1, NoMore
  <2> QED  BY <2>2, <2>3
<1>6. completions' \subseteq Completions  BY <1>2, <1>3 DEF IdentityIInv, IdentityShape
<1>7. \A p \in completions' : \E o \in completions : p.key = o.key /\ p.code = o.code
  BY <1>2, <1>3
<1> QED  BY <1>1, <1>4, <1>5, <1>6, <1>7, CompletionsGoOn

LEMMA SealStep ==
  ASSUME IdentityIInv, now' = now, NEW m \in completions, SealWritten(m)
  PROVE  IdentityIInv'
<1> DEFINE code == m.code
<1>1. /\ completions' = completions \ {m} /\ sealed' = code
      /\ sealings' = [sealings EXCEPT ![code] = @ + 1]
      /\ pendingChallenges' = [pendingChallenges EXCEPT ![m.key] = 0]
      /\ UNCHANGED <<expiry, challengeCount, completionCount, askedTwice>>
  BY DEF SealWritten
<1>2. m.key \in IdentityKeys /\ code \in 1..challengeCount /\ code \in 1..MaxChallenges
  BY IdentityTypes
<1> HIDE DEF code
<1>3. /\ sealings[code] \in Nat /\ sealings' \in [1..MaxChallenges -> Nat]
      /\ sealings'[code] = sealings[code] + 1
      /\ \A c \in 1..MaxChallenges \ {code} : sealings'[c] = sealings[c]
  <2>1. sealings \in [1..MaxChallenges -> Nat]  BY DEF IdentityIInv, IdentityShape
  <2>2. sealings[code] \in Nat /\ sealings[code] + 1 \in Nat  BY <1>2, <2>1
  <2> QED  BY <1>1, <1>2, <2>1, <2>2
<1>4. /\ pendingChallenges' \in [IdentityKeys -> 0..challengeCount]
      /\ pendingChallenges'[m.key] = 0
      /\ \A l \in IdentityKeys : pendingChallenges'[l] \in {0, pendingChallenges[l]}
  <2>1. pendingChallenges \in [IdentityKeys -> 0..challengeCount] /\ 0 \in 0..challengeCount
    BY IdentityTypes DEF IdentityIInv, IdentityShape
  <2> QED  BY <1>1, <1>2, <2>1
<1>5. code # 0 /\ \A l \in IdentityKeys : pendingChallenges'[l] # code
  <2>1. \A l \in IdentityKeys : pendingChallenges[l] = code => l = m.key
    BY DEF IdentityIInv, OneKeyPerCode, code
  <2> QED  BY <1>2, <1>4, <2>1
<1>6. IdentityShape'
  <2>1. IsFiniteSet(completions')
    <3>1. completions' \subseteq completions  BY <1>1
    <3> QED  BY <3>1, NoMore DEF IdentityIInv, IdentityShape
  <2>2. sealed' \in 0..challengeCount  BY <1>1, <1>2
  <2> QED  BY <1>1, <1>3, <1>4, <2>1, <2>2 DEF IdentityIInv, IdentityShape, Completions
<1>7. \A p \in completions : p.code # 0  BY IdentityTypes
<1>8. OneKeyPerCode'
  BY <1>1, <1>4, <1>7 DEF IdentityIInv, OneKeyPerCode
<1>9. SpentCodes'
  <2>1. \A c \in 1..MaxChallenges : c > challengeCount => sealings'[c] = 0
    <3>1. ~(code > challengeCount)  BY <1>2, IdentityTypes
    <3> QED  BY <1>3, <3>1 DEF IdentityIInv, SpentCodes
  <2>2. \A c \in 1..MaxChallenges, l \in IdentityKeys :
          pendingChallenges'[l] = c => sealings'[c] = 0
    <3> TAKE c \in 1..MaxChallenges, l \in IdentityKeys
    <3> HAVE pendingChallenges'[l] = c
    <3>1. c # code /\ c # 0  BY <1>5
    <3>2. pendingChallenges[l] = c  BY <1>4, <3>1
    <3> QED  BY <1>3, <3>1, <3>2 DEF IdentityIInv, SpentCodes
  <2>3. \A p \in completions', l \in IdentityKeys :
          p.key \in EmailKeys => pendingChallenges'[l] # p.code
    BY <1>1, <1>4, <1>7 DEF IdentityIInv, SpentCodes
  <2> QED  BY <1>1, <2>1, <2>2, <2>3 DEF SpentCodes
<1>10. TwiceIsPublished'
  <2>1. 0 \notin askedTwice  BY DEF IdentityIInv, IdentityShape
  <2> QED  BY <1>1, <1>4, <2>1 DEF IdentityIInv, TwiceIsPublished
<1>11. ASSUME NEW c \in 1..MaxChallenges  PROVE SealsBacked(c)'
  <2>1. IsFiniteSet(InHand(c)) /\ Cardinality(InHand(c)) \in Nat  BY InHandFinite
  <2> DEFINE n == Cardinality(InHand(c))
             n1 == Cardinality(InHand(c)')
  <2>2. sealings[c] + n <= completionCount /\ (c \notin askedTwice => sealings[c] + n <= 1)
    BY DEF IdentityIInv, SealsBacked
  <2>3. sealings[c] \in Nat /\ completionCount \in Nat /\ n \in Nat  BY <2>1, IdentityTypes
  <2>4. n1 \in Nat /\ sealings'[c] \in Nat /\ sealings'[c] + n1 <= sealings[c] + n
    <3>1. CASE c = code
      <4>1. m \in InHand(c) /\ InHand(c)' \subseteq InHand(c) \ {m}
        BY <1>1, <3>1 DEF InHand, code
      <4>2. n1 \in Nat /\ n1 <= n - 1  BY <2>1, <4>1, OneLess
      <4>3. sealings'[c] = sealings[c] + 1  BY <1>3, <3>1
      <4> HIDE DEF n, n1
      <4> QED  BY <2>3, <4>2, <4>3
    <3>2. CASE c # code
      <4>1. InHand(c)' \subseteq InHand(c)  BY <1>1 DEF InHand
      <4>2. n1 \in Nat /\ n1 <= n  BY <2>1, <4>1, NoMore
      <4>3. sealings'[c] = sealings[c]  BY <1>3, <3>2
      <4> HIDE DEF n, n1
      <4> QED  BY <2>3, <4>2, <4>3
    <3> QED  BY <3>1, <3>2
  <2> HIDE DEF n, n1
  <2>5. /\ sealings'[c] + n1 <= completionCount
        /\ c \notin askedTwice => sealings'[c] + n1 <= 1
    BY <2>2, <2>3, <2>4
  <2> QED  BY <1>1, <2>5 DEF n1, SealsBacked
<1> QED  BY <1>6, <1>8, <1>9, <1>10, <1>11 DEF IdentityIInv

LEMMA RestartIdentityStep ==
  ASSUME IdentityIInv, now' = now, RestartIdentity
  PROVE  IdentityIInv'
<1>1. /\ pendingChallenges' = [k \in IdentityKeys |-> 0] /\ completions' = {}
      /\ UNCHANGED <<expiry, challengeCount, completionCount, sealed, sealings, askedTwice>>
  BY DEF RestartIdentity
<1>2. IsFiniteSet({}) /\ Cardinality({}) = 0  BY FS_EmptySet
<1>3. IdentityShape'
  <2>1. 0 \in 0..challengeCount  BY IdentityTypes
  <2> QED  BY <1>1, <1>2, <2>1 DEF IdentityIInv, IdentityShape
<1>4. OneKeyPerCode' /\ SpentCodes'
  BY <1>1 DEF IdentityIInv, OneKeyPerCode, SpentCodes
<1>5. TwiceIsPublished'
  <2>1. 0 \notin askedTwice  BY DEF IdentityIInv, IdentityShape
  <2> QED  BY <1>1, <2>1 DEF TwiceIsPublished
<1>6. ASSUME NEW c \in 1..MaxChallenges  PROVE SealsBacked(c)'
  <2> DEFINE n == Cardinality(InHand(c))
  <2>1. InHand(c)' = {} /\ Cardinality(InHand(c)') = 0  BY <1>1, <1>2 DEF InHand
  <2>2. sealings[c] + n <= completionCount /\ (c \notin askedTwice => sealings[c] + n <= 1)
    BY DEF IdentityIInv, SealsBacked
  <2>3. sealings[c] \in Nat /\ completionCount \in Nat /\ n \in Nat
    BY InHandFinite, IdentityTypes
  <2> HIDE DEF n
  <2>4. sealings[c] + 0 <= completionCount /\ (c \notin askedTwice => sealings[c] + 0 <= 1)
    BY <2>2, <2>3
  <2> QED  BY <1>1, <2>1, <2>4 DEF SealsBacked
<1> QED  BY <1>3, <1>4, <1>5, <1>6 DEF IdentityIInv

LEMMA IdentityInitInv ==
  ASSUME IdentityInit
  PROVE  IdentityIInv
<1>1. /\ now = 1 /\ pendingChallenges = [k \in IdentityKeys |-> 0]
      /\ expiry = [c \in 1..MaxChallenges |-> 0]
      /\ challengeCount = 0 /\ completionCount = 0 /\ completions = {} /\ sealed = 0
      /\ sealings = [c \in 1..MaxChallenges |-> 0] /\ askedTwice = {}
  BY DEF IdentityInit, ClockInit
<1>2. IsFiniteSet({}) /\ Cardinality({}) = 0  BY FS_EmptySet
<1>3. IdentityShape
  <2>1. 0 \in 0..MaxChallenges /\ 0 \in 0..MaxCompletions /\ 0 \in 0..0
    BY IdentityAssumption
  <2> QED  BY <1>1, <1>2, <2>1 DEF IdentityShape
<1>4. OneKeyPerCode /\ SpentCodes /\ TwiceIsPublished
  BY <1>1 DEF OneKeyPerCode, SpentCodes, TwiceIsPublished
<1>5. \A c \in 1..MaxChallenges : SealsBacked(c)
  <2>1. \A c : InHand(c) = {}  BY <1>1 DEF InHand
  <2> QED  BY <1>1, <1>2, <2>1 DEF SealsBacked
<1> QED  BY <1>3, <1>4, <1>5 DEF IdentityIInv

LEMMA IdentityRests ==
  ASSUME IdentityIInv, now' \in Nat, UNCHANGED identityVars
  PROVE  IdentityIInv'
BY DEF IdentityIInv, IdentityShape, OneKeyPerCode, SpentCodes, TwiceIsPublished, SealsBacked,
       InHand, Completions, identityVars

LEMMA IdentityStepInv ==
  ASSUME IdentityIInv, [IdentityNext]_<<identityVars, now>>
  PROVE  IdentityIInv'
<1>1. ASSUME IdentitySteps, UNCHANGED now  PROVE IdentityIInv'
  <2>1. ASSUME NEW k \in IdentityKeys,
               createChallenge(k) \/ DropLapsed(k) \/ AskPublished(k) \/ SubmitEmailCode(k)
        PROVE  IdentityIInv'
    BY <1>1, <2>1, ChallengeStep, DropStep, AskStep, SubmitStep
  <2>2. ASSUME NEW m \in completions,
               SealWritten(m) \/ \E found \in BOOLEAN : Answered(m, found)
        PROVE  IdentityIInv'
    BY <1>1, <2>2, SealStep, AnsweredStep
  <2>3. ASSUME RestartIdentity PROVE IdentityIInv'  BY <1>1, <2>3, RestartIdentityStep
  <2> QED  BY <1>1, <2>1, <2>2, <2>3 DEF IdentitySteps
<1>2. ASSUME TickUpTo(IdentityMaxTime), UNCHANGED identityVars  PROVE IdentityIInv'
  <2>1. now' \in Nat  BY <1>2, IdentityTypes DEF TickUpTo
  <2> QED  BY <1>2, <2>1, IdentityRests
<1>3. ASSUME UNCHANGED <<identityVars, now>>  PROVE IdentityIInv'
  <2>1. now' \in Nat  BY <1>3, IdentityTypes
  <2> QED  BY <1>3, <2>1, IdentityRests
<1> QED  BY <1>1, <1>2, <1>3 DEF IdentityNext

LEMMA IdentityInvImplies ==
  ASSUME IdentityIInv
  PROVE  IdentityTypeOK /\ SealedOnce
<1>1. ASSUME NEW c \in 1..MaxChallenges
      PROVE  sealings[c] \in 0..MaxCompletions /\ (sealings[c] > 1 => c \in askedTwice)
  <2> DEFINE n == Cardinality(InHand(c))
  <2>1. sealings[c] + n <= completionCount /\ (c \notin askedTwice => sealings[c] + n <= 1)
    BY DEF IdentityIInv, SealsBacked
  <2>2. /\ sealings[c] \in Nat /\ completionCount \in Nat /\ n \in Nat
        /\ completionCount <= MaxCompletions /\ MaxCompletions \in Nat
    BY InHandFinite, IdentityTypes
  <2> HIDE DEF n
  <2> QED  BY <2>1, <2>2
<1>2. 1..challengeCount \subseteq 1..MaxChallenges  BY IdentityTypes
<1>3. IdentityTypeOK
  <2>1. sealings \in [1..MaxChallenges -> 0..MaxCompletions]
    BY <1>1 DEF IdentityIInv, IdentityShape
  <2>2. completions \subseteq [key : IdentityKeys, code : 1..MaxChallenges,
                               at : {"asking", "sealing"}, n : 0..MaxCompletions]
    BY <1>2 DEF IdentityIInv, IdentityShape, Completions
  <2> QED  BY <1>2, <2>1, <2>2 DEF IdentityIInv, IdentityShape, IdentityTypeOK
<1>4. SealedOnce
  BY <1>1, <1>2 DEF IdentityIInv, TwiceIsPublished, SealedOnce
<1> QED  BY <1>3, <1>4

\* A challenge seals an identity once, over retries and restarts, unless two completions
\* waited for its answer together; the code of an e-mail always seals once.
THEOREM SealsOnce == IdentitySpec => [](IdentityTypeOK /\ SealedOnce)
<1>1. IdentityInit => IdentityIInv  BY IdentityInitInv
<1>2. IdentityIInv /\ [IdentityNext]_<<identityVars, now>> => IdentityIInv'
  BY IdentityStepInv
<1>3. IdentityIInv => IdentityTypeOK /\ SealedOnce  BY IdentityInvImplies
<1> QED  BY <1>1, <1>2, <1>3, PTL DEF IdentitySpec

-----------------------------------------------------------------------------
(* The listings of the board.                                              *)

BoardEntries == [type : Stages \cup {"posted"}, task : BoardTasks, ts : Nat, at : Nat]

\* OfType and ReachedBy in any store.
TypeIn(s, type) == { i \in 1..Len(s) : s[i].type = type }

ReachedIn(s, t, time) ==
  { k \in DOMAIN StageOrder :
      /\ Cardinality(TypeIn(s, StageOrder[k])) <= QueryLimit
      /\ \E i \in TypeIn(s, StageOrder[k]) : s[i].task = t /\ s[i].at <= time }

\* The listings L are as far on as the records that s had at a time.
Listed(L, s, time) ==
  /\ L \subseteq Listing
  /\ \A l \in L :
       /\ \A k \in ReachedIn(s, l.task, time) : \E j \in 1..k : StageOrder[j] = l.status
       /\ l.status # "open" => \E i \in TypeIn(s, l.status) : s[i].task = l.task
       /\ \A m \in L : m.task = l.task => m = l

BoardShape ==
  /\ now \in Nat \ {0}
  /\ boardRecords \in Seq(BoardEntries)
  /\ \A i \in 1..Len(boardRecords) :
       boardRecords[i].ts \in 1..boardRecords[i].at /\ boardRecords[i].at \in 1..now
  /\ lastRefresh \in 0..now
  /\ shown \in [listings : SUBSET Listing, at : 0..now]

BoardIInv ==
  /\ BoardShape
  /\ Listed(listingCache, boardRecords, lastRefresh - 1)
  /\ Listed(shown.listings, boardRecords, shown.at - CacheTtl - 1)

LEMMA BoardTypes ==
  ASSUME BoardIInv
  PROVE  /\ now \in Nat /\ now >= 1 /\ lastRefresh \in Nat /\ lastRefresh <= now
         /\ shown.at \in Nat /\ shown.at <= now /\ CacheTtl \in Nat /\ QueryLimit \in Nat
         /\ boardRecords \in Seq(BoardEntries) /\ Len(boardRecords) \in Nat
         /\ DOMAIN boardRecords = 1..Len(boardRecords)
         /\ \A i \in 1..Len(boardRecords) :
              boardRecords[i] \in BoardEntries /\ boardRecords[i].at \in 1..now
<1>1. BoardShape  BY DEF BoardIInv
<1>2. boardRecords \in Seq(BoardEntries)  BY <1>1 DEF BoardShape
<1>3. Len(boardRecords) \in Nat /\ DOMAIN boardRecords = 1..Len(boardRecords)
  BY <1>2, LenProperties
<1>4. \A i \in 1..Len(boardRecords) : boardRecords[i] \in BoardEntries
  BY <1>2, ElementOfSeq
<1>5. CacheTtl \in Nat /\ QueryLimit \in Nat  BY BoardAssumption
<1>6. now \in Nat /\ now >= 1 /\ lastRefresh \in 0..now /\ shown.at \in 0..now
  BY <1>1 DEF BoardShape
<1>7. \A i \in 1..Len(boardRecords) : boardRecords[i].at \in 1..now  BY <1>1 DEF BoardShape
<1> QED  BY <1>2, <1>3, <1>4, <1>5, <1>6, <1>7

LEMMA TypeInFinite ==
  ASSUME NEW s \in Seq(BoardEntries), NEW type
  PROVE  IsFiniteSet(TypeIn(s, type)) /\ Cardinality(TypeIn(s, type)) \in Nat
<1>1. Len(s) \in Nat  BY LenProperties
<1>2. IsFiniteSet(1..Len(s))  BY <1>1, FS_Interval
<1>3. TypeIn(s, type) \subseteq 1..Len(s)  BY DEF TypeIn
<1> QED  BY <1>2, <1>3, FS_Subset, FS_CardinalityType

\* What was listed for a time is listed for an earlier one.
LEMMA ListedEarlier ==
  ASSUME NEW L, NEW s \in Seq(BoardEntries), NEW time \in Int, NEW before \in Int,
         before <= time, Listed(L, s, time)
  PROVE  Listed(L, s, before)
<1>1. \A i \in 1..Len(s) : s[i].at \in Nat
  <2>1. \A i \in 1..Len(s) : s[i] \in BoardEntries  BY ElementOfSeq
  <2> QED  BY <2>1 DEF BoardEntries
<1>2. \A t : ReachedIn(s, t, before) \subseteq ReachedIn(s, t, time)
  <2> SUFFICES ASSUME NEW t, NEW k \in ReachedIn(s, t, before)
               PROVE  k \in ReachedIn(s, t, time)
    OBVIOUS
  <2>1. /\ k \in DOMAIN StageOrder /\ Cardinality(TypeIn(s, StageOrder[k])) <= QueryLimit
        /\ \E i \in TypeIn(s, StageOrder[k]) : s[i].task = t /\ s[i].at <= before
    BY DEF ReachedIn
  <2>2. PICK i \in TypeIn(s, StageOrder[k]) : s[i].task = t /\ s[i].at <= before  BY <2>1
  <2>3. s[i].at \in Nat  BY <1>1, <2>2 DEF TypeIn
  <2>4. s[i].at <= time  BY <2>2, <2>3
  <2> QED  BY <2>1, <2>2, <2>4 DEF ReachedIn
<1> QED  BY <1>2 DEF Listed

\* A record that is inserted after the time does not change what must be listed for it.
LEMMA ListedMore ==
  ASSUME NEW L, NEW s \in Seq(BoardEntries), NEW time \in Int, Listed(L, s, time),
         NEW r \in BoardEntries, ~(r.at <= time)
  PROVE  Listed(L, Append(s, r), time)
<1> DEFINE u == Append(s, r)
<1>1. /\ u \in Seq(BoardEntries) /\ Len(u) = Len(s) + 1 /\ u[Len(s) + 1] = r
      /\ \A i \in 1..Len(s) : u[i] = s[i]
  BY AppendProperties
<1>2. Len(s) \in Nat  BY LenProperties
<1> HIDE DEF u
<1>3. \A i : i \in 1..Len(u) <=> i \in 1..Len(s) \/ i = Len(s) + 1
  BY <1>1, <1>2
<1>4. ASSUME NEW type  PROVE TypeIn(s, type) \subseteq TypeIn(u, type)
  BY <1>1, <1>3 DEF TypeIn
<1>5. ASSUME NEW type
      PROVE  /\ Cardinality(TypeIn(s, type)) \in Nat /\ Cardinality(TypeIn(u, type)) \in Nat
             /\ Cardinality(TypeIn(s, type)) <= Cardinality(TypeIn(u, type))
  <2>1. /\ IsFiniteSet(TypeIn(u, type))
        /\ Cardinality(TypeIn(s, type)) \in Nat /\ Cardinality(TypeIn(u, type)) \in Nat
    BY <1>1, TypeInFinite
  <2> QED  BY <1>4, <2>1, FS_Subset
<1>6. QueryLimit \in Nat  BY BoardAssumption
<1>7. ASSUME NEW t  PROVE ReachedIn(u, t, time) \subseteq ReachedIn(s, t, time)
  <2> SUFFICES ASSUME NEW k \in ReachedIn(u, t, time)
               PROVE  k \in ReachedIn(s, t, time)
    OBVIOUS
  <2>1. /\ k \in DOMAIN StageOrder /\ Cardinality(TypeIn(u, StageOrder[k])) <= QueryLimit
        /\ \E i \in TypeIn(u, StageOrder[k]) : u[i].task = t /\ u[i].at <= time
    BY DEF ReachedIn
  <2>2. PICK i \in TypeIn(u, StageOrder[k]) : u[i].task = t /\ u[i].at <= time  BY <2>1
  <2>3. i \in TypeIn(s, StageOrder[k]) /\ s[i] = u[i]
    BY <1>1, <1>3, <2>2 DEF TypeIn
  <2>4. Cardinality(TypeIn(s, StageOrder[k])) <= QueryLimit
    <3> DEFINE a == Cardinality(TypeIn(s, StageOrder[k]))
               b == Cardinality(TypeIn(u, StageOrder[k]))
    <3>1. a \in Nat /\ b \in Nat /\ a <= b  BY <1>5
    <3>2. b <= QueryLimit  BY <2>1
    <3> HIDE DEF a, b
    <3>3. a <= QueryLimit  BY <1>6, <3>1, <3>2
    <3> QED  BY <3>3 DEF a
  <2> QED  BY <2>1, <2>2, <2>3, <2>4 DEF ReachedIn
<1>8. ASSUME NEW l \in L
      PROVE  /\ \A k \in ReachedIn(u, l.task, time) : \E j \in 1..k : StageOrder[j] = l.status
             /\ l.status # "open" => \E i \in TypeIn(u, l.status) : u[i].task = l.task
  <2>1. /\ \A k \in ReachedIn(s, l.task, time) : \E j \in 1..k : StageOrder[j] = l.status
        /\ l.status # "open" => \E i \in TypeIn(s, l.status) : s[i].task = l.task
    BY DEF Listed
  <2>2. \A i \in TypeIn(s, l.status) : i \in TypeIn(u, l.status) /\ u[i] = s[i]
    BY <1>1, <1>4 DEF TypeIn
  <2> QED  BY <1>7, <2>1, <2>2
<1> QED  BY <1>8 DEF Listed, u

\* The stages are found by their number, the least one first.
LEMMA LeastStage ==
  ASSUME NEW R \in SUBSET DOMAIN StageOrder, R # {}
  PROVE  \E k \in R : \A l \in R : k <= l
<1>1. DOMAIN StageOrder = 1..5  BY DEF StageOrder
<1>2. \A k \in R : k \in 1..5  BY <1>1
<1>3. CASE 1 \in R  BY <1>2, <1>3
<1>4. CASE 1 \notin R /\ 2 \in R  BY <1>2, <1>4
<1>5. CASE 1 \notin R /\ 2 \notin R /\ 3 \in R  BY <1>2, <1>5
<1>6. CASE 1 \notin R /\ 2 \notin R /\ 3 \notin R /\ 4 \in R  BY <1>2, <1>6
<1>7. CASE 1 \notin R /\ 2 \notin R /\ 3 \notin R /\ 4 \notin R
  <2>1. \A k \in R : k = 5  BY <1>2, <1>7
  <2> QED  BY <2>1
<1> QED  BY <1>3, <1>4, <1>5, <1>6, <1>7

\* A status is supported by a record, and nothing further on is in sight.
LEMMA Resolved ==
  ASSUME BoardIInv, NEW t, Reached(t) # {}
  PROVE  \E k \in DOMAIN StageOrder :
           /\ resolveStatus(t) = StageOrder[k]
           /\ \A l \in Reached(t) : k <= l
           /\ \E i \in TypeIn(boardRecords, StageOrder[k]) : boardRecords[i].task = t
<1>1. Reached(t) \in SUBSET DOMAIN StageOrder  BY DEF Reached
<1> DEFINE k == CHOOSE k \in Reached(t) : \A l \in Reached(t) : k <= l
<1>2. k \in Reached(t) /\ \A l \in Reached(t) : k <= l  BY <1>1, LeastStage
<1>3. resolveStatus(t) = StageOrder[k]  BY DEF resolveStatus
<1> HIDE DEF k
<1>4. k \in DOMAIN StageOrder /\ \E i \in queryByType(StageOrder[k], QueryLimit) :
                                  boardRecords[i].task = t
  BY <1>2 DEF Reached
<1>5. PICK i \in queryByType(StageOrder[k], QueryLimit) : boardRecords[i].task = t
  BY <1>4
<1>6. i \in OfType(StageOrder[k])  BY <1>5 DEF queryByType
<1>7. i \in TypeIn(boardRecords, StageOrder[k])  BY <1>6, BoardTypes DEF OfType, TypeIn
<1> QED  BY <1>2, <1>3, <1>4, <1>5, <1>7

\* A query that is not full returns every record of its type.
LEMMA AllInSight ==
  ASSUME BoardIInv, NEW k, NEW t, NEW time, k \in ReachedIn(boardRecords, t, time)
  PROVE  k \in Reached(t)
<1>1. /\ k \in DOMAIN StageOrder
      /\ Cardinality(TypeIn(boardRecords, StageOrder[k])) <= QueryLimit
      /\ \E i \in TypeIn(boardRecords, StageOrder[k]) :
           boardRecords[i].task = t /\ boardRecords[i].at <= time
  BY DEF ReachedIn
<1>2. PICK type : type = StageOrder[k]  OBVIOUS
<1>3. PICK i \in TypeIn(boardRecords, type) : boardRecords[i].task = t  BY <1>1, <1>2
<1>4. OfType(type) = TypeIn(boardRecords, type)  BY BoardTypes DEF OfType, TypeIn
<1> DEFINE before == { j \in OfType(type) : Precedes(j, i) }
<1>5. i \notin before
  <2>1. boardRecords[i].ts \in Nat /\ i \in Nat
    BY <1>3, BoardTypes DEF TypeIn, BoardEntries
  <2>2. ~Precedes(i, i)  BY <2>1 DEF Precedes
  <2> QED  BY <2>2
<1>6. before \subseteq OfType(type) /\ i \in OfType(type)  BY <1>3, <1>4
<1> HIDE DEF before
<1>7. IsFiniteSet(OfType(type)) /\ Cardinality(OfType(type)) \in Nat
  BY <1>4, BoardTypes, TypeInFinite
<1>8. /\ Cardinality(before) \in Nat /\ Cardinality(before) <= Cardinality(OfType(type))
      /\ Cardinality(before) # Cardinality(OfType(type))
  BY <1>5, <1>6, <1>7, FS_Subset, FS_CardinalityType
<1>9. Cardinality(before) < QueryLimit
  <2>1. Cardinality(OfType(type)) <= QueryLimit  BY <1>1, <1>2, <1>4
  <2>2. QueryLimit \in Nat  BY BoardAssumption
  <2> QED  BY <1>7, <1>8, <2>1, <2>2
<1>10. i \in queryByType(type, QueryLimit)  BY <1>6, <1>9 DEF queryByType, before
<1> QED  BY <1>1, <1>2, <1>3, <1>10 DEF Reached

\* What a rebuild lists is as far on as everything in the store.
LEMMA Rebuilt ==
  ASSUME BoardIInv, rebuildCache, NEW time
  PROVE  Listed(listingCache', boardRecords, time)
<1> DEFINE tasks == { boardRecords[i].task : i \in queryByType("posted", PostedLimit) }
<1>1. \A l \in listingCache' : \E t \in tasks : l = [task |-> t, status |-> resolveStatus(t)]
  BY DEF rebuildCache
<1>2. tasks \subseteq BoardTasks
  <2>1. \A i \in queryByType("posted", PostedLimit) : i \in 1..Len(boardRecords)
    BY BoardTypes DEF queryByType, OfType
  <2> QED  BY <2>1, BoardTypes DEF BoardEntries
<1> HIDE DEF tasks
<1>3. \A l \in listingCache' : l.task \in BoardTasks /\ l.status = resolveStatus(l.task)
  BY <1>1, <1>2
<1>4. ASSUME NEW l \in listingCache'
      PROVE  /\ l \in Listing
             /\ \A k \in ReachedIn(boardRecords, l.task, time) :
                  \E j \in 1..k : StageOrder[j] = l.status
             /\ l.status # "open" =>
                  \E i \in TypeIn(boardRecords, l.status) : boardRecords[i].task = l.task
  <2>1. PICK t \in BoardTasks : l = [task |-> t, status |-> resolveStatus(t)]
    BY <1>1, <1>2
  <2>2. l.task = t /\ l.status = resolveStatus(t)  BY <2>1
  <2>3. CASE Reached(t) = {}
    <3>1. resolveStatus(t) = "open"  BY <2>3 DEF resolveStatus
    <3>2. ReachedIn(boardRecords, t, time) = {}  BY <2>3, AllInSight
    <3> QED  BY <2>1, <2>2, <3>1, <3>2 DEF Listing, Status
  <2>4. CASE Reached(t) # {}
    <3>1. PICK k \in DOMAIN StageOrder :
            /\ resolveStatus(t) = StageOrder[k]
            /\ \A m \in Reached(t) : k <= m
            /\ \E i \in TypeIn(boardRecords, StageOrder[k]) : boardRecords[i].task = t
      BY <2>4, Resolved
    <3>2. DOMAIN StageOrder = 1..5  BY DEF StageOrder
    <3>3. \A m \in ReachedIn(boardRecords, t, time) : m \in 1..5 /\ k <= m
      BY <3>1, <3>2, AllInSight DEF ReachedIn
    <3>4. \A m \in ReachedIn(boardRecords, t, time) : k \in 1..m
      BY <3>2, <3>3
    <3>5. l \in Listing  BY <2>1, <3>1 DEF Listing, Status
    <3> QED  BY <2>2, <3>1, <3>4, <3>5
  <2> QED  BY <2>3, <2>4
<1>5. \A l, m \in listingCache' : m.task = l.task => m = l  BY <1>1
<1> QED  BY <1>4, <1>5 DEF Listed

LEMMA InsertStep ==
  ASSUME BoardIInv, now' = now, NEW type \in Stages \cup {"posted"}, NEW t \in BoardTasks,
         NEW ts \in {1, now}, InsertRecord(type, t, ts)
  PROVE  BoardIInv'
<1> DEFINE r == [type |-> type, task |-> t, ts |-> ts, at |-> now]
<1>1. boardRecords' = Append(boardRecords, r) /\ UNCHANGED <<listingCache, lastRefresh, shown>>
  BY DEF InsertRecord
<1>2. r \in BoardEntries /\ r.ts \in 1..r.at /\ r.at = now
  BY BoardTypes DEF BoardEntries
<1> HIDE DEF r
<1>3. /\ boardRecords' \in Seq(BoardEntries) /\ Len(boardRecords') = Len(boardRecords) + 1
      /\ boardRecords'[Len(boardRecords) + 1] = r
      /\ \A i \in 1..Len(boardRecords) : boardRecords'[i] = boardRecords[i]
  BY <1>1, <1>2, BoardTypes, AppendProperties
<1>4. \A i \in 1..Len(boardRecords') : i \in 1..Len(boardRecords) \/ i = Len(boardRecords) + 1
  <2>1. Len(boardRecords) \in Nat  BY BoardTypes
  <2> QED  BY <1>3, <2>1
<1>5. BoardShape'
  <2>1. now \in 1..now  BY BoardTypes
  <2>2. \A i \in 1..Len(boardRecords') :
          /\ boardRecords'[i].ts \in 1..boardRecords'[i].at
          /\ boardRecords'[i].at \in 1..now
    BY <1>2, <1>3, <1>4, <2>1 DEF BoardIInv, BoardShape
  <2> QED  BY <1>1, <1>3, <2>2 DEF BoardIInv, BoardShape
<1>6. /\ ~(now <= lastRefresh - 1) /\ ~(now <= shown.at - CacheTtl - 1)
      /\ lastRefresh - 1 \in Int /\ shown.at - CacheTtl - 1 \in Int
  BY BoardTypes
<1>7. /\ Listed(listingCache, boardRecords', lastRefresh - 1)
      /\ Listed(shown.listings, boardRecords', shown.at - CacheTtl - 1)
  BY <1>1, <1>2, <1>6, BoardTypes, ListedMore DEF BoardIInv
<1> QED  BY <1>1, <1>5, <1>7 DEF BoardIInv

LEMMA BrowseStep ==
  ASSUME BoardIInv, now' = now, browse
  PROVE  BoardIInv'
<1>1. /\ IF Stale THEN rebuildCache ELSE UNCHANGED <<listingCache, lastRefresh>>
      /\ shown' = [listings |-> listingCache', at |-> now] /\ boardRecords' = boardRecords
  BY DEF browse
<1>2. shown'.listings = listingCache' /\ shown'.at = now  BY <1>1
<1>3. now - CacheTtl - 1 \in Int /\ now \in 0..now /\ lastRefresh \in 0..now  BY BoardTypes
<1>4. CASE Stale
  <2>1. lastRefresh' = now /\ rebuildCache  BY <1>1, <1>4 DEF rebuildCache
  <2>2. \A time : Listed(listingCache', boardRecords, time)  BY <2>1, Rebuilt
  <2>3. listingCache' \subseteq Listing  BY <2>2 DEF Listed
  <2>4. BoardShape'  BY <1>1, <1>3, <2>1, <2>3 DEF BoardIInv, BoardShape
  <2> QED  BY <1>1, <1>2, <2>1, <2>2, <2>4 DEF BoardIInv
<1>5. CASE ~Stale
  <2>1. listingCache' = listingCache /\ lastRefresh' = lastRefresh  BY <1>1, <1>5
  <2>2. now - CacheTtl - 1 <= lastRefresh - 1 /\ lastRefresh - 1 \in Int
    BY <1>5, BoardTypes DEF Stale
  <2>3. Listed(listingCache, boardRecords, lastRefresh - 1)  BY DEF BoardIInv
  <2>4. Listed(listingCache, boardRecords, now - CacheTtl - 1)
    BY <1>3, <2>2, <2>3, BoardTypes, ListedEarlier
  <2>5. listingCache \subseteq Listing  BY <2>3 DEF Listed
  <2>6. BoardShape'  BY <1>1, <1>3, <2>1, <2>5 DEF BoardIInv, BoardShape
  <2> QED  BY <1>1, <1>2, <2>1, <2>3, <2>4, <2>6 DEF BoardIInv
<1> QED  BY <1>4, <1>5

LEMMA RefreshStep ==
  ASSUME BoardIInv, now' = now, refresh
  PROVE  BoardIInv'
<1>1. rebuildCache /\ lastRefresh' = now /\ UNCHANGED <<boardRecords, shown>>
  BY DEF refresh, rebuildCache
<1>2. Listed(listingCache', boardRecords, now - 1)  BY <1>1, Rebuilt
<1>3. now \in 0..now  BY BoardTypes
<1>4. BoardShape'  BY <1>1, <1>3 DEF BoardIInv, BoardShape
<1> QED  BY <1>1, <1>2, <1>4 DEF BoardIInv

LEMMA BoardInitInv ==
  ASSUME BoardInit
  PROVE  BoardIInv
<1>1. /\ now = 1 /\ boardRecords = <<>> /\ listingCache = {} /\ lastRefresh = 0
      /\ shown = [listings |-> {}, at |-> 0]
  BY DEF BoardInit, ClockInit
<1>2. <<>> \in Seq(BoardEntries) /\ Len(<<>>) = 0  BY EmptySeq
<1>3. 0 \in 0..now /\ now \in Nat \ {0}  BY <1>1
<1>4. BoardShape  BY <1>1, <1>2, <1>3 DEF BoardShape
<1>5. \A s, time : Listed({}, s, time)  BY DEF Listed
<1> QED  BY <1>1, <1>4, <1>5 DEF BoardIInv

LEMMA BoardRests ==
  ASSUME BoardIInv, now' \in Nat, now' >= now, UNCHANGED boardVars
  PROVE  BoardIInv'
<1>1. UNCHANGED <<boardRecords, listingCache, lastRefresh, shown>>  BY DEF boardVars
<1>2. now' \in Nat \ {0} /\ 0..now \subseteq 0..now' /\ 1..now \subseteq 1..now'
  BY BoardTypes
<1>3. BoardShape'  BY <1>1, <1>2 DEF BoardIInv, BoardShape
<1> QED  BY <1>1, <1>3 DEF BoardIInv

LEMMA BoardStepInv ==
  ASSUME BoardIInv, [BoardNext]_<<boardVars, now>>
  PROVE  BoardIInv'
<1>1. ASSUME BoardSteps, UNCHANGED now  PROVE BoardIInv'
  BY <1>1, InsertStep, BrowseStep, RefreshStep DEF BoardSteps
<1>3. ASSUME TickUpTo(BoardMaxTime)  PROVE now' \in Nat /\ now' >= now
  BY <1>3, BoardTypes DEF TickUpTo
<1>4. UNCHANGED now => now' \in Nat /\ now' >= now  BY BoardTypes
<1> QED  BY <1>1, <1>3, <1>4, BoardRests DEF BoardNext

LEMMA BoardInvImplies ==
  ASSUME BoardIInv
  PROVE  BoardTypeOK /\ ListingLagsBriefly
<1>1. \A type : OfType(type) = TypeIn(boardRecords, type)  BY BoardTypes DEF OfType, TypeIn
<1>2. \A t, time : ReachedBy(t, time) = ReachedIn(boardRecords, t, time)
  BY <1>1 DEF ReachedBy, ReachedIn
<1>3. BoardTypeOK
  <2>1. listingCache \subseteq Listing  BY DEF BoardIInv, Listed
  <2> QED  BY <2>1, BoardTypes DEF BoardIInv, BoardShape, BoardTypeOK, BoardEntries
<1>4. ListingLagsBriefly
  <2> SUFFICES ASSUME NEW l \in shown.listings
               PROVE  /\ \A k \in DOMAIN StageOrder :
                           shown.at > CacheTtl /\ k \in ReachedBy(l.task, shown.at - CacheTtl - 1)
                             => \E j \in 1..k : StageOrder[j] = l.status
                      /\ l.status # "open" =>
                           \E i \in OfType(l.status) : boardRecords[i].task = l.task
                      /\ \A m \in shown.listings : m.task = l.task => m = l
    BY DEF ListingLagsBriefly
  <2>1. Listed(shown.listings, boardRecords, shown.at - CacheTtl - 1)  BY DEF BoardIInv
  <2> QED  BY <1>1, <1>2, <2>1 DEF Listed
<1> QED  BY <1>3, <1>4

\* The board lags by less than CacheTtl behind the store, as long as a query can return
\* all records of a type; whatever the limits, a status it shows has its record.
THEOREM BoardKeepsUp == BoardSpec => [](BoardTypeOK /\ ListingLagsBriefly)
<1>1. BoardInit => BoardIInv  BY BoardInitInv
<1>2. BoardIInv /\ [BoardNext]_<<boardVars, now>> => BoardIInv'  BY BoardStepInv
<1>3. BoardIInv => BoardTypeOK /\ ListingLagsBriefly  BY BoardInvImplies
<1> QED  BY <1>1, <1>2, <1>3, PTL DEF BoardSpec

-----------------------------------------------------------------------------
(* The scheduler and the posts.                                            *)

Deeds == [action : ActionNames, at : Nat]

\* What the scheduler remembers are the latest actions taken.
RemembersLatest ==
  /\ Len(actionHistory) = IF Len(taken) > HistoryCap THEN HistoryCap ELSE Len(taken)
  /\ \A i \in 1..Len(actionHistory) :
       actionHistory[i] = taken[Len(taken) - Len(actionHistory) + i]

\* The spawn that is decided on is as far from the earlier ones as it must be.
SpawnInTime ==
  \A i \in 1..Len(taken) : taken[i].action = "spawn_child" =>
    now - taken[i].at >= SpawnPause \/ Len(taken) + 1 - i > HistoryCap

SpacedSpawns ==
  \A i, j \in 1..Len(taken) :
    i < j /\ taken[i].action = "spawn_child" /\ taken[j].action = "spawn_child" =>
      taken[j].at - taken[i].at >= SpawnPause \/ j - i > HistoryCap

\* Without an overlap one post is written at a time, and it is begun long enough
\* after the last one.
SpacedPosts ==
  /\ Len(drafting) <= 1
  /\ \A i \in 1..Len(drafting) : drafting[i] - lastPublishTime >= ContentInterval
  /\ \A i \in 1..Len(publishedAt) : publishedAt[i] <= lastPublishTime
  /\ \A i, j \in 1..Len(publishedAt) :
       i < j => publishedAt[j] - publishedAt[i] >= ContentInterval

SchedulerIInv ==
  /\ {lastWorkSeek, lastContent} \subseteq 0..now
  /\ decided \in ActionNames \cup {"none"}
  /\ actionHistory \in Seq(Deeds) /\ taken \in Seq(Deeds)
  /\ \A i \in 1..Len(taken) : taken[i].at \in 1..now
  /\ RemembersLatest /\ SpacedSpawns
  /\ decided = "spawn_child" => SpawnInTime

PostsIInv ==
  /\ lastPublishTime \in 0..now
  /\ drafting \in Seq(1..now) /\ publishedAt \in Seq(1..now)
  /\ postOverlap \in BOOLEAN
  /\ postOverlap = FALSE => SpacedPosts

AutonomyIInv == now \in Nat \ {0} /\ SchedulerIInv /\ PostsIInv

\* What is taken away at one place leaves the others.
LEMMA RemovedAt ==
  ASSUME NEW S, NEW s \in Seq(S), NEW i \in 1..Len(s)
  PROVE  /\ RemoveAt(s, i) \in Seq(S)
         /\ Len(RemoveAt(s, i)) = Len(s) - 1
<1>1. Len(s) \in Nat  BY LenProperties
<1>2. /\ SubSeq(s, 1, i - 1) \in Seq(S) /\ Len(SubSeq(s, 1, i - 1)) = i - 1
  <2>1. \A k \in 1..(i - 1) : k \in 1..Len(s)  BY <1>1
  <2>2. i - 1 \in Int /\ (IF 1 <= i - 1 THEN i - 1 - 1 + 1 ELSE 0) = i - 1  BY <1>1
  <2> QED  BY <2>1, <2>2, SubSeqProperties, ElementOfSeq
<1>3. /\ SubSeq(s, i + 1, Len(s)) \in Seq(S) /\ Len(SubSeq(s, i + 1, Len(s))) = Len(s) - i
  <2>1. \A k \in (i + 1)..Len(s) : k \in 1..Len(s)  BY <1>1
  <2>2. i + 1 \in Int /\ (IF i + 1 <= Len(s) THEN Len(s) - (i + 1) + 1 ELSE 0) = Len(s) - i
    BY <1>1
  <2> QED  BY <1>1, <2>1, <2>2, SubSeqProperties, ElementOfSeq
<1> DEFINE a == SubSeq(s, 1, i - 1)
           b == SubSeq(s, i + 1, Len(s))
<1>4. RemoveAt(s, i) = a \o b  BY DEF RemoveAt
<1> HIDE DEF a, b
<1>5. a \o b \in Seq(S) /\ Len(a \o b) = Len(a) + Len(b)
  BY <1>2, <1>3, ConcatProperties DEF a, b
<1>6. Len(a) = i - 1 /\ Len(b) = Len(s) - i  BY <1>2, <1>3 DEF a, b
<1>7. (i - 1) + (Len(s) - i) = Len(s) - 1  BY <1>1
<1> QED  BY <1>4, <1>5, <1>6, <1>7

LEMMA AutonomyTypes ==
  ASSUME AutonomyIInv
  PROVE  /\ now \in Nat /\ now >= 1
         /\ taken \in Seq(Deeds) /\ actionHistory \in Seq(Deeds)
         /\ Len(taken) \in Nat /\ Len(actionHistory) \in Nat
         /\ \A i \in 1..Len(taken) :
              taken[i] \in Deeds /\ taken[i].at \in Nat /\ taken[i].at <= now
         /\ lastPublishTime \in Nat /\ lastPublishTime <= now
         /\ drafting \in Seq(1..now) /\ publishedAt \in Seq(1..now)
         /\ Len(drafting) \in Nat /\ Len(publishedAt) \in Nat
         /\ \A i \in 1..Len(drafting) : drafting[i] \in 1..now
         /\ \A i \in 1..Len(publishedAt) : publishedAt[i] \in 1..now
<1>1. now \in Nat /\ now >= 1 /\ SchedulerIInv /\ PostsIInv  BY DEF AutonomyIInv
<1>2. /\ taken \in Seq(Deeds) /\ actionHistory \in Seq(Deeds)
      /\ \A i \in 1..Len(taken) : taken[i].at \in 1..now
  BY <1>1 DEF SchedulerIInv
<1>3. /\ lastPublishTime \in 0..now
      /\ drafting \in Seq(1..now) /\ publishedAt \in Seq(1..now)
  BY <1>1 DEF PostsIInv
<1>4. /\ Len(taken) \in Nat /\ Len(actionHistory) \in Nat
      /\ Len(drafting) \in Nat /\ Len(publishedAt) \in Nat
  BY <1>2, <1>3, LenProperties
<1>5. \A i \in 1..Len(taken) : taken[i] \in Deeds  BY <1>2, ElementOfSeq
<1>6. \A i \in 1..Len(drafting) : drafting[i] \in 1..now  BY <1>3, ElementOfSeq
<1>7. \A i \in 1..Len(publishedAt) : publishedAt[i] \in 1..now  BY <1>3, ElementOfSeq
<1> QED  BY <1>1, <1>2, <1>3, <1>4, <1>5, <1>6, <1>7

LEMMA RemembersNoMore ==
  ASSUME AutonomyIInv
  PROVE  Len(actionHistory) <= Len(taken)
<1>1. Len(taken) \in Nat /\ HistoryCap \in Nat  BY AutonomyTypes, AutonomyAssumption
<1>2. Len(actionHistory) = IF Len(taken) > HistoryCap THEN HistoryCap ELSE Len(taken)
  BY DEF AutonomyIInv, SchedulerIInv, RemembersLatest
<1> QED  BY <1>1, <1>2

\* What is recorded is the latest part of what was done.
LEMMA RecordedLatest ==
  ASSUME NEW s \in Seq(Deeds)
  PROVE  /\ Recorded(s) \in Seq(Deeds)
         /\ Len(Recorded(s)) = IF Len(s) > HistoryCap THEN HistoryCap ELSE Len(s)
         /\ \A i \in 1..Len(Recorded(s)) : Recorded(s)[i] = s[Len(s) - Len(Recorded(s)) + i]
<1>1. Len(s) \in Nat /\ HistoryCap \in Nat /\ HistoryCap >= 1
  BY LenProperties, AutonomyAssumption
<1>2. CASE Len(s) <= HistoryCap
  <2>1. Recorded(s) = s  BY <1>1, <1>2 DEF Recorded
  <2>2. \A i \in 1..Len(s) : Len(s) - Len(s) + i = i  BY <1>1
  <2> QED  BY <1>1, <1>2, <2>1, <2>2
<1>3. CASE Len(s) > HistoryCap
  <2> DEFINE m == Len(s) - HistoryCap + 1
  <2>1. Recorded(s) = SubSeq(s, m, Len(s))  BY <1>3 DEF Recorded
  <2>2. m \in 1..Len(s) /\ Len(s) - m + 1 = HistoryCap /\ m <= Len(s)  BY <1>1, <1>3
  <2> HIDE DEF m
  <2>3. \A k \in m..Len(s) : k \in 1..Len(s)  BY <1>1, <2>2
  <2>4. /\ SubSeq(s, m, Len(s)) \in Seq(Deeds)
        /\ Len(SubSeq(s, m, Len(s))) = HistoryCap
        /\ \A i \in 1..HistoryCap : SubSeq(s, m, Len(s))[i] = s[m + i - 1]
    BY <1>1, <2>2, <2>3, SubSeqProperties, ElementOfSeq
  <2>5. \A i \in 1..HistoryCap : m + i - 1 = Len(s) - HistoryCap + i  BY <1>1 DEF m
  <2> QED  BY <1>3, <2>1, <2>4, <2>5
<1> QED  BY <1>1, <1>2, <1>3

\* A spawn is only decided on when none that is remembered is recent.
LEMMA DecidedInTime ==
  ASSUME AutonomyIInv, ~RecentSpawn
  PROVE  SpawnInTime
<1> SUFFICES ASSUME NEW i \in 1..Len(taken), taken[i].action = "spawn_child",
                    ~(Len(taken) + 1 - i > HistoryCap)
             PROVE  now - taken[i].at >= SpawnPause
  BY DEF SpawnInTime
<1> DEFINE k == i - (Len(taken) - Len(actionHistory))
<1>1. /\ Len(actionHistory) = IF Len(taken) > HistoryCap THEN HistoryCap ELSE Len(taken)
      /\ \A j \in 1..Len(actionHistory) :
           actionHistory[j] = taken[Len(taken) - Len(actionHistory) + j]
  BY DEF AutonomyIInv, SchedulerIInv, RemembersLatest
<1>2. k \in 1..Len(actionHistory) /\ Len(taken) - Len(actionHistory) + k = i
  <2>1. Len(taken) \in Nat /\ Len(actionHistory) \in Nat /\ HistoryCap \in Nat
    BY AutonomyTypes, AutonomyAssumption
  <2>2. CASE Len(taken) > HistoryCap
    <3>1. Len(actionHistory) = HistoryCap  BY <1>1, <2>2
    <3> QED  BY <2>1, <2>2, <3>1
  <2>3. CASE ~(Len(taken) > HistoryCap)
    <3>1. Len(actionHistory) = Len(taken)  BY <1>1, <2>3
    <3> QED  BY <2>1, <2>3, <3>1
  <2> QED  BY <2>2, <2>3
<1> HIDE DEF k
<1>3. actionHistory[k] = taken[i]  BY <1>1, <1>2
<1>4. taken[i] \in Range(actionHistory)
  <2>1. DOMAIN actionHistory = 1..Len(actionHistory)  BY AutonomyTypes, LenProperties
  <2> QED  BY <1>2, <1>3, <2>1 DEF Range
<1>5. ~(now - taken[i].at < SpawnPause)  BY <1>4 DEF RecentSpawn
<1> QED  BY <1>5, AutonomyTypes, AutonomyAssumption, SMTT(30)

LEMMA DecideStep ==
  ASSUME AutonomyIInv, now' = now,
         NEW load \in {"full", "low", "medium", "high"}, NEW low \in BOOLEAN,
         NEW earns \in BOOLEAN, decide(load, low, earns)
  PROVE  AutonomyIInv'
<1>1. /\ UNCHANGED <<lastWorkSeek, lastContent, actionHistory, taken, drafting, publishedAt,
                     lastPublishTime, postOverlap>>
      /\ decided' = Decision(load, low, earns)
  BY DEF decide
<1>2. decided' \in ActionNames /\ (decided' = "spawn_child" => ~RecentSpawn)
  BY <1>1 DEF Decision, ActionNames
<1>3. decided' = "spawn_child" => SpawnInTime'
  BY <1>1, <1>2, DecidedInTime DEF SpawnInTime
<1>4. SchedulerIInv'
  BY <1>1, <1>2, <1>3 DEF AutonomyIInv, SchedulerIInv, RemembersLatest, SpacedSpawns
<1>5. PostsIInv'  BY <1>1 DEF AutonomyIInv, PostsIInv, SpacedPosts
<1> QED  BY <1>4, <1>5 DEF AutonomyIInv

LEMMA RecordStep ==
  ASSUME AutonomyIInv, now' = now, recordAction
  PROVE  AutonomyIInv'
<1> DEFINE done == [action |-> decided, at |-> now]
<1>1. /\ decided # "none" /\ decided' = "none"
      /\ actionHistory' = Recorded(Append(actionHistory, done))
      /\ taken' = Append(taken, done)
      /\ lastWorkSeek' \in {lastWorkSeek, now} /\ lastContent' \in {lastContent, now}
      /\ UNCHANGED <<drafting, publishedAt, lastPublishTime, postOverlap>>
  BY DEF recordAction
<1>2. done \in Deeds /\ done.at = now /\ done.action = decided
  BY <1>1, AutonomyTypes DEF AutonomyIInv, SchedulerIInv, Deeds
<1> HIDE DEF done
<1>3. /\ taken' \in Seq(Deeds) /\ Len(taken') = Len(taken) + 1
      /\ taken'[Len(taken) + 1] = done
      /\ \A i \in 1..Len(taken) : taken'[i] = taken[i]
  BY <1>1, <1>2, AutonomyTypes, AppendProperties
<1> DEFINE a == Append(actionHistory, done)
<1>4. /\ a \in Seq(Deeds) /\ Len(a) = Len(actionHistory) + 1
      /\ a[Len(actionHistory) + 1] = done
      /\ \A i \in 1..Len(actionHistory) : a[i] = actionHistory[i]
  BY <1>2, AutonomyTypes, AppendProperties
<1>5. actionHistory' = Recorded(a)  BY <1>1
<1> HIDE DEF a
<1>6. \A i \in 1..Len(a) : a[i] = taken'[Len(taken') - Len(a) + i]
  <2> TAKE i \in 1..Len(a)
  <2>1. CASE i = Len(actionHistory) + 1
    <3>1. Len(taken') - Len(a) + i = Len(taken) + 1  BY <1>3, <1>4, <2>1, AutonomyTypes
    <3> QED  BY <1>3, <1>4, <2>1, <3>1
  <2>2. CASE i \in 1..Len(actionHistory)
    <3>1. Len(taken') - Len(a) + i = Len(taken) - Len(actionHistory) + i
      BY <1>3, <1>4, AutonomyTypes
    <3>2. Len(taken) - Len(actionHistory) + i \in 1..Len(taken)
      <4>1. Len(actionHistory) <= Len(taken)  BY RemembersNoMore
      <4>2. Len(actionHistory) \in Nat /\ Len(taken) \in Nat  BY AutonomyTypes
      <4> QED  BY <2>2, <4>1, <4>2
    <3>3. actionHistory[i] = taken[Len(taken) - Len(actionHistory) + i]
      BY <2>2 DEF AutonomyIInv, SchedulerIInv, RemembersLatest
    <3> QED  BY <1>3, <1>4, <2>2, <3>1, <3>2, <3>3
  <2> QED  BY <1>4, <2>1, <2>2, AutonomyTypes
<1>7. RemembersLatest'
  <2>1. Len(actionHistory) = IF Len(taken) > HistoryCap THEN HistoryCap ELSE Len(taken)
    BY DEF AutonomyIInv, SchedulerIInv, RemembersLatest
  <2>2. /\ Len(actionHistory') = IF Len(a) > HistoryCap THEN HistoryCap ELSE Len(a)
        /\ \A i \in 1..Len(actionHistory') :
             actionHistory'[i] = a[Len(a) - Len(actionHistory') + i]
    BY <1>4, <1>5, RecordedLatest
  <2>3. Len(actionHistory') = IF Len(taken') > HistoryCap THEN HistoryCap ELSE Len(taken')
    BY <1>3, <1>4, <2>1, <2>2, AutonomyTypes, AutonomyAssumption
  <2>4. \A i \in 1..Len(actionHistory') :
          actionHistory'[i] = taken'[Len(taken') - Len(actionHistory') + i]
    <3> TAKE i \in 1..Len(actionHistory')
    <3> DEFINE p == Len(a) - Len(actionHistory') + i
    <3>1. /\ Len(a) \in Nat /\ Len(taken') \in Nat
          /\ Len(actionHistory') \in Nat /\ Len(actionHistory') <= Len(a)
      BY <1>3, <1>4, <2>2, AutonomyTypes, AutonomyAssumption
    <3>2. p \in 1..Len(a) /\ Len(taken') - Len(a) + p = Len(taken') - Len(actionHistory') + i
      BY <3>1
    <3> HIDE DEF p
    <3>3. actionHistory'[i] = a[p]  BY <2>2 DEF p
    <3> QED  BY <1>6, <3>2, <3>3
  <2> QED  BY <2>3, <2>4 DEF RemembersLatest
<1>8. SpacedSpawns'
  <2> SUFFICES ASSUME NEW i \in 1..Len(taken'), NEW j \in 1..Len(taken'), i < j,
                      taken'[i].action = "spawn_child", taken'[j].action = "spawn_child"
               PROVE  taken'[j].at - taken'[i].at >= SpawnPause \/ j - i > HistoryCap
    BY DEF SpacedSpawns
  <2>1. i \in 1..Len(taken) /\ taken'[i] = taken[i]  BY <1>3, AutonomyTypes
  <2>2. CASE j \in 1..Len(taken)
    BY <1>3, <2>1, <2>2 DEF AutonomyIInv, SchedulerIInv, SpacedSpawns
  <2>3. CASE j = Len(taken) + 1
    <3>1. taken'[j].at = now /\ SpawnInTime
      BY <1>2, <1>3, <2>3 DEF AutonomyIInv, SchedulerIInv
    <3>2. now - taken[i].at >= SpawnPause \/ Len(taken) + 1 - i > HistoryCap
      BY <2>1, <3>1 DEF SpawnInTime
    <3> QED  BY <2>1, <2>3, <3>1, <3>2
  <2>4. j \in 1..Len(taken) \/ j = Len(taken) + 1  BY <1>3, AutonomyTypes
  <2> QED  BY <2>2, <2>3, <2>4
<1>9. \A i \in 1..Len(taken') : taken'[i].at \in 1..now'
  <2> TAKE i \in 1..Len(taken')
  <2>1. CASE i \in 1..Len(taken)  BY <1>3, <2>1 DEF AutonomyIInv, SchedulerIInv
  <2>2. CASE i = Len(taken) + 1  BY <1>2, <1>3, <2>2, AutonomyTypes
  <2> QED  BY <1>3, <2>1, <2>2, AutonomyTypes
<1>10. SchedulerIInv'
  <2>1. {lastWorkSeek', lastContent'} \subseteq 0..now'
    BY <1>1, AutonomyTypes DEF AutonomyIInv, SchedulerIInv
  <2>2. actionHistory' \in Seq(Deeds)  BY <1>4, <1>5, RecordedLatest
  <2> QED  BY <1>1, <1>3, <1>7, <1>8, <1>9, <2>1, <2>2 DEF SchedulerIInv
<1>11. PostsIInv'  BY <1>1 DEF AutonomyIInv, PostsIInv, SpacedPosts
<1> QED  BY <1>10, <1>11 DEF AutonomyIInv

LEMMA GenerateStep ==
  ASSUME AutonomyIInv, now' = now, GenerateCall
  PROVE  AutonomyIInv'
<1>1. /\ now - lastPublishTime >= ContentInterval
      /\ drafting' = Append(drafting, now)
      /\ postOverlap' = (postOverlap \/ drafting # <<>>)
      /\ UNCHANGED <<lastWorkSeek, lastContent, decided, actionHistory, taken, publishedAt,
                     lastPublishTime>>
  BY DEF GenerateCall
<1>2. /\ drafting' \in Seq(1..now) /\ Len(drafting') = Len(drafting) + 1
      /\ drafting'[Len(drafting) + 1] = now
  <2>1. now \in 1..now  BY AutonomyTypes
  <2> QED  BY <1>1, <2>1, AutonomyTypes, AppendProperties
<1>3. SchedulerIInv'
  BY <1>1 DEF AutonomyIInv, SchedulerIInv, RemembersLatest, SpacedSpawns, SpawnInTime
<1>4. ASSUME postOverlap' = FALSE  PROVE SpacedPosts'
  <2>1. postOverlap = FALSE /\ drafting = <<>> /\ Len(drafting) = 0
    <3>1. postOverlap \in BOOLEAN  BY DEF AutonomyIInv, PostsIInv
    <3>2. ~postOverlap /\ drafting = <<>>  BY <1>1, <1>4
    <3> QED  BY <3>1, <3>2, EmptySeq
  <2>2. SpacedPosts  BY <2>1 DEF AutonomyIInv, PostsIInv
  <2>3. Len(drafting') = 1 /\ drafting'[1] = now  BY <1>2, <2>1
  <2>4. \A i \in 1..Len(drafting') : drafting'[i] - lastPublishTime' >= ContentInterval
    BY <1>1, <2>3
  <2> QED  BY <1>1, <2>2, <2>3, <2>4 DEF SpacedPosts
<1>5. PostsIInv'
  <2>1. postOverlap' \in BOOLEAN  BY <1>1 DEF AutonomyIInv, PostsIInv
  <2> QED  BY <1>1, <1>2, <1>4, <2>1 DEF AutonomyIInv, PostsIInv
<1> QED  BY <1>3, <1>5 DEF AutonomyIInv

LEMMA GeneratedStep ==
  ASSUME AutonomyIInv, now' = now, NEW i \in 1..MaxDrafts, Generated(i)
  PROVE  AutonomyIInv'
<1>1. /\ i \in DOMAIN drafting
      /\ drafting' = RemoveAt(drafting, i)
      /\ publishedAt' = Append(publishedAt, drafting[i])
      /\ lastPublishTime' = drafting[i]
      /\ UNCHANGED <<lastWorkSeek, lastContent, decided, actionHistory, taken, postOverlap>>
  BY DEF Generated
<1>2. i \in 1..Len(drafting)  BY <1>1, AutonomyTypes, LenProperties
<1>3. drafting[i] \in 1..now  BY <1>2, AutonomyTypes
<1>4. drafting' \in Seq(1..now) /\ Len(drafting') = Len(drafting) - 1
  BY <1>1, <1>2, AutonomyTypes, RemovedAt
<1>5. /\ publishedAt' \in Seq(1..now) /\ Len(publishedAt') = Len(publishedAt) + 1
      /\ publishedAt'[Len(publishedAt) + 1] = drafting[i]
      /\ \A j \in 1..Len(publishedAt) : publishedAt'[j] = publishedAt[j]
  BY <1>1, <1>3, AutonomyTypes, AppendProperties
<1>6. SchedulerIInv'
  BY <1>1 DEF AutonomyIInv, SchedulerIInv, RemembersLatest, SpacedSpawns, SpawnInTime
<1>7. ASSUME postOverlap' = FALSE  PROVE SpacedPosts'
  <2>1. SpacedPosts  BY <1>1, <1>7 DEF AutonomyIInv, PostsIInv
  <2>2. Len(drafting) = 1 /\ i = 1
    <3> DEFINE n == Len(drafting)
    <3>1. n <= 1 /\ n \in Nat /\ i \in 1..n
      <4>1. n <= 1  BY <2>1 DEF SpacedPosts
      <4>2. n \in Nat  BY AutonomyTypes
      <4> QED  BY <1>2, <4>1, <4>2
    <3> HIDE DEF n
    <3>2. i \in Int  BY <3>1
    <3>3. n = 1 /\ i = 1  BY <3>1, <3>2
    <3> QED  BY <3>3 DEF n
  <2>3. Len(drafting') = 0  BY <1>4, <2>2
  <2>4. drafting[i] - lastPublishTime >= ContentInterval  BY <1>2, <2>1 DEF SpacedPosts
  <2>5. ContentInterval \in Nat  BY AutonomyAssumption
  <2>6. \A j \in 1..Len(publishedAt) :
          publishedAt[j] <= lastPublishTime /\ publishedAt[j] \in Nat
    BY <2>1, AutonomyTypes DEF SpacedPosts
  <2>7. \A j \in 1..Len(publishedAt) :
          /\ publishedAt[j] <= drafting[i]
          /\ drafting[i] - publishedAt[j] >= ContentInterval
    <3> TAKE j \in 1..Len(publishedAt)
    <3>1. publishedAt[j] <= lastPublishTime /\ publishedAt[j] \in Nat  BY <2>6
    <3> DEFINE d == drafting[i]
               p == publishedAt[j]
    <3>2. d \in Nat /\ p \in Nat /\ lastPublishTime \in Nat  BY <1>3, <3>1, AutonomyTypes
    <3>3. d - lastPublishTime >= ContentInterval /\ p <= lastPublishTime  BY <2>4, <3>1
    <3> HIDE DEF d, p
    <3>4. p <= d /\ d - p >= ContentInterval  BY <2>5, <3>2, <3>3
    <3> QED  BY <3>4 DEF d, p
  <2>8. \A j \in 1..Len(publishedAt') : publishedAt'[j] <= lastPublishTime'
    <3> TAKE j \in 1..Len(publishedAt')
    <3>1. CASE j \in 1..Len(publishedAt)  BY <1>1, <1>5, <2>7, <3>1
    <3>2. CASE j = Len(publishedAt) + 1  BY <1>1, <1>3, <1>5, <3>2
    <3>3. j \in 1..Len(publishedAt) \/ j = Len(publishedAt) + 1  BY <1>5, AutonomyTypes
    <3> QED  BY <3>1, <3>2, <3>3
  <2>9. \A j, k \in 1..Len(publishedAt') :
          j < k => publishedAt'[k] - publishedAt'[j] >= ContentInterval
    <3> SUFFICES ASSUME NEW j \in 1..Len(publishedAt'), NEW k \in 1..Len(publishedAt'), j < k
                 PROVE  publishedAt'[k] - publishedAt'[j] >= ContentInterval
      OBVIOUS
    <3>1. j \in 1..Len(publishedAt)  BY <1>5, AutonomyTypes
    <3>2. CASE k \in 1..Len(publishedAt)  BY <1>5, <2>1, <3>1, <3>2 DEF SpacedPosts
    <3>3. CASE k = Len(publishedAt) + 1  BY <1>5, <2>7, <3>1, <3>3
    <3>4. k \in 1..Len(publishedAt) \/ k = Len(publishedAt) + 1
      <4>1. Len(publishedAt) \in Nat  BY AutonomyTypes
      <4> QED  BY <1>5, <4>1
    <3> QED  BY <3>2, <3>3, <3>4
  <2> QED  BY <2>3, <2>8, <2>9 DEF SpacedPosts
<1>8. PostsIInv'
  <2>1. lastPublishTime' \in 0..now'  BY <1>1, <1>3
  <2> QED  BY <1>1, <1>4, <1>5, <1>7, <2>1 DEF AutonomyIInv, PostsIInv
<1> QED  BY <1>6, <1>8 DEF AutonomyIInv

LEMMA NothingStep ==
  ASSUME AutonomyIInv, now' = now, NEW i \in 1..MaxDrafts, NothingGenerated(i)
  PROVE  AutonomyIInv'
<1>1. /\ i \in DOMAIN drafting
      /\ drafting' = RemoveAt(drafting, i)
      /\ UNCHANGED <<lastWorkSeek, lastContent, decided, actionHistory, taken, publishedAt,
                     lastPublishTime, postOverlap>>
  BY DEF NothingGenerated
<1>2. i \in 1..Len(drafting)  BY <1>1, AutonomyTypes, LenProperties
<1>3. drafting' \in Seq(1..now) /\ Len(drafting') = Len(drafting) - 1
  BY <1>1, <1>2, AutonomyTypes, RemovedAt
<1>4. SchedulerIInv'
  BY <1>1 DEF AutonomyIInv, SchedulerIInv, RemembersLatest, SpacedSpawns, SpawnInTime
<1>5. ASSUME postOverlap' = FALSE  PROVE SpacedPosts'
  <2>1. SpacedPosts  BY <1>1, <1>5 DEF AutonomyIInv, PostsIInv
  <2>2. Len(drafting') = 0
    <3>1. Len(drafting) <= 1  BY <2>1 DEF SpacedPosts
    <3> QED  BY <1>2, <1>3, <3>1, AutonomyTypes
  <2> QED  BY <1>1, <2>1, <2>2 DEF SpacedPosts
<1>6. PostsIInv'  BY <1>1, <1>3, <1>5 DEF AutonomyIInv, PostsIInv
<1> QED  BY <1>4, <1>6 DEF AutonomyIInv

\* A sequence of times of the past stays one.
LEMMA TimesOfThePast ==
  ASSUME NEW m \in Nat, NEW n \in Nat, m <= n, NEW s \in Seq(1..m)
  PROVE  s \in Seq(1..n)
<1>1. s \in [1..Len(s) -> 1..m] /\ Len(s) \in Nat  BY LenProperties
<1>2. 1..m \subseteq 1..n  OBVIOUS
<1>3. s \in [1..Len(s) -> 1..n]  BY <1>1, <1>2
<1> QED  BY <1>1, <1>3, SeqDef

LEMMA AutonomyRests ==
  ASSUME AutonomyIInv, now' \in Nat, now' >= now, UNCHANGED autonomyVars
  PROVE  AutonomyIInv'
<1>1. 0..now \subseteq 0..now' /\ 1..now \subseteq 1..now'  BY AutonomyTypes
<1>2. /\ UNCHANGED <<lastWorkSeek, lastContent, decided, actionHistory, taken, drafting>>
      /\ UNCHANGED <<publishedAt, lastPublishTime, postOverlap>>
  BY DEF autonomyVars
<1>3. now' \in Nat \ {0}  BY AutonomyTypes
<1>4. SpawnInTime => SpawnInTime'
  <2> SUFFICES ASSUME SpawnInTime, NEW i \in 1..Len(taken), taken[i].action = "spawn_child",
                      ~(Len(taken) + 1 - i > HistoryCap)
               PROVE  now' - taken[i].at >= SpawnPause
    BY <1>2 DEF SpawnInTime
  <2>1. now - taken[i].at >= SpawnPause /\ taken[i].at \in Nat  BY AutonomyTypes DEF SpawnInTime
  <2> QED  BY <2>1, AutonomyTypes, AutonomyAssumption, SMTT(30)
<1>5. SchedulerIInv'
  <2>1. {lastWorkSeek, lastContent} \subseteq 0..now'
    BY <1>1, AutonomyTypes DEF AutonomyIInv, SchedulerIInv
  <2>2. \A i \in 1..Len(taken) : taken[i].at \in 1..now'
    BY <1>1, AutonomyTypes DEF AutonomyIInv, SchedulerIInv
  <2> QED  BY <1>2, <1>4, <2>1, <2>2
           DEF AutonomyIInv, SchedulerIInv, RemembersLatest, SpacedSpawns
<1>6. PostsIInv'
  <2>1. lastPublishTime \in 0..now'  BY <1>1, AutonomyTypes
  <2>2. drafting \in Seq(1..now') /\ publishedAt \in Seq(1..now')
    BY <1>3, AutonomyTypes, TimesOfThePast
  <2> QED  BY <1>2, <2>1, <2>2 DEF AutonomyIInv, PostsIInv, SpacedPosts
<1> QED  BY <1>3, <1>5, <1>6 DEF AutonomyIInv

LEMMA AutonomyInitInv ==
  ASSUME AutonomyInit
  PROVE  AutonomyIInv
<1>1. /\ now = 1 /\ lastWorkSeek = 0 /\ lastContent = 0 /\ decided = "none"
      /\ actionHistory = <<>> /\ taken = <<>>
      /\ drafting = <<>> /\ publishedAt = <<>> /\ lastPublishTime = 0 /\ postOverlap = FALSE
  BY DEF AutonomyInit, ClockInit
<1>2. Len(<<>>) = 0 /\ <<>> \in Seq(Deeds) /\ <<>> \in Seq(1..now)  BY EmptySeq
<1>3. SchedulerIInv
  <2>1. RemembersLatest /\ SpacedSpawns
    BY <1>1, <1>2, AutonomyAssumption DEF RemembersLatest, SpacedSpawns
  <2> QED  BY <1>1, <1>2, <2>1 DEF SchedulerIInv, ActionNames
<1>4. PostsIInv
  <2>1. SpacedPosts  BY <1>1, <1>2 DEF SpacedPosts
  <2>2. lastPublishTime \in 0..now  BY <1>1
  <2>3. drafting \in Seq(1..now) /\ publishedAt \in Seq(1..now)  BY <1>1, <1>2
  <2>4. postOverlap \in BOOLEAN  BY <1>1
  <2> QED  BY <2>1, <2>2, <2>3, <2>4 DEF PostsIInv
<1> QED  BY <1>1, <1>3, <1>4 DEF AutonomyIInv

LEMMA AutonomyStepInv ==
  ASSUME AutonomyIInv, [AutonomyNext]_<<autonomyVars, now>>
  PROVE  AutonomyIInv'
<1>1. CASE AutonomySteps /\ UNCHANGED now
  <2>1. ASSUME NEW load \in {"full", "low", "medium", "high"}, NEW low \in BOOLEAN,
               NEW earns \in BOOLEAN, decide(load, low, earns)
        PROVE  AutonomyIInv'
    BY <1>1, <2>1, DecideStep
  <2>2. ASSUME recordAction PROVE AutonomyIInv'  BY <1>1, <2>2, RecordStep
  <2>3. ASSUME GenerateCall PROVE AutonomyIInv'  BY <1>1, <2>3, GenerateStep
  <2>4. ASSUME NEW i \in 1..MaxDrafts, Generated(i) \/ NothingGenerated(i)
        PROVE  AutonomyIInv'
    BY <1>1, <2>4, GeneratedStep, NothingStep
  <2> QED  BY <1>1, <2>1, <2>2, <2>3, <2>4 DEF AutonomySteps
<1>2. CASE TickUpTo(AutonomyMaxTime) /\ UNCHANGED autonomyVars
  <2>1. now' \in Nat /\ now' >= now  BY <1>2, AutonomyTypes DEF TickUpTo
  <2> QED  BY <1>2, <2>1, AutonomyRests
<1>3. CASE UNCHANGED <<autonomyVars, now>>
  <2>1. now' \in Nat /\ now' >= now  BY <1>3, AutonomyTypes
  <2> QED  BY <1>3, <2>1, AutonomyRests
<1> QED  BY <1>1, <1>2, <1>3 DEF AutonomyNext

LEMMA AutonomyInvImplies ==
  ASSUME AutonomyIInv
  PROVE  AutonomyTypeOK /\ AgentPaced
<1>1. AutonomyTypeOK
  <2>1. {lastWorkSeek, lastContent, lastPublishTime} \subseteq 0..now
    BY DEF AutonomyIInv, SchedulerIInv, PostsIInv
  <2>2. Len(actionHistory) <= HistoryCap
    BY AutonomyTypes, AutonomyAssumption DEF AutonomyIInv, SchedulerIInv, RemembersLatest
  <2>3. \A h \in Range(taken) : h.action \in ActionNames /\ h.at \in 1..now
    <3> TAKE h \in Range(taken)
    <3>1. PICK i \in DOMAIN taken : h = taken[i]  BY DEF Range
    <3>2. i \in 1..Len(taken)  BY AutonomyTypes, LenProperties
    <3> QED  BY <3>1, <3>2, AutonomyTypes DEF AutonomyIInv, SchedulerIInv, Deeds
  <2>4. Range(drafting) \cup Range(publishedAt) \subseteq 1..now
    <3>1. DOMAIN drafting = 1..Len(drafting) /\ DOMAIN publishedAt = 1..Len(publishedAt)
      BY AutonomyTypes, LenProperties
    <3> QED  BY <3>1, AutonomyTypes DEF Range
  <2> QED  BY <2>1, <2>2, <2>3, <2>4
           DEF AutonomyTypeOK, AutonomyIInv, SchedulerIInv, PostsIInv
<1>2. SpawnsApart
  <2>1. DOMAIN taken = 1..Len(taken)  BY AutonomyTypes, LenProperties
  <2>2. SpacedSpawns  BY DEF AutonomyIInv, SchedulerIInv
  <2> QED  BY <2>1, <2>2 DEF SpawnsApart, SpacedSpawns
<1>3. PostsApart
  <2>1. DOMAIN publishedAt = 1..Len(publishedAt)  BY AutonomyTypes, LenProperties
  <2>2. ~postOverlap => SpacedPosts  BY DEF AutonomyIInv, PostsIInv
  <2> QED  BY <2>1, <2>2 DEF PostsApart, SpacedPosts
<1> QED  BY <1>1, <1>2, <1>3 DEF AgentPaced

\* An agent keeps its pace: children are SpawnPause apart and posts ContentInterval,
\* whatever the history remembers, the interval and the number of calls under way.
THEOREM AgentKeepsPace == AutonomySpec => [](AutonomyTypeOK /\ AgentPaced)
<1>1. AutonomyInit => AutonomyIInv  BY AutonomyInitInv
<1>2. AutonomyIInv /\ [AutonomyNext]_<<autonomyVars, now>> => AutonomyIInv'
  BY AutonomyStepInv
<1>3. AutonomyIInv => AutonomyTypeOK /\ AgentPaced  BY AutonomyInvImplies
<1> QED  BY <1>1, <1>2, <1>3, PTL DEF AutonomySpec

-----------------------------------------------------------------------------
(* The negotiation of prices.                                              *)

NegotiationIInv == NegotiationTypeOK /\ PriceFloor

NegotiationEntries ==
  [state : {"bid_sent", "counter_sent", "accepted", "rejected"}, ourBid : Nat,
   theirOffer : {0} \cup Prices, rounds : 1..MaxOffers, firstBid : FirstBids]

\* What PriceFloor says of one negotiation.
KeepsFloor(neg) ==
  /\ neg.ourBid = neg.firstBid \/ 2 * neg.ourBid + Grid >= 2 * MinPrice
  /\ neg.state = "accepted" => neg.theirOffer >= MinPrice
  /\ neg.rounds > MaxRounds => neg.state = "rejected"

LEMMA NoNegotiationApart == NoNegotiation \notin NegotiationEntries
<1>1. \A e \in NegotiationEntries : e.state # "none"  BY DEF NegotiationEntries
<1> QED  BY <1>1 DEF NoNegotiation

\* The invariant, entry by entry.
LEMMA NegotiationByEntry ==
  NegotiationIInv <=>
    /\ negotiations \in [NegotiatedTasks -> {NoNegotiation} \cup NegotiationEntries]
    /\ \A t \in NegotiatedTasks : negotiations[t] # NoNegotiation => KeepsFloor(negotiations[t])
BY DEF NegotiationIInv, NegotiationTypeOK, NegotiationEntries, PriceFloor, KeepsFloor

\* A change of one entry keeps the invariant.
LEMMA NegotiationEntrySet ==
  ASSUME NegotiationIInv, NEW t \in NegotiatedTasks, NEW e \in NegotiationEntries,
         KeepsFloor(e), negotiations' = [negotiations EXCEPT ![t] = e]
  PROVE  NegotiationIInv'
<1> HIDE DEF NegotiationEntries, KeepsFloor
<1>1. /\ negotiations \in [NegotiatedTasks -> {NoNegotiation} \cup NegotiationEntries]
      /\ \A u \in NegotiatedTasks : negotiations[u] # NoNegotiation => KeepsFloor(negotiations[u])
  BY NegotiationByEntry
<1>2. negotiations' \in [NegotiatedTasks -> {NoNegotiation} \cup NegotiationEntries]  BY <1>1
<1>3. \A u \in NegotiatedTasks : negotiations'[u] # NoNegotiation => KeepsFloor(negotiations'[u])
  BY <1>1
<1>4. \A u \in NegotiatedTasks :
        (negotiations[u] # NoNegotiation => KeepsFloor(negotiations[u]))' <=>
        (negotiations'[u] # NoNegotiation => KeepsFloor(negotiations'[u]))
  BY DEF KeepsFloor
<1> QED  BY <1>2, <1>3 DEF NegotiationIInv, NegotiationTypeOK, NegotiationEntries, PriceFloor,
                           KeepsFloor

LEMMA NegotiationInductive ==
  NegotiationIInv /\ [NegotiationNext]_negotiations => NegotiationIInv'
<1> SUFFICES ASSUME NegotiationIInv, [NegotiationNext]_negotiations PROVE NegotiationIInv'
  OBVIOUS
<1> USE NegotiationAssumption
<1>1. ASSUME NEW t \in NegotiatedTasks, NEW bid \in FirstBids, startNegotiation(t, bid)
      PROVE  NegotiationIInv'
  <2> DEFINE e == [state |-> "bid_sent", ourBid |-> bid, theirOffer |-> 0, rounds |-> 1,
                 firstBid |-> bid]
  <2>1. bid \in Nat  OBVIOUS
  <2>2. e \in NegotiationEntries /\ KeepsFloor(e)
    BY <2>1 DEF NegotiationEntries, KeepsFloor
  <2> QED  BY <1>1, <2>2, NegotiationEntrySet DEF startNegotiation
<1>2. ASSUME NEW t \in NegotiatedTasks, NEW offer \in Prices, handleCounter(t, offer)
      PROVE  NegotiationIInv'
  <2> DEFINE neg == negotiations[t]
  <2>1. neg \in NegotiationEntries /\ KeepsFloor(neg) /\ neg.rounds < MaxOffers
    BY <1>2, NegotiationByEntry DEF handleCounter
  <2>2. PICK o \in Outcome(neg, offer, neg.rounds + 1) :
          negotiations' = [negotiations EXCEPT ![t] =
            [state |-> o.state, ourBid |-> o.bid, theirOffer |-> offer,
             rounds |-> neg.rounds + 1, firstBid |-> neg.firstBid]]
    BY <1>2 DEF handleCounter
  <2>3. /\ neg.ourBid \in Nat /\ neg.rounds \in 1..MaxOffers /\ neg.firstBid \in FirstBids
        /\ neg.ourBid = neg.firstBid \/ 2 * neg.ourBid + Grid >= 2 * MinPrice
    BY <2>1 DEF NegotiationEntries, KeepsFloor
  <2> DEFINE n == neg.rounds + 1
  <2>4. n \in 1..MaxOffers /\ offer \in Nat  BY <2>1, <2>3
  <2> HIDE DEF neg, n
  <2>5. /\ o.state \in {"counter_sent", "accepted", "rejected"}
        /\ o.bid \in Nat /\ (o.bid = neg.firstBid \/ 2 * o.bid + Grid >= 2 * MinPrice)
        /\ o.state = "accepted" => offer >= MinPrice
        /\ n > MaxRounds => o.state = "rejected"
    <3>0. o \in Outcome(neg, offer, n)  BY <2>2 DEF n
    <3>1. CASE n > MaxRounds
      <4>1. o = [state |-> "rejected", bid |-> neg.ourBid]
        BY <2>4, <3>0, <3>1 DEF Outcome
      <4> QED  BY <2>3, <4>1
    <3>2. CASE n <= MaxRounds /\ offer >= MinPrice
      <4>1. o = [state |-> "accepted", bid |-> neg.ourBid]
        BY <2>4, <3>0, <3>2 DEF Outcome
      <4> QED  BY <2>3, <2>4, <3>2, <4>1
    <3>3. CASE n <= MaxRounds /\ offer < MinPrice /\ offer + neg.ourBid >= 2 * MinPrice
      <4>1. Outcome(neg, offer, n) =
              { [state |-> "counter_sent", bid |-> r] :
                  r \in { b \in 0..(offer + neg.ourBid + Grid) :
                            RoundedHalf(offer + neg.ourBid, b) } }
        BY <2>4, <3>3 DEF Outcome
      <4>2. PICK r \in 0..(offer + neg.ourBid + Grid) :
              o = [state |-> "counter_sent", bid |-> r] /\ RoundedHalf(offer + neg.ourBid, r)
        BY <3>0, <4>1
      <4>3. r \in Nat /\ offer + neg.ourBid <= 2 * r + Grid
        BY <2>3, <2>4, <4>2 DEF RoundedHalf
      <4> QED  BY <2>3, <2>4, <3>3, <4>2, <4>3
    <3>4. CASE n <= MaxRounds /\ offer < MinPrice /\ ~(offer + neg.ourBid >= 2 * MinPrice)
      <4>1. o = [state |-> "rejected", bid |-> neg.ourBid]
        BY <2>4, <3>0, <3>4 DEF Outcome
      <4> QED  BY <2>3, <2>4, <3>4, <4>1
    <3> QED  BY <2>4, <3>1, <3>2, <3>3, <3>4
  <2> DEFINE e == [state |-> o.state, ourBid |-> o.bid, theirOffer |-> offer, rounds |-> n,
                 firstBid |-> neg.firstBid]
  <2>6. e \in NegotiationEntries /\ KeepsFloor(e)
    BY <2>3, <2>4, <2>5 DEF NegotiationEntries, KeepsFloor
  <2>7. negotiations' = [negotiations EXCEPT ![t] = e]  BY <2>2 DEF n
  <2> HIDE DEF e
  <2> QED  BY <2>6, <2>7, NegotiationEntrySet
<1>3. CASE UNCHANGED negotiations
  BY <1>3 DEF NegotiationIInv, NegotiationTypeOK, PriceFloor
<1> QED  BY <1>1, <1>2, <1>3 DEF NegotiationNext

\* However often a negotiation is countered, closed and reopened, whatever is offered
\* and whatever it was started with, no counter-bid is below the floor and no offer
\* below it is accepted (startNegotiation, handleCounter).
THEOREM PriceStaysUp == NegotiationSpec => [](NegotiationTypeOK /\ PriceFloor)
<1>1. NegotiationInit => NegotiationIInv
  BY DEF NegotiationInit, NegotiationIInv, NegotiationTypeOK, PriceFloor
<1>2. NegotiationIInv => NegotiationTypeOK /\ PriceFloor  BY DEF NegotiationIInv
<1> QED  BY <1>1, <1>2, NegotiationInductive, PTL DEF NegotiationSpec

-----------------------------------------------------------------------------
(* The key files.                                                          *)

USE KeyFileAssumption

KeySteps == {"idle", "reading", "making", "writing", "returned", "failed"}

\* A call that makes a key has found no file, one that writes has emptied it, and
\* nobody else does either; both hold their own key.
Making(c) ==
  keyStep[c] \in {"making", "writing"} =>
    /\ keyFile = IF keyStep[c] = "making" THEN NoFile ELSE Empty
    /\ keyHeld[c] = c
    /\ \A o \in KeyCalls \ {c} : keyStep[o] \notin {"making", "writing"}

Returned(c) == keyStep[c] = "returned" => keyFile = keyHeld[c] /\ keyHeld[c] \in KeyCalls

Alone(c) == Making(c) /\ Returned(c)

KeyFileIInv == KeyFileTypeOK /\ (~keyOverlap => \A c \in KeyCalls : Alone(c))

\* The state of a step of one call, taken apart.
LEMMA OneCall ==
  ASSUME KeyFileIInv, NEW c \in KeyCalls, NEW s \in KeySteps,
         keyStep' = [keyStep EXCEPT ![c] = s]
  PROVE  /\ keyStep' \in [KeyCalls -> KeySteps]
         /\ keyStep'[c] = s /\ \A o \in KeyCalls \ {c} : keyStep'[o] = keyStep[o]
BY DEF KeyFileIInv, KeyFileTypeOK, KeySteps

LEMMA KeyFileInitially ==
  ASSUME KeyFileInit
  PROVE  KeyFileIInv
BY DEF KeyFileInit, KeyFileIInv, KeyFileTypeOK, KeySteps, Alone, Making, Returned

LEMMA KeyCallStep ==
  ASSUME KeyFileIInv, NEW c \in KeyCalls, KeyCall(c)
  PROVE  KeyFileIInv'
<1> DEFINE s == IF FileExists THEN "reading" ELSE "making"
<1>1. /\ keyStep[c] = "idle" /\ keyStep' = [keyStep EXCEPT ![c] = s]
      /\ keyHeld' = [keyHeld EXCEPT ![c] = IF FileExists THEN NoFile ELSE c]
      /\ keyOverlap' = (keyOverlap \/ KeyCallsAt({"making", "writing"}) # {})
      /\ keyFile' = keyFile
  BY DEF KeyCall
<1>2. keyHeld \in [KeyCalls -> KeyCalls \cup {NoFile}]  BY DEF KeyFileIInv, KeyFileTypeOK
<1>3. /\ keyStep'[c] = s /\ \A o \in KeyCalls \ {c} : keyStep'[o] = keyStep[o]
      /\ \A o \in KeyCalls \ {c} : keyHeld'[o] = keyHeld[o]
      /\ ~FileExists => keyHeld'[c] = c
  BY <1>1, <1>2, OneCall DEF KeySteps
<1>4. KeyFileTypeOK'
  <2>1. keyOverlap' \in BOOLEAN  BY <1>1 DEF KeyFileIInv, KeyFileTypeOK
  <2>2. keyHeld' \in [KeyCalls -> KeyCalls \cup {NoFile}]  BY <1>1, <1>2
  <2> QED  BY <1>1, <2>1, <2>2, OneCall DEF KeyFileIInv, KeyFileTypeOK, KeySteps
<1>5. ASSUME ~keyOverlap', NEW o \in KeyCalls
      PROVE  Alone(o)'
  <2>1. ~keyOverlap /\ \A p \in KeyCalls : keyStep[p] \notin {"making", "writing"} /\ Alone(p)
    BY <1>1, <1>5 DEF KeyFileIInv, KeyCallsAt
  <2>2. CASE o = c
    <3>1. s = "making" => keyFile = NoFile  BY DEF FileExists
    <3> QED  BY <1>1, <1>3, <2>1, <2>2, <3>1 DEF Alone, Making, Returned
  <2>3. CASE o # c
    BY <1>1, <1>3, <2>1, <2>3 DEF Alone, Making, Returned
  <2> QED  BY <2>2, <2>3
<1> QED  BY <1>4, <1>5 DEF KeyFileIInv

LEMMA KeyReadStep ==
  ASSUME KeyFileIInv, NEW c \in KeyCalls, ReadKey(c)
  PROVE  KeyFileIInv'
<1>1. keyStep[c] = "reading" /\ keyFile' = keyFile /\ keyOverlap' = keyOverlap
  BY DEF ReadKey
<1>2. CASE keyFile \in KeyCalls
  <2>1. /\ keyStep' = [keyStep EXCEPT ![c] = "returned"]
        /\ keyHeld' = [keyHeld EXCEPT ![c] = keyFile]
    BY <1>2 DEF ReadKey
  <2>2. keyHeld \in [KeyCalls -> KeyCalls \cup {NoFile}]  BY DEF KeyFileIInv, KeyFileTypeOK
  <2>3. /\ keyStep'[c] = "returned" /\ keyHeld'[c] = keyFile
        /\ \A o \in KeyCalls \ {c} : keyStep'[o] = keyStep[o] /\ keyHeld'[o] = keyHeld[o]
    BY <2>1, <2>2, OneCall DEF KeySteps
  <2>4. KeyFileTypeOK'
    <3>1. keyHeld' \in [KeyCalls -> KeyCalls \cup {NoFile}]  BY <1>2, <2>1, <2>2
    <3> QED  BY <1>1, <2>1, <3>1, OneCall DEF KeyFileIInv, KeyFileTypeOK, KeySteps
  <2>5. ASSUME ~keyOverlap, NEW o \in KeyCalls
        PROVE  Alone(o)'
    <3>1. Alone(o)  BY <2>5 DEF KeyFileIInv
    <3>2. CASE o = c  BY <1>1, <1>2, <2>3, <3>2 DEF Alone, Making, Returned
    <3>3. CASE o # c  BY <1>1, <2>3, <3>1, <3>3 DEF Alone, Making, Returned
    <3> QED  BY <3>2, <3>3
  <2> QED  BY <1>1, <2>4, <2>5 DEF KeyFileIInv
<1>3. CASE keyFile \notin KeyCalls
  <2>1. keyStep' = [keyStep EXCEPT ![c] = "failed"] /\ keyHeld' = keyHeld
    BY <1>3 DEF ReadKey
  <2>2. /\ keyStep'[c] = "failed" /\ \A o \in KeyCalls \ {c} : keyStep'[o] = keyStep[o]
        /\ KeyFileTypeOK'
    BY <1>1, <2>1, OneCall DEF KeyFileIInv, KeyFileTypeOK, KeySteps
  <2>3. \A o \in KeyCalls : Alone(o) => Alone(o)'
    BY <1>1, <2>1, <2>2 DEF Alone, Making, Returned
  <2> QED  BY <1>1, <2>2, <2>3 DEF KeyFileIInv
<1> QED  BY <1>2, <1>3

LEMMA OpenStep ==
  ASSUME KeyFileIInv, NEW c \in KeyCalls, OpenKeyFile(c)
  PROVE  KeyFileIInv'
<1>1. /\ keyStep[c] = "making" /\ keyStep' = [keyStep EXCEPT ![c] = "writing"]
      /\ keyFile' = Empty /\ keyHeld' = keyHeld /\ keyOverlap' = keyOverlap
  BY DEF OpenKeyFile
<1>2. /\ keyStep'[c] = "writing" /\ \A o \in KeyCalls \ {c} : keyStep'[o] = keyStep[o]
      /\ KeyFileTypeOK'
  BY <1>1, OneCall DEF KeyFileIInv, KeyFileTypeOK, KeySteps
<1>3. ASSUME ~keyOverlap, NEW o \in KeyCalls
      PROVE  Alone(o)'
  <2>1. Alone(o) /\ Alone(c)  BY <1>3 DEF KeyFileIInv
  <2>2. keyFile = NoFile /\ keyHeld[c] = c
        /\ \A p \in KeyCalls \ {c} : keyStep[p] \notin {"making", "writing"}
    BY <1>1, <2>1 DEF Alone, Making
  <2>3. CASE o = c  BY <1>1, <1>2, <2>2, <2>3 DEF Alone, Making, Returned
  <2>4. CASE o # c
    <3>1. keyStep[o] # "returned"  BY <2>1, <2>2 DEF Alone, Returned
    <3> QED  BY <1>1, <1>2, <2>2, <2>4, <3>1 DEF Alone, Making, Returned
  <2> QED  BY <2>3, <2>4
<1> QED  BY <1>1, <1>2, <1>3 DEF KeyFileIInv

LEMMA WriteStep ==
  ASSUME KeyFileIInv, NEW c \in KeyCalls, WriteKey(c)
  PROVE  KeyFileIInv'
<1>1. /\ keyStep[c] = "writing" /\ keyStep' = [keyStep EXCEPT ![c] = "returned"]
      /\ keyFile' \in {c} \cup (IF keyFile = Empty THEN {} ELSE {Garbled})
      /\ keyHeld' = keyHeld /\ keyOverlap' = keyOverlap
  BY DEF WriteKey
<1>2. /\ keyStep'[c] = "returned" /\ \A o \in KeyCalls \ {c} : keyStep'[o] = keyStep[o]
      /\ KeyFileTypeOK'
  BY <1>1, OneCall DEF KeyFileIInv, KeyFileTypeOK, KeySteps
<1>3. ASSUME ~keyOverlap, NEW o \in KeyCalls
      PROVE  Alone(o)'
  <2>1. Alone(o) /\ Alone(c)  BY <1>3 DEF KeyFileIInv
  <2>2. /\ keyFile = Empty /\ keyHeld[c] = c /\ keyFile' = c
        /\ \A p \in KeyCalls \ {c} : keyStep[p] \notin {"making", "writing"}
    BY <1>1, <2>1 DEF Alone, Making
  <2>3. CASE o = c  BY <1>1, <1>2, <2>2, <2>3 DEF Alone, Making, Returned
  <2>4. CASE o # c
    <3>1. keyStep[o] # "returned"  BY <2>1, <2>2 DEF Alone, Returned
    <3> QED  BY <1>1, <1>2, <2>2, <2>4, <3>1 DEF Alone, Making, Returned
  <2> QED  BY <2>3, <2>4
<1> QED  BY <1>1, <1>2, <1>3 DEF KeyFileIInv

\* Calls fail; the file stays as it was.
LEMMA FailStep ==
  ASSUME KeyFileIInv, UNCHANGED <<keyFile, keyHeld, keyOverlap>>,
         keyStep' \in [KeyCalls -> KeySteps],
         \A o \in KeyCalls : keyStep'[o] \in {keyStep[o], "failed"}
  PROVE  KeyFileIInv'
<1>1. KeyFileTypeOK'  BY DEF KeyFileIInv, KeyFileTypeOK, KeySteps
<1>2. ASSUME ~keyOverlap, NEW o \in KeyCalls
      PROVE  Alone(o)'
  BY <1>2 DEF KeyFileIInv, Alone, Making, Returned
<1> QED  BY <1>1, <1>2 DEF KeyFileIInv

LEMMA KeyFileInductive ==
  ASSUME KeyFileIInv, [KeyFileNext]_keyFileVars
  PROVE  KeyFileIInv'
<1>1. CASE UNCHANGED keyFileVars
  BY <1>1 DEF KeyFileIInv, KeyFileTypeOK, KeySteps, Alone, Making, Returned, keyFileVars
<1>2. ASSUME NEW c \in KeyCalls, KeyCallFails(c)
      PROVE  KeyFileIInv'
  <2>1. keyStep' = [keyStep EXCEPT ![c] = "failed"]  BY <1>2 DEF KeyCallFails
  <2>2. /\ keyStep'[c] = "failed" /\ \A o \in KeyCalls \ {c} : keyStep'[o] = keyStep[o]
        /\ keyStep' \in [KeyCalls -> KeySteps]
    BY <2>1, OneCall DEF KeySteps
  <2> QED  BY <1>2, <2>2, FailStep DEF KeyCallFails
<1>3. CASE KeyCrash
  <2>1. /\ keyStep' \in [KeyCalls -> KeySteps]
        /\ \A o \in KeyCalls : keyStep'[o] \in {keyStep[o], "failed"}
    BY <1>3 DEF KeyCrash, KeyFileIInv, KeyFileTypeOK, KeySteps
  <2> QED  BY <1>3, <2>1, FailStep DEF KeyCrash
<1> QED
  BY <1>1, <1>2, <1>3, KeyCallStep, KeyReadStep, OpenStep, WriteStep DEF KeyFileNext

-----------------------------------------------------------------------------
(* The theorems.                                                           *)

LEMMA KeyFileInvImplies ==
  ASSUME KeyFileIInv
  PROVE  KeyFileTypeOK /\ KeyStays
BY DEF KeyFileIInv, Alone, Returned, KeyStays

\* The inductive invariant holds for any number of calls.
THEOREM KeyFileInvariant == KeyFileSpec => []KeyFileIInv
<1>1. KeyFileInit => KeyFileIInv  BY KeyFileInitially
<1>2. KeyFileIInv /\ [KeyFileNext]_keyFileVars => KeyFileIInv'  BY KeyFileInductive
<1> QED  BY <1>1, <1>2, PTL DEF KeyFileSpec

\* A key that a call has returned is the key in the file from then on, whatever
\* fails or crashes, unless a call began while another made its key
\* (loadOrGenerateKeypair, loadOrCreateWallet, loadOrCreateRSAKeypair).
THEOREM IdentityStays == KeyFileSpec => []KeyStays
<1>1. KeyFileIInv => KeyStays  BY KeyFileInvImplies
<1> QED  BY <1>1, KeyFileInvariant, PTL

HIDE KeyFileAssumption

-----------------------------------------------------------------------------
(* The inbox.                                                              *)

IsChange(p) ==
  \/ p.kind = "Follow" /\ p.answer = 200
  \/ p.kind = "UndoFollow" /\ p.answer = 202

\* FollowChanges of any sequence of requests.
ChangesIn(s, x) == { i \in 1..Len(s) : s[i].actor = x /\ IsChange(s[i]) }

\* The last word of x is that it follows.
LastSaysFollow(s, x) ==
  \E i \in ChangesIn(s, x) : s[i].kind = "Follow" /\ \A j \in ChangesIn(s, x) : j <= i

\* An actor without an overlap has one request under way, its latest.
OneAtATime(s, x) ==
  \A i, j \in 1..Len(s) :
    i < j /\ s[i].actor = x /\ s[j].actor = x => s[i].waitsFor = "nothing"

ToldSo(x) == x \in followers => \E i \in ChangesIn(posts, x) : posts[i].kind = "Follow"

InOrder(x) ==
  x \notin apOverlap =>
    OneAtATime(posts, x) /\ (x \in followers <=> LastSaysFollow(posts, x))

PostsShape ==
  /\ posts \in Seq(Posts) /\ Len(posts) <= MaxPosts
  /\ \A i \in 1..Len(posts) :
       /\ (posts[i].waitsFor = "nothing") <=> (posts[i].answer # 0)
       /\ posts[i].waitsFor = "handler" => posts[i].kind = "DirectMessage"
  /\ followers \subseteq ApActors /\ apOverlap \subseteq ApActors

InboxIInv ==
  /\ PostsShape
  /\ \A x \in ApActors : ToldSo(x) /\ InOrder(x)

LEMMA InboxTypes ==
  ASSUME InboxIInv
  PROVE  /\ posts \in Seq(Posts) /\ Len(posts) \in Nat /\ DOMAIN posts = 1..Len(posts)
         /\ \A i \in 1..Len(posts) : posts[i] \in Posts
         /\ \A x : FollowChanges(x) = ChangesIn(posts, x)
<1>1. posts \in Seq(Posts)  BY DEF InboxIInv, PostsShape
<1>2. Len(posts) \in Nat /\ DOMAIN posts = 1..Len(posts)  BY <1>1, LenProperties
<1>3. \A i \in 1..Len(posts) : posts[i] \in Posts  BY <1>1, ElementOfSeq
<1> QED  BY <1>1, <1>2, <1>3 DEF FollowChanges, ChangesIn, IsChange

\* One request that waited has gone on: it waits for w or is answered with a.
PostChanged(i, w, a) ==
  /\ posts' \in Seq(Posts) /\ Len(posts') = Len(posts) /\ DOMAIN posts' = 1..Len(posts)
  /\ \A j \in 1..Len(posts) : j # i => posts'[j] = posts[j]
  /\ posts'[i].actor = posts[i].actor /\ posts'[i].kind = posts[i].kind
  /\ posts'[i].waitsFor = w /\ posts'[i].answer = a

LEMMA AnswerChanges ==
  ASSUME InboxIInv, NEW i \in 1..Len(posts), NEW a \in {200, 202, 400, 401, 500},
         Reply(i, a)
  PROVE  PostChanged(i, "nothing", a)
<1>1. posts \in [1..Len(posts) -> Posts] /\ Len(posts) \in Nat
  BY InboxTypes, LenProperties
<1>2. posts' = [posts EXCEPT ![i].waitsFor = "nothing", ![i].answer = a]  BY DEF Reply
<1>3. posts[i] \in Posts /\ a \in {0, 200, 202, 400, 401, 500}  BY <1>1
<1> DEFINE q == [posts EXCEPT ![i].waitsFor = "nothing"]
<1>4. /\ q \in [1..Len(posts) -> Posts] /\ \A j \in 1..Len(posts) : j # i => q[j] = posts[j]
      /\ q[i].actor = posts[i].actor /\ q[i].kind = posts[i].kind /\ q[i].waitsFor = "nothing"
  BY <1>1, <1>3 DEF Posts
<1>5. posts' = [q EXCEPT ![i].answer = a]  BY <1>2
<1> HIDE DEF q
<1>6. /\ posts' \in [1..Len(posts) -> Posts]
      /\ \A j \in 1..Len(posts) : j # i => posts'[j] = posts[j]
      /\ posts'[i].actor = posts[i].actor /\ posts'[i].kind = posts[i].kind
      /\ posts'[i].waitsFor = "nothing" /\ posts'[i].answer = a
  BY <1>3, <1>4, <1>5 DEF Posts
<1>7. posts' \in Seq(Posts) /\ Len(posts') = Len(posts)  BY <1>1, <1>6, SeqDef, LenProperties
<1>8. DOMAIN posts' = 1..Len(posts)  BY <1>6
<1> QED  BY <1>6, <1>7, <1>8 DEF PostChanged

LEMMA WaitChanges ==
  ASSUME InboxIInv, NEW i \in 1..Len(posts), posts[i].waitsFor # "nothing",
         NEW w \in Waiting, posts' = [posts EXCEPT ![i].waitsFor = w]
  PROVE  PostChanged(i, w, 0)
<1>1. posts \in [1..Len(posts) -> Posts] /\ Len(posts) \in Nat
  BY InboxTypes, LenProperties
<1>2. posts[i].answer = 0  BY DEF InboxIInv, PostsShape
<1> DEFINE p == [signer |-> posts[i].signer, actor |-> posts[i].actor,
                 kind |-> posts[i].kind, waitsFor |-> w, answer |-> 0]
<1>3. p \in Posts /\ posts' = [posts EXCEPT ![i] = p]
  <2>1. posts[i] \in Posts  BY <1>1
  <2>2. p = [posts[i] EXCEPT !.waitsFor = w]  BY <1>2, <2>1 DEF Posts
  <2>3. p \in Posts  BY <2>1 DEF Posts
  <2> QED  BY <1>1, <2>2, <2>3
<1>4. p.actor = posts[i].actor /\ p.kind = posts[i].kind /\ p.waitsFor = w /\ p.answer = 0
  OBVIOUS
<1> HIDE DEF p
<1>5. posts' \in [1..Len(posts) -> Posts] /\ posts'[i] = p  BY <1>1, <1>3
<1>6. \A j \in 1..Len(posts) : j # i => posts'[j] = posts[j]  BY <1>1, <1>3
<1>7. posts' \in Seq(Posts) /\ Len(posts') = Len(posts)  BY <1>1, <1>5, SeqDef, LenProperties
<1> QED  BY <1>4, <1>5, <1>6, <1>7 DEF PostChanged

\* What follows for all requests from the change of one.
LEMMA PostsAfter ==
  ASSUME InboxIInv, NEW i \in 1..Len(posts), posts[i].waitsFor # "nothing",
         NEW w, NEW a, PostChanged(i, w, a), (w = "nothing") <=> (a # 0),
         w = "handler" => posts[i].kind = "DirectMessage",
         followers' \subseteq ApActors, apOverlap' = apOverlap
  PROVE  /\ PostsShape'
         /\ \A x : OneAtATime(posts, x) => OneAtATime(posts', x)
         /\ \A x, j : j \in ChangesIn(posts', x) <=>
              \/ j \in ChangesIn(posts, x)
              \/ j = i /\ x = posts[i].actor /\ IsChange(posts'[i])
<1>1. /\ posts' \in Seq(Posts) /\ Len(posts') = Len(posts) /\ DOMAIN posts' = 1..Len(posts)
      /\ \A j \in 1..Len(posts) : j # i => posts'[j] = posts[j]
      /\ posts'[i].actor = posts[i].actor /\ posts'[i].kind = posts[i].kind
      /\ posts'[i].waitsFor = w /\ posts'[i].answer = a
  BY DEF PostChanged
<1>2. PostsShape'  BY <1>1 DEF InboxIInv, PostsShape
<1>3. ASSUME NEW x, OneAtATime(posts, x)  PROVE OneAtATime(posts', x)
  <2> SUFFICES ASSUME NEW j \in 1..Len(posts), NEW k \in 1..Len(posts), j < k,
                      posts'[j].actor = x, posts'[k].actor = x
               PROVE  posts'[j].waitsFor = "nothing"
    BY <1>1 DEF OneAtATime
  <2>1. posts[j].actor = x /\ posts[k].actor = x  BY <1>1
  <2>2. posts[j].waitsFor = "nothing"  BY <1>3, <2>1 DEF OneAtATime
  <2> QED  BY <1>1, <2>2
<1>4. ASSUME NEW x, NEW j
      PROVE  j \in ChangesIn(posts', x) <=>
               \/ j \in ChangesIn(posts, x)
               \/ j = i /\ x = posts[i].actor /\ IsChange(posts'[i])
  <2>1. j \in ChangesIn(posts', x) <=>
          j \in 1..Len(posts) /\ posts'[j].actor = x /\ IsChange(posts'[j])
    BY <1>1 DEF ChangesIn
  <2>2. j \in ChangesIn(posts, x) <=>
          j \in 1..Len(posts) /\ posts[j].actor = x /\ IsChange(posts[j])
    BY DEF ChangesIn
  <2>3. ~IsChange(posts[i])
    <3>1. posts[i].answer = 0  BY DEF InboxIInv, PostsShape
    <3> QED  BY <3>1 DEF IsChange
  <2> QED  BY <1>1, <2>1, <2>2, <2>3
<1> QED  BY <1>2, <1>3, <1>4

\* A request goes on, or is answered without a change of the followers.
LEMMA SilentStep ==
  ASSUME InboxIInv, NEW i \in 1..Len(posts), posts[i].waitsFor # "nothing",
         NEW w, NEW a, PostChanged(i, w, a), (w = "nothing") <=> (a # 0),
         w = "handler" => posts[i].kind = "DirectMessage", ~IsChange(posts'[i]),
         UNCHANGED <<followers, apOverlap>>
  PROVE  InboxIInv'
<1>1. followers' \subseteq ApActors  BY DEF InboxIInv, PostsShape
<1>2. /\ PostsShape'
      /\ \A x : OneAtATime(posts, x) => OneAtATime(posts', x)
      /\ \A x, j : j \in ChangesIn(posts', x) <=> j \in ChangesIn(posts, x)
  BY <1>1, PostsAfter
<1>3. \A j \in 1..Len(posts) : posts'[j].kind = posts[j].kind  BY DEF PostChanged
<1>4. ASSUME NEW x \in ApActors  PROVE ToldSo(x)' /\ InOrder(x)'
  <2>1. ToldSo(x) /\ InOrder(x)  BY DEF InboxIInv
  <2>2. ChangesIn(posts', x) = ChangesIn(posts, x)
    <3>1. \A j : j \in ChangesIn(posts', x) <=> j \in ChangesIn(posts, x)  BY <1>2
    <3> QED  BY <3>1
  <2>3. \A j \in ChangesIn(posts, x) : posts'[j].kind = posts[j].kind
    BY <1>3 DEF ChangesIn
  <2>4. LastSaysFollow(posts', x) <=> LastSaysFollow(posts, x)  BY <2>2, <2>3 DEF LastSaysFollow
  <2> QED  BY <1>2, <2>1, <2>2, <2>3, <2>4 DEF ToldSo, InOrder
<1> QED  BY <1>2, <1>4 DEF InboxIInv

\* A Follow or the Undo of one is handled.
LEMMA ChangeStep ==
  ASSUME InboxIInv, NEW i \in 1..Len(posts), posts[i].waitsFor # "nothing",
         NEW a, PostChanged(i, "nothing", a), a # 0,
         IsChange(posts'[i]),
         followers' = IF posts[i].kind = "Follow" THEN followers \cup {posts[i].actor}
                      ELSE followers \ {posts[i].actor},
         apOverlap' = apOverlap
  PROVE  InboxIInv'
<1>0. PICK y : y = posts[i].actor  OBVIOUS
<1>1. y \in ApActors  BY <1>0, InboxTypes DEF Posts
<1>2. followers' \subseteq ApActors  BY <1>0, <1>1 DEF InboxIInv, PostsShape
<1>3. /\ PostsShape'
      /\ \A x : OneAtATime(posts, x) => OneAtATime(posts', x)
      /\ \A x, j : j \in ChangesIn(posts', x) <=> j \in ChangesIn(posts, x) \/ (j = i /\ x = y)
  BY <1>0, <1>2, PostsAfter
<1>4. \A j \in 1..Len(posts) : posts'[j].kind = posts[j].kind  BY DEF PostChanged
<1>5. ASSUME NEW x \in ApActors, x # y  PROVE ToldSo(x)' /\ InOrder(x)'
  <2>1. ToldSo(x) /\ InOrder(x)  BY DEF InboxIInv
  <2>2. ChangesIn(posts', x) = ChangesIn(posts, x)
    <3>1. \A j : j \in ChangesIn(posts', x) <=> j \in ChangesIn(posts, x)  BY <1>3, <1>5
    <3> QED  BY <3>1
  <2>3. \A j \in ChangesIn(posts, x) : posts'[j].kind = posts[j].kind
    BY <1>4 DEF ChangesIn
  <2>4. LastSaysFollow(posts', x) <=> LastSaysFollow(posts, x)  BY <2>2, <2>3 DEF LastSaysFollow
  <2>5. x \in followers' <=> x \in followers  BY <1>0, <1>5
  <2> QED  BY <1>3, <2>1, <2>2, <2>3, <2>4, <2>5 DEF ToldSo, InOrder
<1>6. i \in ChangesIn(posts', y) /\ posts'[i].kind = posts[i].kind  BY <1>3, <1>4
<1>7. ToldSo(y)'
  <2>1. CASE posts[i].kind = "Follow"  BY <1>6, <2>1 DEF ToldSo
  <2>2. CASE posts[i].kind # "Follow"
    <3>1. y \notin followers'  BY <1>0, <2>2
    <3> QED  BY <3>1 DEF ToldSo
  <2> QED  BY <2>1, <2>2
<1>8. ASSUME y \notin apOverlap'  PROVE y \in followers' <=> LastSaysFollow(posts', y)
  <2>1. OneAtATime(posts, y)  BY <1>1, <1>8 DEF InboxIInv, InOrder
  <2>2. \A j \in ChangesIn(posts', y) : j <= i
    <3> TAKE j \in ChangesIn(posts', y)
    <3>1. CASE j = i  BY <3>1
    <3>2. CASE j \in ChangesIn(posts, y)
      <4>1. j \in 1..Len(posts) /\ posts[j].actor = y  BY <3>2 DEF ChangesIn
      <4>2. ~(i < j)  BY <1>0, <2>1, <4>1 DEF OneAtATime
      <4> QED  BY <4>1, <4>2, InboxTypes
    <3> QED  BY <1>3, <3>1, <3>2
  <2>3. \A j \in ChangesIn(posts', y) : i <= j => j = i
    <3> TAKE j \in ChangesIn(posts', y)
    <3>1. j \in 1..Len(posts)  BY <1>3, ZenonT(40) DEF ChangesIn
    <3> QED  BY <2>2, <3>1
  <2>4. LastSaysFollow(posts', y) <=> posts[i].kind = "Follow"
    BY <1>6, <2>2, <2>3 DEF LastSaysFollow
  <2> QED  BY <1>0, <2>4
<1>9. InOrder(y)'
  <2>1. y \notin apOverlap' => OneAtATime(posts', y)
    BY <1>1, <1>3 DEF InboxIInv, InOrder
  <2> QED  BY <1>8, <2>1 DEF InOrder
<1> QED  BY <1>3, <1>5, <1>7, <1>9 DEF InboxIInv

\* What the inbox does with a request that waited.
LEMMA ActivityStep ==
  ASSUME InboxIInv, NEW i \in 1..Len(posts), posts[i].waitsFor \in {"body", "key"},
         receive(i), UNCHANGED apOverlap
  PROVE  InboxIInv'
<1>1. posts[i].waitsFor # "nothing" /\ posts[i].kind \in Kinds  BY InboxTypes DEF Posts
<1>2. CASE posts[i].kind = "Follow"
  <2>1. Reply(i, 200) /\ followers' = followers \cup {posts[i].actor}
    BY <1>2 DEF receive, handleFollow
  <2>2. PostChanged(i, "nothing", 200)  BY <2>1, AnswerChanges
  <2>3. IsChange(posts'[i])  BY <1>2, <2>2 DEF PostChanged, IsChange
  <2> QED  BY <1>1, <1>2, <2>1, <2>2, <2>3, ChangeStep
<1>3. CASE posts[i].kind = "UndoFollow"
  <2>1. Reply(i, 202) /\ followers' = followers \ {posts[i].actor}
    BY <1>3 DEF receive, handleUndo
  <2>2. PostChanged(i, "nothing", 202)  BY <2>1, AnswerChanges
  <2>3. IsChange(posts'[i])  BY <1>3, <2>2 DEF PostChanged, IsChange
  <2> QED  BY <1>1, <1>3, <2>1, <2>2, <2>3, ChangeStep
<1>4. CASE posts[i].kind = "DirectMessage"
  <2>1. /\ UNCHANGED followers
        /\ IF HasTaskHandler THEN posts' = [posts EXCEPT ![i].waitsFor = "handler"]
           ELSE Reply(i, 202)
    BY <1>4 DEF receive, handleDirectMessage
  <2>2. CASE HasTaskHandler
    <3>1. PostChanged(i, "handler", 0)  BY <1>1, <2>1, <2>2, WaitChanges DEF Waiting
    <3>2. ~IsChange(posts'[i])  BY <3>1 DEF PostChanged, IsChange
    <3> QED  BY <1>1, <1>4, <2>1, <3>1, <3>2, SilentStep
  <2>3. CASE ~HasTaskHandler
    <3>1. PostChanged(i, "nothing", 202)  BY <2>1, <2>3, AnswerChanges
    <3>2. ~IsChange(posts'[i])  BY <1>4, <3>1 DEF PostChanged, IsChange
    <3> QED  BY <1>1, <2>1, <3>1, <3>2, SilentStep
  <2> QED  BY <2>2, <2>3
<1>5. CASE posts[i].kind \in {"acknowledged", "refused", "throws"}
  <2>1. PICK a \in {202, 400, 500} : Reply(i, a) /\ UNCHANGED followers
    BY <1>5, ZenonT(40) DEF receive
  <2>2. PostChanged(i, "nothing", a)  BY <2>1, AnswerChanges
  <2>3. ~IsChange(posts'[i])  BY <1>5, <2>2 DEF PostChanged, IsChange
  <2>4. ("nothing" = "nothing") <=> (a # 0)  BY <2>1
  <2> QED  BY <1>1, <2>1, <2>2, <2>3, <2>4, SilentStep
<1> QED  BY <1>1, <1>2, <1>3, <1>4, <1>5 DEF Kinds

\* A request that is turned away, or whose handler has answered.
LEMMA AnswerStep ==
  ASSUME InboxIInv, NEW i \in 1..Len(posts), NEW a \in {200, 400, 401}, Reply(i, a),
         posts[i].waitsFor # "nothing", a = 200 => posts[i].waitsFor = "handler",
         UNCHANGED <<followers, apOverlap>>
  PROVE  InboxIInv'
<1>1. PostChanged(i, "nothing", a)  BY AnswerChanges
<1>2. a = 200 => posts[i].kind = "DirectMessage"  BY DEF InboxIInv, PostsShape
<1>3. ~IsChange(posts'[i])  BY <1>1, <1>2 DEF PostChanged, IsChange
<1>4. ("nothing" = "nothing") <=> (a # 0)  OBVIOUS
<1> QED  BY <1>1, <1>3, <1>4, SilentStep

LEMMA RequestStep ==
  ASSUME InboxIInv, NEW i \in DOMAIN posts,
         \/ BodyRead(i) \/ BodyUnusable(i) \/ SignatureVerified(i)
         \/ SignatureRejected(i) \/ TaskRequestAnswered(i)
  PROVE  InboxIInv'
<1>1. i \in 1..Len(posts)  BY InboxTypes
<1>2. CASE BodyRead(i)
  <2>1. /\ posts[i].waitsFor = "body" /\ apOverlap' = apOverlap
        /\ \/ posts' = [posts EXCEPT ![i].waitsFor = "key"] /\ UNCHANGED followers
           \/ Reply(i, 401) /\ UNCHANGED followers
           \/ receive(i)
    BY <1>2 DEF BodyRead
  <2>2. CASE posts' = [posts EXCEPT ![i].waitsFor = "key"] /\ UNCHANGED followers
    <3>1. PostChanged(i, "key", 0)  BY <1>1, <2>1, <2>2, WaitChanges DEF Waiting
    <3>2. ~IsChange(posts'[i])  BY <3>1 DEF PostChanged, IsChange
    <3> QED  BY <1>1, <2>1, <2>2, <3>1, <3>2, SilentStep
  <2>3. CASE Reply(i, 401) /\ UNCHANGED followers  BY <1>1, <2>1, <2>3, AnswerStep
  <2>4. CASE receive(i)  BY <1>1, <2>1, <2>4, ActivityStep
  <2> QED  BY <2>1, <2>2, <2>3, <2>4
<1>3. CASE BodyUnusable(i)  BY <1>1, <1>3, AnswerStep DEF BodyUnusable
<1>4. CASE SignatureVerified(i)  BY <1>1, <1>4, ActivityStep DEF SignatureVerified
<1>5. CASE SignatureRejected(i)  BY <1>1, <1>5, AnswerStep DEF SignatureRejected
<1>6. CASE TaskRequestAnswered(i)  BY <1>1, <1>6, AnswerStep DEF TaskRequestAnswered
<1> QED  BY <1>2, <1>3, <1>4, <1>5, <1>6

LEMMA PostStep ==
  ASSUME InboxIInv, NEW z \in ApSigners, NEW y \in ApActors, NEW kind \in Kinds,
         handlePostInbox(z, y, kind)
  PROVE  InboxIInv'
<1> DEFINE p == [signer |-> z, actor |-> y, kind |-> kind, waitsFor |-> "body", answer |-> 0]
           n == Len(posts) + 1
<1>1. /\ Len(posts) < MaxPosts /\ posts' = Append(posts, p)
      /\ apOverlap' = apOverlap \cup
           {x \in {y} : \E i \in DOMAIN posts :
                           posts[i].actor = x /\ posts[i].waitsFor # "nothing"}
      /\ followers' = followers
  BY DEF handlePostInbox
<1>2. p \in Posts /\ p.actor = y /\ p.waitsFor = "body" /\ p.answer = 0 /\ ~IsChange(p)
  BY DEF Posts, Waiting, IsChange
<1> HIDE DEF p
<1>3. /\ posts' \in Seq(Posts) /\ Len(posts') = n /\ posts'[n] = p
      /\ \A i \in 1..Len(posts) : posts'[i] = posts[i]
  BY <1>1, <1>2, InboxTypes, AppendProperties
<1>4. n \in Nat /\ \A i \in 1..n : i = n \/ i \in 1..Len(posts)
  BY InboxTypes
<1>5. \A i \in 1..Len(posts) : i \in 1..n /\ i < n  BY InboxTypes
<1>6. n \in 1..n  BY InboxTypes
<1> HIDE DEF n
<1>7. PostsShape'
  <2>1. Len(posts') <= MaxPosts  BY <1>1, <1>3, InboxTypes, InboxAssumption DEF n
  <2>2. \A i \in 1..Len(posts') :
          /\ (posts'[i].waitsFor = "nothing") <=> (posts'[i].answer # 0)
          /\ posts'[i].waitsFor = "handler" => posts'[i].kind = "DirectMessage"
    BY <1>2, <1>3, <1>4 DEF InboxIInv, PostsShape
  <2>3. apOverlap' \subseteq ApActors  BY <1>1 DEF InboxIInv, PostsShape
  <2> QED  BY <1>1, <1>3, <2>1, <2>2, <2>3 DEF InboxIInv, PostsShape
<1>8. ASSUME NEW x \in ApActors  PROVE ToldSo(x)' /\ InOrder(x)'
  <2>1. ToldSo(x) /\ InOrder(x)  BY DEF InboxIInv
  <2>2. ChangesIn(posts', x) = ChangesIn(posts, x)
    <3>1. \A i : i \in ChangesIn(posts', x) <=> i \in ChangesIn(posts, x)
      BY <1>2, <1>3, <1>4, <1>5 DEF ChangesIn
    <3> QED  BY <3>1
  <2>3. \A i \in ChangesIn(posts, x) : posts'[i] = posts[i]  BY <1>3 DEF ChangesIn
  <2>4. LastSaysFollow(posts', x) <=> LastSaysFollow(posts, x)
    BY <2>2, <2>3 DEF LastSaysFollow
  <2>5. x \notin apOverlap' => x \notin apOverlap  BY <1>1
  <2>6. ASSUME x \notin apOverlap'  PROVE OneAtATime(posts', x)
    <3>1. OneAtATime(posts, x)  BY <2>1, <2>5, <2>6 DEF InOrder
    <3>2. x = y => \A i \in 1..Len(posts) : posts[i].actor = x => posts[i].waitsFor = "nothing"
      BY <1>1, <2>6, InboxTypes
    <3> SUFFICES ASSUME NEW i \in 1..n, NEW j \in 1..n, i < j,
                        posts'[i].actor = x, posts'[j].actor = x
                 PROVE  posts'[i].waitsFor = "nothing"
      BY <1>3 DEF OneAtATime
    <3>3. i \in 1..Len(posts) /\ posts'[i] = posts[i]
      <4>1. i # n  BY <1>4
      <4> QED  BY <1>3, <1>4, <4>1
    <3>4. CASE j \in 1..Len(posts)
      <4>1. posts'[j] = posts[j]  BY <1>3, <3>4
      <4> QED  BY <3>1, <3>3, <3>4, <4>1 DEF OneAtATime
    <3>5. CASE j = n
      <4>1. x = y  BY <1>2, <1>3, <3>5
      <4> QED  BY <3>2, <3>3, <4>1
    <3> QED  BY <1>4, <3>4, <3>5
  <2> QED  BY <1>1, <2>1, <2>2, <2>3, <2>4, <2>5, <2>6 DEF ToldSo, InOrder
<1> QED  BY <1>7, <1>8 DEF InboxIInv

LEMMA InboxInitInv ==
  ASSUME InboxInit
  PROVE  InboxIInv
<1>1. posts = <<>> /\ followers = {} /\ apOverlap = {}  BY DEF InboxInit
<1>2. <<>> \in Seq(Posts) /\ Len(<<>>) = 0  BY EmptySeq
<1>3. PostsShape  BY <1>1, <1>2, InboxAssumption DEF PostsShape
<1>4. \A x : ChangesIn(posts, x) = {} /\ OneAtATime(posts, x)
  BY <1>1, <1>2 DEF ChangesIn, OneAtATime
<1> QED  BY <1>1, <1>3, <1>4 DEF InboxIInv, ToldSo, InOrder, LastSaysFollow

LEMMA InboxStepInv ==
  ASSUME InboxIInv, [InboxNext]_inboxVars
  PROVE  InboxIInv'
<1>1. ASSUME NEW z \in ApSigners, NEW x \in ApActors, NEW kind \in Kinds,
             handlePostInbox(z, x, kind)
      PROVE  InboxIInv'
  BY <1>1, PostStep
<1>2. ASSUME NEW i \in DOMAIN posts,
             \/ BodyRead(i) \/ BodyUnusable(i) \/ SignatureVerified(i)
             \/ SignatureRejected(i) \/ TaskRequestAnswered(i)
      PROVE  InboxIInv'
  BY <1>2, RequestStep
<1>3. ASSUME UNCHANGED inboxVars PROVE InboxIInv'
  BY <1>3 DEF inboxVars, InboxIInv, PostsShape, ToldSo, InOrder
<1> QED  BY <1>1, <1>2, <1>3 DEF InboxNext

LEMMA InboxInvImplies ==
  ASSUME InboxIInv
  PROVE  InboxTypeOK /\ FollowersInOrder
<1>1. InboxTypeOK  BY InboxTypes DEF InboxIInv, PostsShape, InboxTypeOK
<1>2. \A x : FollowChanges(x) = ChangesIn(posts, x)  BY InboxTypes
<1>3. ASSUME NEW x \in ApActors
      PROVE  /\ x \in followers => \E i \in FollowChanges(x) : posts[i].kind = "Follow"
             /\ x \notin apOverlap =>
                  (x \in followers <=>
                     \E i \in FollowChanges(x) :
                       posts[i].kind = "Follow" /\ \A j \in FollowChanges(x) : j <= i)
  <2>1. ToldSo(x) /\ InOrder(x)  BY DEF InboxIInv
  <2> QED  BY <1>2, <2>1 DEF ToldSo, InOrder, LastSaysFollow
<1> QED  BY <1>1, <1>3 DEF FollowersInOrder

\* The followers table says what was posted last in the name of each actor, whatever
\* the order in which the keys of the signers arrive, for actors in whose name one
\* request is answered before the next is posted (handlePostInbox, handleFollow,
\* handleUndo).
THEOREM FollowersAsTold == InboxSpec => [](InboxTypeOK /\ FollowersInOrder)
<1>1. InboxInit => InboxIInv  BY InboxInitInv
<1>2. InboxIInv /\ [InboxNext]_inboxVars => InboxIInv'  BY InboxStepInv
<1>3. InboxIInv => InboxTypeOK /\ FollowersInOrder  BY InboxInvImplies
<1> QED  BY <1>1, <1>2, <1>3, PTL DEF InboxSpec
-----------------------------------------------------------------------------
(* The libraries side by side.                                            *)

LibrariesIInv ==
  /\ LimiterIInv /\ FlaggingIInv /\ GovernanceIInv
  /\ GossipIInv /\ PipelineIInv /\ KillIInv
  /\ AttestationIInv /\ IdentityIInv /\ BoardIInv
  /\ AutonomyIInv /\ NegotiationIInv /\ KeyFileIInv
  /\ InboxIInv

\* A component at rest keeps its invariant, however far the steps of another move
\* the clock.
LEMMA Resting ==
  ASSUME LibrariesIInv, now' \in Nat, now' >= now
  PROVE  /\ UNCHANGED limiterVars => LimiterIInv'
         /\ UNCHANGED flaggingVars => FlaggingIInv'
         /\ UNCHANGED governanceVars => GovernanceIInv'
         /\ UNCHANGED gossipVars => GossipIInv'
         /\ UNCHANGED pipelineVars => PipelineIInv'
         /\ UNCHANGED killVars => KillIInv'
         /\ UNCHANGED attestationVars => AttestationIInv'
         /\ UNCHANGED identityVars => IdentityIInv'
         /\ UNCHANGED boardVars => BoardIInv'
         /\ UNCHANGED autonomyVars => AutonomyIInv'
         /\ UNCHANGED negotiations => NegotiationIInv'
         /\ UNCHANGED keyFileVars => KeyFileIInv'
         /\ UNCHANGED inboxVars => InboxIInv'
<1>1. UNCHANGED limiterVars => LimiterIInv'  BY LimiterRests DEF LibrariesIInv
<1>2. UNCHANGED flaggingVars => FlaggingIInv'  BY FlaggingRests DEF LibrariesIInv
<1>3. UNCHANGED governanceVars => GovernanceIInv'  BY GovernanceRests DEF LibrariesIInv
<1>4. ASSUME UNCHANGED gossipVars PROVE GossipIInv'
  <2>1. GossipIInv  BY DEF LibrariesIInv
  <2>2. UNCHANGED <<seenRecords, topicHandlers, verifying, arrivals, heard, firstMark, evicted>>
    BY <1>4 DEF gossipVars
  <2>3. topicHandlers' \in [Topics -> SUBSET RecordHandlers]  BY <2>1, <2>2, GossipTypes
  <2> QED  BY <2>1, <2>2, <2>3, GossipRests
<1>5. ASSUME UNCHANGED pipelineVars PROVE PipelineIInv'
  BY <1>5, PipelineUntouched DEF LibrariesIInv
<1>6. ASSUME UNCHANGED killVars PROVE KillIInv'
  BY <1>6 DEF killVars, LibrariesIInv, KillIInv, KillTypeOK
<1>7. UNCHANGED attestationVars => AttestationIInv'  BY AttestationRests DEF LibrariesIInv
<1>8. UNCHANGED identityVars => IdentityIInv'  BY IdentityRests DEF LibrariesIInv
<1>9. UNCHANGED boardVars => BoardIInv'  BY BoardRests DEF LibrariesIInv
<1>10. UNCHANGED autonomyVars => AutonomyIInv'  BY AutonomyRests DEF LibrariesIInv
<1>11. UNCHANGED negotiations => NegotiationIInv'  BY NegotiationInductive DEF LibrariesIInv
<1>12. UNCHANGED keyFileVars => KeyFileIInv'  BY KeyFileInductive DEF LibrariesIInv
<1>13. UNCHANGED inboxVars => InboxIInv'  BY InboxStepInv DEF LibrariesIInv
<1> QED
  BY <1>1, <1>2, <1>3, <1>4, <1>5, <1>6, <1>7, <1>8, <1>9, <1>10, <1>11, <1>12, <1>13

LEMMA LibrariesInitially == Init => LibrariesIInv
<1> SUFFICES ASSUME Init PROVE LibrariesIInv
  OBVIOUS
<1>1. NegotiationIInv
  BY DEF Init, NegotiationInit, NegotiationIInv, NegotiationTypeOK, PriceFloor
<1> QED
  BY <1>1, LimiterInitially, FlaggingInitially, GovernanceInitially, GossipInitially,
     PipelineInitially, KillInitially, AttestationInitInv, IdentityInitInv, BoardInitInv,
     AutonomyInitInv, KeyFileInitially, InboxInitInv
  DEF Init, LibrariesIInv

\* One clock for all: no step sets it back.
LEMMA ClockGoesOn ==
  ASSUME LibrariesIInv, [Next]_vars
  PROVE  now' \in Nat /\ now' >= now
<1>1. now \in Nat  BY DEF LibrariesIInv, AttestationIInv
<1>2. UNCHANGED now \/ \E bound : TickUpTo(bound)
  BY DEF Next, vars, LimiterStep, LimiterNext, FlaggingStep, FlaggingNext,
     GovernanceStep, GovernanceNext, GossipStep, GossipNext, PipelineStep, PipelineNext,
     KillStep, KillNext, AttestationStep, AttestationNext, IdentityStep, IdentityNext,
     BoardStep, BoardNext, AutonomyStep, AutonomyNext, NegotiationStep, KeyFileStep, InboxStep
<1> QED  BY <1>1, <1>2 DEF TickUpTo

LEMMA LibrariesInductive == LibrariesIInv /\ [Next]_vars => LibrariesIInv'
<1> SUFFICES ASSUME LibrariesIInv, [Next]_vars PROVE LibrariesIInv'
  OBVIOUS
<1>0. now' \in Nat /\ now' >= now  BY ClockGoesOn
<1>1. CASE LimiterStep
  <2>1. LimiterIInv'  BY <1>1, LimiterInductive DEF LimiterStep, LibrariesIInv
  <2> QED  BY <1>0, <1>1, <2>1, Resting DEF LimiterStep, LibrariesIInv
<1>2. CASE FlaggingStep
  <2>1. FlaggingIInv'  BY <1>2, FlaggingInductive DEF FlaggingStep, LibrariesIInv
  <2> QED  BY <1>0, <1>2, <2>1, Resting DEF FlaggingStep, LibrariesIInv
<1>3. CASE GovernanceStep
  <2>1. GovernanceIInv'  BY <1>3, GovernanceInductive DEF GovernanceStep, LibrariesIInv
  <2> QED  BY <1>0, <1>3, <2>1, Resting DEF GovernanceStep, LibrariesIInv
<1>4. CASE GossipStep
  <2>1. GossipIInv'  BY <1>4, GossipInductive DEF GossipStep, LibrariesIInv
  <2> QED  BY <1>0, <1>4, <2>1, Resting DEF GossipStep, LibrariesIInv
<1>5. CASE PipelineStep
  <2>1. PipelineIInv'  BY <1>5, PipelineInductive DEF PipelineStep, LibrariesIInv
  <2> QED  BY <1>0, <1>5, <2>1, Resting DEF PipelineStep, LibrariesIInv
<1>6. CASE KillStep
  <2>1. KillIInv'  BY <1>6, KillInductive DEF KillStep, LibrariesIInv
  <2> QED  BY <1>0, <1>6, <2>1, Resting DEF KillStep, LibrariesIInv
<1>7. CASE AttestationStep
  <2>1. AttestationIInv'  BY <1>7, AttestationStepInv DEF AttestationStep, LibrariesIInv
  <2> QED  BY <1>0, <1>7, <2>1, Resting DEF AttestationStep, LibrariesIInv
<1>8. CASE IdentityStep
  <2>1. IdentityIInv'  BY <1>8, IdentityStepInv DEF IdentityStep, LibrariesIInv
  <2> QED  BY <1>0, <1>8, <2>1, Resting DEF IdentityStep, LibrariesIInv
<1>9. CASE BoardStep
  <2>1. BoardIInv'  BY <1>9, BoardStepInv DEF BoardStep, LibrariesIInv
  <2> QED  BY <1>0, <1>9, <2>1, Resting DEF BoardStep, LibrariesIInv
<1>10. CASE AutonomyStep
  <2>1. AutonomyIInv'  BY <1>10, AutonomyStepInv DEF AutonomyStep, LibrariesIInv
  <2> QED  BY <1>0, <1>10, <2>1, Resting DEF AutonomyStep, LibrariesIInv
<1>11. CASE NegotiationStep
  <2>1. NegotiationIInv'  BY <1>11, NegotiationInductive DEF NegotiationStep, LibrariesIInv
  <2> QED  BY <1>0, <1>11, <2>1, Resting DEF NegotiationStep, LibrariesIInv
<1>12. CASE KeyFileStep
  <2>1. KeyFileIInv'  BY <1>12, KeyFileInductive DEF KeyFileStep, LibrariesIInv
  <2> QED  BY <1>0, <1>12, <2>1, Resting DEF KeyFileStep, LibrariesIInv
<1>13. CASE InboxStep
  <2>1. InboxIInv'  BY <1>13, InboxStepInv DEF InboxStep, LibrariesIInv
  <2> QED  BY <1>0, <1>13, <2>1, Resting DEF InboxStep, LibrariesIInv
<1>14. CASE UNCHANGED vars  BY <1>0, <1>14, Resting DEF vars, LibrariesIInv
<1> QED
  BY <1>1, <1>2, <1>3, <1>4, <1>5, <1>6, <1>7, <1>8, <1>9, <1>10, <1>11, <1>12, <1>13, <1>14
  DEF Next

\* The invariants of the components hold together, although the steps of each of
\* them move the clock that the others read.
THEOREM LibrariesInvariant == Spec => []LibrariesIInv
BY LibrariesInitially, LibrariesInductive, PTL DEF Spec

\* Every library keeps its types.
THEOREM LibrariesTyping == Spec => []LibrariesTypeOK
<1>1. LibrariesIInv => LibrariesTypeOK
  BY LimiterInvImplies, FlaggingInvImplies, GovernanceInvImplies, GossipInvImplies,
     PipelineInvImplies, KillInvImplies, AttestationInvImplies, IdentityInvImplies,
     BoardInvImplies, AutonomyInvImplies, InboxInvImplies
  DEF LibrariesIInv, LibrariesTypeOK, NegotiationIInv, KeyFileIInv
<1> QED  BY <1>1, LibrariesInvariant, PTL

\* What a handler, the kill switch, the attestations, the verification of the operator
\* and the key files do, they do once, over every wait, restart and repetition, but for
\* the overlaps that each property names; and the followers table has what the last
\* requests say, whoever signed them.
THEOREM DoneOnce ==
  Spec => [](/\ RoutedOnce /\ KillHandlerOnce /\ AttestedOnce /\ SealedOnce
             /\ KeyStays /\ FollowersInOrder)
<1>1. KeyFileIInv => KeyStays  BY KeyFileInvImplies
<1>2. LibrariesIInv =>
        /\ RoutedOnce /\ KillHandlerOnce /\ AttestedOnce /\ SealedOnce
        /\ KeyStays /\ FollowersInOrder
  BY <1>1, PipelineInvImplies, KillInvImplies, AttestationInvImplies, IdentityInvImplies,
     InboxInvImplies
  DEF LibrariesIInv
<1> QED  BY <1>2, LibrariesInvariant, PTL

\* The limits of the libraries hold whatever the others do: messages and flags per
\* period, decrees and their quorum, what gossip tells a handler, the counters of the
\* pipeline, the lag of the board, the pace of the agent and its lowest price.
THEOREM LimitsHoldTogether ==
  Spec => [](/\ WindowHoldsLimit /\ FlagHasGrounds /\ FlagsPerHour
             /\ AppliedOnce /\ EffectsHaveQuorum /\ HeardOnce /\ BooksBalance
             /\ ListingLagsBriefly /\ AgentPaced /\ PriceFloor)
<1>1. LibrariesIInv =>
        /\ WindowHoldsLimit /\ FlagHasGrounds /\ FlagsPerHour
        /\ AppliedOnce /\ EffectsHaveQuorum /\ HeardOnce /\ BooksBalance
        /\ ListingLagsBriefly /\ AgentPaced /\ PriceFloor
  BY LimiterInvImplies, FlaggingInvImplies, GovernanceInvImplies, GossipInvImplies,
     PipelineInvImplies, BoardInvImplies, AutonomyInvImplies
  DEF LibrariesIInv, NegotiationIInv
<1> QED  BY <1>1, LibrariesInvariant, PTL

\* Hiding and blocking need their grounds in every step of every library.
THEOREM GroundsInEveryStep == Spec => HidesOnlyBacked /\ BlockedByDecreeOnly
<1>1. LibrariesIInv /\ [Next]_vars => [Backed]_flaggingVars
  <2> SUFFICES ASSUME LibrariesIInv, [Next]_vars, ~UNCHANGED flaggingVars PROVE Backed
    OBVIOUS
  <2>1. FlaggingNext
    BY DEF Next, vars, LimiterStep, FlaggingStep, GovernanceStep, GossipStep, PipelineStep,
       KillStep, AttestationStep, IdentityStep, BoardStep, AutonomyStep, NegotiationStep,
       KeyFileStep, InboxStep
  <2> QED  BY <2>1, FlaggingInductive DEF LibrariesIInv, Backed
<1>2. LibrariesIInv /\ LibrariesIInv' /\ [Next]_vars => [BlocksByDecree]_<<governanceVars, now>>
  <2> SUFFICES ASSUME LibrariesIInv, LibrariesIInv', [Next]_vars PROVE BlocksByDecree
    OBVIOUS
  <2>1. CASE GovernanceStep
    BY <2>1, GovernanceBlocks DEF GovernanceStep, LibrariesIInv
  <2>2. CASE UNCHANGED governanceVars
    <3>1. now' \in Nat /\ now' >= now /\ now \in Nat
      BY ClockGoesOn DEF LibrariesIInv, AttestationIInv
    <3>2. now <= now' /\ UNCHANGED <<kills, suspensions>>
      BY <2>2, <3>1 DEF governanceVars
    <3> QED  BY <3>1, <3>2, NobodyBlocked DEF LibrariesIInv, BlocksByDecree
  <2>3. GovernanceStep \/ UNCHANGED governanceVars
    BY DEF Next, vars, LimiterStep, FlaggingStep, GossipStep, PipelineStep,
       KillStep, AttestationStep, IdentityStep, BoardStep, AutonomyStep, NegotiationStep,
       KeyFileStep, InboxStep
  <2> QED  BY <2>1, <2>2, <2>3
<1>3. Spec => [][Backed]_flaggingVars /\ [][BlocksByDecree]_<<governanceVars, now>>
  BY <1>1, <1>2, LibrariesInvariant, PTL DEF Spec
<1>4. Backed <=> \A t \in hiddenTargets' \ hiddenTargets :
        Cardinality({ f \in reputable : Contains(flagsByTarget'[t], f) }) >= HideAt
  BY DEF Backed
<1>5. BlocksByDecree <=>
        /\ \A a \in kills : a \in kills' /\ suspensions'[a] = NoSuspension
        /\ \A a \in Subjects : ~isBlocked(a) /\ isBlocked(a)' =>
             /\ Len(actionLog') = Len(actionLog) + 1
             /\ Decree[Last(actionLog')].target = a
  BY DEF BlocksByDecree
<1> QED  BY <1>3, <1>4, <1>5, PTL DEF HidesOnlyBacked, BlockedByDecreeOnly

=============================================================================
