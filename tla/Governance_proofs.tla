------------------------- MODULE Governance_proofs -------------------------
(***************************************************************************)
(* What governance guarantees for any keyholders, threshold and decrees,   *)
(* any number of calls under way and any changes of the registry.          *)
(***************************************************************************)
EXTENDS Governance, FiniteSetTheorems, SequenceTheorems, TLAPS

USE GovernanceAssumption

\* The signatures to verify are those of the authorization, and those that count so
\* far are of its action string, by keys that are or were keyholders.
Vouched(x) ==
  x.at \in {"received", "authored", "processing"} =>
    /\ x.todo \subseteq Signatories(x.decree)
    /\ x.valid \subseteq Standing(x.decree) \cap keyholders

CallInv(c) ==
  /\ Vouched(call[c])
  /\ call[c].at = "processing" => call[c].decree \in processedIds
  /\ Busy(c) => \A i \in DOMAIN actionLog :
                  actionLog[i] = call[c].decree => call[c].decree \in overlapped
  /\ Busy(c) => \A o \in GovernanceCalls \ {c} :
                  Busy(o) /\ call[o].decree = call[c].decree => call[c].decree \in overlapped

\* The log and what it has done.
LogInv ==
  /\ \A i \in DOMAIN actionLog : Quorum(actionLog[i]) /\ actionLog[i] \in processedIds
  /\ \A i, j \in DOMAIN actionLog :
       actionLog[i] = actionLog[j] /\ i # j => actionLog[i] \in overlapped
  /\ \A a \in kills : \E i \in DOMAIN actionLog :
       Decree[actionLog[i]].type = "governance.kill" /\ Decree[actionLog[i]].target = a

SuspensionInv(a) ==
  suspensions[a] # NoSuspension =>
    /\ a \notin kills
    /\ Decree[suspensions[a].decree].target = a
    /\ \E i \in DOMAIN actionLog : actionLog[i] = suspensions[a].decree

GovernanceIInv ==
  /\ GovernanceTypeOK /\ now > 0
  /\ \A c \in GovernanceCalls : CallInv(c)
  /\ LogInv
  /\ \A a \in Subjects : SuspensionInv(a)

-----------------------------------------------------------------------------
(* Types.                                                                  *)

LEMMA DecreeTypes ==
  ASSUME NEW d \in Decrees
  PROVE  /\ Decree[d].type \in DecreeType /\ Decree[d].target \in Subjects
         /\ Decree[d].duration \in Nat /\ Signatories(d) \subseteq KeyholderKeys
         /\ Standing(d) \subseteq KeyholderKeys
<1>1. Decree[d] \in [type : DecreeType, target : Subjects, duration : Nat,
                     says : ActionText, signers : SUBSET KeyholderKeys]
  OBVIOUS
<1>2. Signatories(d) \subseteq KeyholderKeys  BY <1>1 DEF Signatories
<1> QED  BY <1>1, <1>2 DEF Standing

LEMMA CallTypes ==
  ASSUME NEW STATE x, x \in CallRecord \cup {NoCall}
  PROVE  /\ x # NoCall => x \in CallRecord /\ x.decree \in Decrees
         /\ x.at \in {"received", "authored", "processing"} =>
              /\ x \in [at : {"received", "authored", "processing"}, decree : Decrees,
                        todo : SUBSET KeyholderKeys, valid : SUBSET KeyholderKeys]
              /\ x # NoCall
         /\ x.at \in {"creating", "broadcasting"} =>
              x \in [at : {"creating", "broadcasting"}, decree : Decrees] /\ x # NoCall
BY DEF CallRecord, NoCall

LEMMA VerificationType ==
  ASSUME NEW d \in Decrees, NEW at \in {"received", "authored", "processing"}
  PROVE  /\ Verification(d, at) \in CallRecord
         /\ Verification(d, at) # NoCall
         /\ Verification(d, at).at = at /\ Verification(d, at).decree = d
         /\ Verification(d, at).valid = {}
         /\ Vouched(Verification(d, at))
<1>1. Signatories(d) \subseteq KeyholderKeys  BY DecreeTypes
<1> QED  BY <1>1 DEF Verification, CallRecord, NoCall, Vouched

LEMMA SuspensionType ==
  ASSUME NEW d \in Decrees, issuedAt \in [Decrees -> Nat]
  PROVE  /\ Suspension(d) \in SuspensionRecord /\ Suspension(d) # NoSuspension
         /\ Suspension(d).decree = d
<1>1. Decree[d].duration \in Nat /\ issuedAt[d] \in Nat  BY DecreeTypes
<1>2. (IF Decree[d].duration > 0 THEN issuedAt[d] + Decree[d].duration ELSE 0) \in Nat
  BY <1>1
<1> QED  BY <1>2 DEF Suspension, SuspensionRecord, NoSuspension

\* The signatures of a string stand as long as the string does.
LEMMA StandingStays ==
  ASSUME NEW d \in Decrees, builtAt'[d] = builtAt[d]
  PROVE  Standing(d)' = Standing(d)
BY DEF Standing, ActionString

\* A quorum is not lost: keyholders stay in the registry.
LEMMA QuorumStays ==
  ASSUME NEW d \in Decrees, GovernanceTypeOK, GovernanceTypeOK', keyholders \subseteq keyholders',
         builtAt'[d] = builtAt[d], Quorum(d)
  PROVE  Quorum(d)'
<1>0. Standing(d)' = Standing(d)  BY StandingStays
<1>1. IsFiniteSet(keyholders')  BY FS_Subset DEF GovernanceTypeOK
<1>2. IsFiniteSet(Standing(d) \cap keyholders')
      /\ Standing(d) \cap keyholders \subseteq Standing(d) \cap keyholders'
  BY <1>1, FS_Intersection
<1>3. Cardinality(Standing(d) \cap keyholders)
        <= Cardinality(Standing(d) \cap keyholders')
      /\ IsFiniteSet(Standing(d) \cap keyholders)
  BY <1>2, FS_Subset
<1>4. /\ Cardinality(Standing(d) \cap keyholders) \in Nat
      /\ Cardinality(Standing(d) \cap keyholders') \in Nat
  BY <1>2, <1>3, FS_CardinalityType
<1>5. Threshold \in Nat
  <2>1. IsFiniteSet(Genesis)  BY FS_Subset
  <2> QED  BY <2>1, FS_CardinalityType
<1> QED  BY <1>0, <1>3, <1>4, <1>5 DEF Quorum

\* A call that meets the threshold stands for a quorum.
LEMMA ThresholdIsQuorum ==
  ASSUME GovernanceTypeOK, NEW c \in GovernanceCalls, Vouched(call[c]),
         Verifying(c), MeetsThreshold(c)
  PROVE  Quorum(call[c].decree)
<1>1. call[c] \in CallRecord \cup {NoCall}  BY DEF GovernanceTypeOK
<1>2. call[c].decree \in Decrees  BY <1>1, CallTypes DEF Verifying
<1> DEFINE signed == Standing(call[c].decree) \cap keyholders
<1>3. call[c].valid \subseteq signed  BY DEF Vouched, Verifying
<1>4. IsFiniteSet(keyholders)  BY FS_Subset DEF GovernanceTypeOK
<1>5. IsFiniteSet(signed)  BY <1>4, FS_Intersection
<1>6. Cardinality(call[c].valid) <= Cardinality(signed) /\ IsFiniteSet(call[c].valid)
  BY <1>3, <1>5, FS_Subset
<1>7. Cardinality(call[c].valid) \in Nat /\ Cardinality(signed) \in Nat
  BY <1>5, <1>6, FS_CardinalityType
<1>8. Threshold \in Nat
  <2>1. IsFiniteSet(Genesis)  BY FS_Subset
  <2> QED  BY <2>1, FS_CardinalityType
<1>9. Cardinality(call[c].valid) >= Threshold  BY DEF MeetsThreshold
<1> QED  BY <1>6, <1>7, <1>8, <1>9 DEF Quorum

-----------------------------------------------------------------------------
(* The steps.                                                              *)

LEMMA GovernanceInitially ==
  ASSUME GovernanceInit
  PROVE  GovernanceIInv
<1>1. /\ now = 1 /\ keyholders = Genesis /\ activeHolders = Genesis /\ processedIds = {}
      /\ actionLog = <<>> /\ kills = {} /\ suspensions = [a \in Subjects |-> NoSuspension]
      /\ builtAt = [d \in Decrees |-> 0]
      /\ issuedAt = [d \in Decrees |-> now] /\ circulating = Decrees \ LocalDecrees
      /\ call = [c \in GovernanceCalls |-> NoCall] /\ overlapped = {}
  BY DEF GovernanceInit, ClockInit
<1>2. GovernanceTypeOK  BY <1>1 DEF GovernanceTypeOK
<1>3. \A c \in GovernanceCalls : CallInv(c)
  BY <1>1 DEF CallInv, Vouched, Busy, NoCall
<1>4. LogInv  BY <1>1 DEF LogInv
<1>5. \A a \in Subjects : SuspensionInv(a)  BY <1>1 DEF SuspensionInv
<1> QED  BY <1>1, <1>2, <1>3, <1>4, <1>5 DEF GovernanceIInv

\* The log and its effects, in a step that leaves both alone.
LEMMA LogKept ==
  ASSUME GovernanceIInv, GovernanceTypeOK', keyholders \subseteq keyholders',
         processedIds \subseteq processedIds', overlapped \subseteq overlapped',
         \A d \in processedIds : builtAt'[d] = builtAt[d],
         UNCHANGED <<actionLog, kills>>
  PROVE  LogInv'
<1>1. \A i \in DOMAIN actionLog : actionLog[i] \in Decrees /\ Quorum(actionLog[i])
                                 /\ actionLog[i] \in processedIds
  BY ElementOfSeq, LenProperties DEF GovernanceIInv, LogInv, GovernanceTypeOK
<1>2. \A i \in DOMAIN actionLog : Quorum(actionLog[i])'
  BY <1>1, QuorumStays DEF GovernanceIInv
<1> QED  BY <1>1, <1>2 DEF GovernanceIInv, LogInv

\* A call goes on, ends or begins: its record becomes x.
LEMMA CallStep ==
  ASSUME GovernanceIInv, GovernanceTypeOK', NEW c \in GovernanceCalls, NEW STATE x,
         call' = [call EXCEPT ![c] = x],
         UNCHANGED <<now, keyholders, actionLog, kills, suspensions>>,
         processedIds \subseteq processedIds', overlapped \subseteq overlapped',
         \A d \in Decrees :
           d \in processedIds \/ (\E o \in GovernanceCalls : Busy(o) /\ call[o].decree = d) =>
             builtAt'[d] = builtAt[d],
         x # NoCall =>
           /\ Vouched(x)
           /\ x.valid = {} \/ x.at \notin {"received", "authored", "processing"}
                \/ (Busy(c) /\ x.decree = call[c].decree)
           /\ \/ Busy(c) /\ x.decree = call[c].decree
              \/ /\ x.decree \notin processedIds
                 /\ \A o \in GovernanceCalls \ {c} :
                      Busy(o) /\ call[o].decree = x.decree => x.decree \in overlapped'
           /\ x.at = "processing" => x.decree \in processedIds'
  PROVE  GovernanceIInv'
<1>1. /\ call \in [GovernanceCalls -> CallRecord \cup {NoCall}]
      /\ call'[c] = x /\ \A o \in GovernanceCalls \ {c} : call'[o] = call[o]
  BY DEF GovernanceIInv, GovernanceTypeOK
<1>2. LogInv'
  <2>1. processedIds \subseteq Decrees  BY DEF GovernanceIInv, GovernanceTypeOK
  <2> QED  BY <2>1, LogKept
<1>3. \A a \in Subjects : SuspensionInv(a)'  BY DEF GovernanceIInv, SuspensionInv
<1>4. \A i \in DOMAIN actionLog : actionLog[i] \in processedIds  BY DEF GovernanceIInv, LogInv
<1>5. CallInv(c)'
  <2>1. CASE x = NoCall
    BY <1>1, <2>1 DEF CallInv, Vouched, Busy, NoCall
  <2>2. CASE x # NoCall
    <3>1. Vouched(call[c])'
      <4>1. SUFFICES ASSUME x.at \in {"received", "authored", "processing"}
                     PROVE  /\ x.todo \subseteq Signatories(x.decree)
                            /\ x.valid \subseteq Standing(call[c].decree)' \cap keyholders'
        BY <1>1, <2>2 DEF Vouched, Signatories
      <4>2. x \in CallRecord
        BY <1>1, <2>2 DEF GovernanceTypeOK
      <4>3. PICK d \in Decrees : d = x.decree  BY <2>2, <4>2, CallTypes
      <4>4. x.todo \subseteq Signatories(d) /\ x.valid \subseteq Standing(d) \cap keyholders
        BY <2>2, <4>1, <4>3 DEF Vouched
      <4>5. x.valid = {} \/ builtAt'[d] = builtAt[d]
        BY <2>2, <4>1, <4>3
      <4>6. x.valid \subseteq Standing(d)' \cap keyholders'
        BY <4>4, <4>5, StandingStays
      <4>7. Standing(call[c].decree)' = Standing(d)'  BY <1>1, <4>3
      <4> QED  BY <4>3, <4>4, <4>6, <4>7
    <3>2. call'[c].at = "processing" => call'[c].decree \in processedIds'
      BY <1>1, <2>2
    <3>3. \A i \in DOMAIN actionLog : actionLog[i] = x.decree => x.decree \in overlapped'
      BY <1>4, <2>2 DEF GovernanceIInv, CallInv
    <3>4. \A o \in GovernanceCalls \ {c} :
            Busy(o) /\ call[o].decree = x.decree => x.decree \in overlapped'
      BY <2>2 DEF GovernanceIInv, CallInv
    <3> QED  BY <1>1, <3>1, <3>2, <3>3, <3>4 DEF CallInv, Busy
  <2> QED  BY <2>1, <2>2
<1>6. ASSUME NEW o \in GovernanceCalls, o # c PROVE CallInv(o)'
  <2>1. CallInv(o) /\ call'[o] = call[o]  BY <1>1, <1>6 DEF GovernanceIInv
  <2>2. Vouched(call[o])'
    <3>1. call[o] \in CallRecord \cup {NoCall}  BY <1>1
    <3>2. CASE call[o].at \in {"received", "authored", "processing"}
      <4>1. PICK d \in Decrees : d = call[o].decree  BY <3>1, <3>2, CallTypes
      <4>2. Busy(o)  BY <3>1, <3>2, CallTypes DEF Busy
      <4>3. Standing(d)' = Standing(d)  BY <4>1, <4>2, StandingStays
      <4>4. Standing(call[o].decree)' = Standing(d)' /\ Signatories(call[o].decree)' = Signatories(d)
        BY <2>1, <4>1
      <4> QED  BY <2>1, <3>2, <4>1, <4>3, <4>4 DEF CallInv, Vouched
    <3> QED  BY <2>1, <3>2 DEF Vouched
  <2>3. call'[o].at = "processing" => call'[o].decree \in processedIds'
    BY <2>1 DEF CallInv
  <2>4. Busy(o)' => \A i \in DOMAIN actionLog' :
          actionLog'[i] = call'[o].decree => call'[o].decree \in overlapped'
    BY <2>1 DEF CallInv, Busy
  <2>5. ASSUME Busy(o)', NEW p \in GovernanceCalls \ {o}, Busy(p)',
               call'[p].decree = call'[o].decree
        PROVE  call'[o].decree \in overlapped'
    <3>1. CASE p # c
      BY <1>1, <2>1, <2>5, <3>1 DEF CallInv, Busy
    <3>2. CASE p = c
      <4>1. x # NoCall /\ x.decree = call[o].decree /\ Busy(o)
        BY <1>1, <2>1, <2>5, <3>2 DEF Busy
      <4>2. CASE Busy(c) /\ x.decree = call[c].decree
        BY <1>6, <2>1, <4>1, <4>2 DEF CallInv
      <4>3. CASE \A q \in GovernanceCalls \ {c} :
                   Busy(q) /\ call[q].decree = x.decree => x.decree \in overlapped'
        BY <1>6, <2>1, <4>1, <4>3
      <4> QED  BY <4>1, <4>2, <4>3
    <3> QED  BY <3>1, <3>2
  <2> QED  BY <2>2, <2>3, <2>4, <2>5 DEF CallInv
<1> QED  BY <1>2, <1>3, <1>5, <1>6 DEF GovernanceIInv

\* A quorum does its work: the decree is logged and applied, the call is over.
LEMMA ProcessActionStep ==
  ASSUME GovernanceIInv, NEW c \in GovernanceCalls, processAction(c), now' = now
  PROVE  GovernanceIInv'
<1> DEFINE d == call[c].decree
           a == Decree[d].target
<1>1. /\ call[c].at = "processing" /\ MeetsThreshold(c)
      /\ actionLog' = Append(actionLog, d)
      /\ kills' = IF Decree[d].type = "governance.kill" THEN kills \cup {a} ELSE kills
      /\ suspensions' = [suspensions EXCEPT ![a] =
           CASE Decree[d].type = "governance.kill" -> NoSuspension
             [] Decree[d].type = "governance.suspend" /\ a \notin kills -> Suspension(d)
             [] OTHER -> suspensions[a]]
      /\ call' = [call EXCEPT ![c] = NoCall]
      /\ UNCHANGED <<keyholders, activeHolders, processedIds, builtAt, issuedAt, circulating,
                     overlapped>>
  BY DEF processAction, ApplyDecree
<1>2. GovernanceTypeOK /\ CallInv(c)  BY DEF GovernanceIInv
<1>3. /\ call \in [GovernanceCalls -> CallRecord \cup {NoCall}]
      /\ actionLog \in Seq(Decrees)
      /\ suspensions \in [Subjects -> SuspensionRecord \cup {NoSuspension}]
      /\ kills \subseteq Subjects /\ issuedAt \in [Decrees -> Nat]
  BY <1>2 DEF GovernanceTypeOK
<1>4. d \in Decrees /\ Busy(c)
  <2>1. call[c] \in CallRecord \cup {NoCall}  BY <1>3
  <2> QED  BY <1>1, <2>1, CallTypes DEF Busy
<1>5. /\ a \in Subjects /\ Decree[d].duration \in Nat
      /\ Decree[d].type \in DecreeType
  BY <1>4, DecreeTypes
<1>6. Quorum(d) /\ d \in processedIds
  BY <1>1, <1>2, ThresholdIsQuorum DEF CallInv, Verifying
<1>7. Suspension(d) \in SuspensionRecord /\ Suspension(d) # NoSuspension
      /\ Suspension(d).decree = d
  BY <1>3, <1>4, SuspensionType
<1> HIDE DEF d, a
<1>8. /\ actionLog' \in Seq(Decrees) /\ Len(actionLog) \in Nat
      /\ DOMAIN actionLog = 1..Len(actionLog) /\ DOMAIN actionLog' = 1..(Len(actionLog) + 1)
      /\ actionLog'[Len(actionLog) + 1] = d
      /\ \A i \in DOMAIN actionLog : actionLog'[i] = actionLog[i]
  <2>1. actionLog' = Append(actionLog, d)  BY <1>1
  <2> QED  BY <1>3, <1>4, <2>1, LenProperties, AppendProperties
<1>9. /\ suspensions' \in [Subjects -> SuspensionRecord \cup {NoSuspension}]
      /\ Decree[d].type = "governance.kill" => suspensions'[a] = NoSuspension
      /\ Decree[d].type # "governance.kill" =>
           \/ suspensions'[a] = suspensions[a]
           \/ suspensions'[a] = Suspension(d) /\ a \notin kills
      /\ \A b \in Subjects \ {a} : suspensions'[b] = suspensions[b]
  <2> DEFINE after == CASE Decree[d].type = "governance.kill" -> NoSuspension
                        [] Decree[d].type = "governance.suspend" /\ a \notin kills -> Suspension(d)
                        [] OTHER -> suspensions[a]
  <2>1. /\ after \in {NoSuspension, Suspension(d), suspensions[a]}
        /\ Decree[d].type = "governance.kill" => after = NoSuspension
        /\ Decree[d].type # "governance.kill" =>
             after = suspensions[a] \/ (after = Suspension(d) /\ a \notin kills)
    OBVIOUS
  <2>2. suspensions' = [suspensions EXCEPT ![a] = after]  BY <1>1
  <2> HIDE DEF after
  <2>3. after \in SuspensionRecord \cup {NoSuspension}  BY <1>3, <1>5, <1>7, <2>1
  <2>4. suspensions'[a] = after  BY <1>3, <1>5, <2>2
  <2> QED  BY <1>3, <1>5, <2>1, <2>2, <2>3, <2>4
<1>10. kills' \subseteq Subjects  BY <1>1, <1>3, <1>5
<1>11. call' \in [GovernanceCalls -> CallRecord \cup {NoCall}]  BY <1>1, <1>3
<1>12. GovernanceTypeOK'
  BY <1>1, <1>2, <1>8, <1>9, <1>10, <1>11 DEF GovernanceTypeOK
<1>13. LogInv'
  <2>1. \A i \in DOMAIN actionLog : /\ Quorum(actionLog[i])
                                    /\ actionLog[i] \in processedIds
                                    /\ actionLog[i] = d => d \in overlapped
    BY <1>2, <1>4 DEF GovernanceIInv, LogInv, CallInv, d
  <2>2. \A i \in DOMAIN actionLog' : Quorum(actionLog[i])' /\ actionLog'[i] \in processedIds'
    <3>1. \A i \in DOMAIN actionLog' : actionLog'[i] = d \/ \E j \in DOMAIN actionLog :
            i = j /\ actionLog'[i] = actionLog[i]
      BY <1>8
    <3>2. \A i \in DOMAIN actionLog' : actionLog'[i] \in processedIds
      BY <1>6, <2>1, <3>1
    <3>3. \A i \in DOMAIN actionLog' : Quorum(actionLog'[i])
      BY <1>6, <2>1, <3>1
    <3> QED  BY <1>1, <3>2, <3>3 DEF Quorum, Standing, ActionString
  <2>3. ASSUME NEW i \in DOMAIN actionLog', NEW j \in DOMAIN actionLog',
               actionLog'[i] = actionLog'[j], i # j
        PROVE  actionLog'[i] \in overlapped'
    <3>1. CASE i \in DOMAIN actionLog /\ j \in DOMAIN actionLog
      BY <1>1, <1>8, <2>3, <3>1 DEF GovernanceIInv, LogInv
    <3>2. CASE i \notin DOMAIN actionLog
      <4>1. i = Len(actionLog) + 1 /\ j \in DOMAIN actionLog  BY <1>8, <2>3, <3>2
      <4> QED  BY <1>1, <1>8, <2>1, <2>3, <4>1
    <3>3. CASE j \notin DOMAIN actionLog
      <4>1. j = Len(actionLog) + 1 /\ i \in DOMAIN actionLog  BY <1>8, <2>3, <3>3
      <4> QED  BY <1>1, <1>8, <2>1, <2>3, <4>1
    <3> QED  BY <3>1, <3>2, <3>3
  <2>4. ASSUME NEW b \in kills'
        PROVE  \E i \in DOMAIN actionLog' : /\ Decree[actionLog'[i]].type = "governance.kill"
                                            /\ Decree[actionLog'[i]].target = b
    <3>1. CASE b \in kills
      <4>1. PICK i \in DOMAIN actionLog : /\ Decree[actionLog[i]].type = "governance.kill"
                                          /\ Decree[actionLog[i]].target = b
        BY <3>1 DEF GovernanceIInv, LogInv
      <4>2. i \in DOMAIN actionLog' /\ actionLog'[i] = actionLog[i]  BY <1>8
      <4> QED  BY <4>1, <4>2
    <3>2. CASE b \notin kills
      <4>1. Decree[d].type = "governance.kill" /\ b = a  BY <1>1, <3>2
      <4>2. Len(actionLog) + 1 \in DOMAIN actionLog'  BY <1>8
      <4> QED  BY <1>8, <4>1, <4>2 DEF a
    <3> QED  BY <3>1, <3>2
  <2> QED  BY <2>2, <2>3, <2>4 DEF LogInv
<1>14. ASSUME NEW b \in Subjects PROVE SuspensionInv(b)'
  <2>1. CASE suspensions'[b] = NoSuspension  BY <2>1 DEF SuspensionInv
  <2>2. CASE suspensions'[b] = Suspension(d) /\ b = a /\ a \notin kills
                /\ Decree[d].type # "governance.kill"
    <3>1. a \notin kills'  BY <1>1, <2>2
    <3>2. Len(actionLog) + 1 \in DOMAIN actionLog'  BY <1>8
    <3> QED  BY <1>7, <1>8, <2>2, <3>1, <3>2 DEF SuspensionInv, a
  <2>3. CASE suspensions'[b] = suspensions[b] /\ suspensions[b] # NoSuspension
                /\ (b # a \/ Decree[d].type # "governance.kill")
    <3>1. /\ b \notin kills /\ Decree[suspensions[b].decree].target = b
          /\ \E i \in DOMAIN actionLog : actionLog[i] = suspensions[b].decree
      BY <2>3 DEF GovernanceIInv, SuspensionInv
    <3>2. b \notin kills'  BY <1>1, <2>3, <3>1
    <3>3. \E i \in DOMAIN actionLog' : actionLog'[i] = suspensions[b].decree
      BY <1>8, <3>1
    <3> QED  BY <2>3, <3>1, <3>2, <3>3 DEF SuspensionInv
  <2> QED  BY <1>9, <2>1, <2>2, <2>3
<1>15. ASSUME NEW o \in GovernanceCalls PROVE CallInv(o)'
  <2>1. CASE o = c
    <3>1. call'[o] = NoCall  BY <1>1, <1>3, <2>1
    <3> QED  BY <3>1 DEF CallInv, Vouched, Busy, NoCall
  <2>2. CASE o # c
    <3>1. CallInv(o) /\ call'[o] = call[o]  BY <1>1, <1>3, <2>2 DEF GovernanceIInv
    <3>2. Vouched(call[o])'
      BY <1>1, <3>1 DEF CallInv, Vouched, Signatories, Standing, ActionString
    <3>3. ASSUME Busy(o), NEW i \in DOMAIN actionLog', actionLog'[i] = call[o].decree
          PROVE  call[o].decree \in overlapped
      <4>1. CASE i \in DOMAIN actionLog  BY <1>8, <3>1, <3>3, <4>1 DEF CallInv
      <4>2. CASE i \notin DOMAIN actionLog
        <5>1. call[o].decree = d  BY <1>8, <3>3, <4>2
        <5> QED  BY <1>4, <2>2, <3>1, <3>3, <5>1 DEF CallInv, d
      <4> QED  BY <4>1, <4>2
    <3>4. ASSUME Busy(o), NEW p \in GovernanceCalls \ {o}, Busy(p)',
                 call'[p].decree = call[o].decree
          PROVE  call[o].decree \in overlapped
      <4>1. p # c  BY <1>1, <1>3, <3>4 DEF Busy
      <4>2. call'[p] = call[p]  BY <1>1, <1>3, <4>1
      <4> QED  BY <3>1, <3>4, <4>2 DEF CallInv, Busy
    <3> QED  BY <1>1, <3>1, <3>2, <3>3, <3>4 DEF CallInv, Busy
  <2> QED  BY <2>1, <2>2
<1> QED  BY <1>12, <1>13, <1>14, <1>15 DEF GovernanceIInv
-----------------------------------------------------------------------------
(* Calls.                                                                  *)

LEMMA ReceiveStep ==
  ASSUME GovernanceIInv, NEW c \in GovernanceCalls, NEW d \in Decrees,
         receiveGovernanceRecord(c, d), now' = now
  PROVE  GovernanceIInv'
<1>1. /\ ~Busy(c) /\ d \notin processedIds
      /\ call' = [call EXCEPT ![c] = Verification(d, "received")]
      /\ overlapped' = IF \E o \in GovernanceCalls : Busy(o) /\ call[o].decree = d
                       THEN overlapped \cup {d} ELSE overlapped
      /\ UNCHANGED <<keyholders, activeHolders, processedIds, actionLog, kills,
                     suspensions, builtAt, issuedAt, circulating>>
  BY DEF receiveGovernanceRecord, Duplicate
<1>2. /\ Verification(d, "received") \in CallRecord
      /\ Verification(d, "received").at = "received"
      /\ Verification(d, "received").decree = d
      /\ Verification(d, "received").valid = {}
      /\ Vouched(Verification(d, "received"))
  BY VerificationType
<1>3. overlapped' \subseteq Decrees /\ overlapped \subseteq overlapped'
  BY <1>1 DEF GovernanceIInv, GovernanceTypeOK
<1>4. call' \in [GovernanceCalls -> CallRecord \cup {NoCall}]
  BY <1>1, <1>2 DEF GovernanceIInv, GovernanceTypeOK
<1>5. GovernanceTypeOK'  BY <1>1, <1>3, <1>4 DEF GovernanceIInv, GovernanceTypeOK
<1>6. \A o \in GovernanceCalls \ {c} : Busy(o) /\ call[o].decree = d => d \in overlapped'
  BY <1>1
<1> DEFINE x == Verification(d, "received")
<1>7. /\ call' = [call EXCEPT ![c] = x] /\ Vouched(x) /\ x.decree = d
      /\ x.at = "received" /\ x.valid = {}
  BY <1>1, <1>2
<1> HIDE DEF x
<1> QED  BY <1>1, <1>3, <1>5, <1>6, <1>7, CallStep

LEMMA AuthorStep ==
  ASSUME GovernanceIInv, NEW c \in GovernanceCalls, NEW d \in Decrees,
         createAndBroadcast(c, d), now' = now
  PROVE  GovernanceIInv'
<1>1. /\ d \notin processedIds
      /\ \A o \in GovernanceCalls : Busy(o) => call[o].decree # d
      /\ builtAt' = [builtAt EXCEPT ![d] = now]
      /\ call' = [call EXCEPT ![c] = Verification(d, "authored")]
      /\ UNCHANGED <<keyholders, activeHolders, processedIds, actionLog, kills,
                     suspensions, issuedAt, circulating, overlapped>>
  BY DEF createAndBroadcast
<1>2. /\ Verification(d, "authored") \in CallRecord
      /\ Verification(d, "authored").at = "authored"
      /\ Verification(d, "authored").decree = d
      /\ Verification(d, "authored").valid = {}
      /\ Vouched(Verification(d, "authored"))
  BY VerificationType
<1>3. call' \in [GovernanceCalls -> CallRecord \cup {NoCall}]
  BY <1>1, <1>2 DEF GovernanceIInv, GovernanceTypeOK
<1>4. GovernanceTypeOK'
  <2>1. builtAt' \in [Decrees -> Nat]  BY <1>1 DEF GovernanceIInv, GovernanceTypeOK
  <2> QED  BY <1>1, <1>3, <2>1 DEF GovernanceIInv, GovernanceTypeOK
<1> DEFINE x == Verification(d, "authored")
<1>5. /\ call' = [call EXCEPT ![c] = x] /\ Vouched(x) /\ x.decree = d
      /\ x.at = "authored" /\ x.valid = {}
      /\ \A e \in Decrees \ {d} : builtAt'[e] = builtAt[e]
  BY <1>1, <1>2 DEF GovernanceIInv, GovernanceTypeOK
<1>6. ASSUME NEW e \in Decrees,
             e \in processedIds \/ \E o \in GovernanceCalls : Busy(o) /\ call[o].decree = e
      PROVE  builtAt'[e] = builtAt[e]
  BY <1>1, <1>5, <1>6
<1>7. \A o \in GovernanceCalls \ {c} :
        Busy(o) /\ call[o].decree = x.decree => x.decree \in overlapped'
  BY <1>1, <1>5
<1> HIDE DEF x
<1> QED  BY <1>1, <1>4, <1>5, <1>6, <1>7, CallStep

LEMMA SignerStep ==
  ASSUME GovernanceIInv, NEW c \in GovernanceCalls, NEW k \in KeyholderKeys,
         VerifySigner(c, k), now' = now
  PROVE  GovernanceIInv'
<1> DEFINE x == [call[c] EXCEPT !.todo = @ \ {k},
                                !.valid = IF isKeyholder(k) /\ k \in Standing(call[c].decree)
                                           THEN @ \cup {k} ELSE @]
<1>1. /\ Verifying(c) /\ k \in call[c].todo
      /\ call' = [call EXCEPT ![c] = x]
      /\ UNCHANGED <<keyholders, activeHolders, processedIds, actionLog, kills,
                     suspensions, builtAt, issuedAt, circulating, overlapped>>
  BY DEF VerifySigner
<1>2. GovernanceTypeOK /\ CallInv(c)  BY DEF GovernanceIInv
<1>3. call[c] \in CallRecord \cup {NoCall}  BY <1>2 DEF GovernanceTypeOK
<1>4. /\ call[c] \in [at : {"received", "authored", "processing"}, decree : Decrees,
                      todo : SUBSET KeyholderKeys, valid : SUBSET KeyholderKeys]
      /\ Busy(c)
  BY <1>1, <1>3, CallTypes DEF Verifying, Busy
<1>5. /\ x \in [at : {"received", "authored", "processing"}, decree : Decrees,
                todo : SUBSET KeyholderKeys, valid : SUBSET KeyholderKeys]
      /\ x.at = call[c].at /\ x.decree = call[c].decree
      /\ x.todo = call[c].todo \ {k}
      /\ x.valid = IF isKeyholder(k) /\ k \in Standing(call[c].decree)
                   THEN call[c].valid \cup {k} ELSE call[c].valid
  BY <1>4
<1>6. x.at = "processing" => x.decree \in processedIds'
  BY <1>1, <1>2, <1>5 DEF CallInv
<1> HIDE DEF x
<1>7. Vouched(x)
  <2>0. x.todo \subseteq Signatories(call[c].decree)
    BY <1>1, <1>2, <1>5 DEF CallInv, Vouched, Verifying
  <2>1. activeHolders \subseteq keyholders  BY <1>2 DEF GovernanceTypeOK
  <2>2. call[c].valid \subseteq Standing(call[c].decree) \cap keyholders
    BY <1>1, <1>2 DEF CallInv, Vouched, Verifying
  <2> QED  BY <1>5, <2>0, <2>1, <2>2 DEF Vouched, isKeyholder
<1>8. call' \in [GovernanceCalls -> CallRecord \cup {NoCall}]
  BY <1>1, <1>2, <1>5 DEF GovernanceTypeOK, CallRecord
<1>9. GovernanceTypeOK'  BY <1>1, <1>2, <1>8 DEF GovernanceTypeOK
<1> QED  BY <1>1, <1>4, <1>5, <1>6, <1>7, <1>9, CallStep

LEMMA ShortStep ==
  ASSUME GovernanceIInv, NEW c \in GovernanceCalls, FallsShort(c), now' = now
  PROVE  GovernanceIInv'
<1>1. /\ call' = [call EXCEPT ![c] = NoCall]
      /\ UNCHANGED <<keyholders, activeHolders, processedIds, actionLog, kills,
                     suspensions, builtAt, issuedAt, circulating, overlapped>>
  BY DEF FallsShort
<1>2. call' \in [GovernanceCalls -> CallRecord \cup {NoCall}]
  BY <1>1 DEF GovernanceIInv, GovernanceTypeOK
<1>3. GovernanceTypeOK'  BY <1>1, <1>2 DEF GovernanceIInv, GovernanceTypeOK
<1> QED  BY <1>1, <1>3, CallStep

\* The decree of the call is marked and its second verification begins.
LEMMA ProcessStep ==
  ASSUME GovernanceIInv, NEW c \in GovernanceCalls, Busy(c), Process(c),
         UNCHANGED <<now, keyholders, activeHolders, actionLog, kills, suspensions,
                     builtAt, issuedAt, circulating, overlapped>>
  PROVE  GovernanceIInv'
<1>1. call[c] \in CallRecord \cup {NoCall}  BY DEF GovernanceIInv, GovernanceTypeOK
<1>2. call[c].decree \in Decrees  BY <1>1, CallTypes DEF Busy
<1> DEFINE x == Verification(call[c].decree, "processing")
<1>3. /\ x \in CallRecord /\ x.at = "processing" /\ x.decree = call[c].decree
      /\ Vouched(x)
  BY <1>2, VerificationType
<1> HIDE DEF x
<1>4. call' = [call EXCEPT ![c] = x] /\ processedIds' = processedIds \cup {call[c].decree}
  BY DEF Process, x
<1>5. processedIds' \subseteq Decrees  BY <1>2, <1>4 DEF GovernanceIInv, GovernanceTypeOK
<1>6. call' \in [GovernanceCalls -> CallRecord \cup {NoCall}]
  BY <1>3, <1>4 DEF GovernanceIInv, GovernanceTypeOK
<1>7. GovernanceTypeOK'  BY <1>5, <1>6 DEF GovernanceIInv, GovernanceTypeOK
<1> QED  BY <1>3, <1>4, <1>7, CallStep

LEMMA AcceptStep ==
  ASSUME GovernanceIInv, NEW c \in GovernanceCalls, AcceptReceived(c), now' = now
  PROVE  GovernanceIInv'
<1>1. call[c] \in CallRecord \cup {NoCall} /\ call[c].at = "received"
  BY DEF GovernanceIInv, GovernanceTypeOK, AcceptReceived
<1>2. Busy(c)  BY <1>1, CallTypes DEF Busy
<1> QED  BY <1>2, ProcessStep DEF AcceptReceived

LEMMA ApplyOwnStep ==
  ASSUME GovernanceIInv, NEW c \in GovernanceCalls, ApplyOwn(c), now' = now
  PROVE  GovernanceIInv'
<1>1. call[c] \in CallRecord \cup {NoCall} /\ call[c].at \in {"creating", "broadcasting"}
  BY DEF GovernanceIInv, GovernanceTypeOK, ApplyOwn
<1>2. Busy(c)  BY <1>1, CallTypes DEF Busy
<1> QED  BY <1>2, ProcessStep DEF ApplyOwn

LEMMA CreateStep ==
  ASSUME GovernanceIInv, NEW c \in GovernanceCalls, CreateDecree(c), now' = now
  PROVE  GovernanceIInv'
<1> DEFINE x == [at |-> "creating", decree |-> call[c].decree]
<1>1. /\ call[c].at = "authored"
      /\ issuedAt' = [issuedAt EXCEPT ![call[c].decree] = now]
      /\ call' = [call EXCEPT ![c] = x]
      /\ UNCHANGED <<keyholders, activeHolders, processedIds, actionLog, kills,
                     suspensions, builtAt, circulating, overlapped>>
  BY DEF CreateDecree
<1>2. call[c] \in CallRecord \cup {NoCall}  BY DEF GovernanceIInv, GovernanceTypeOK
<1>3. call[c].decree \in Decrees /\ Busy(c)  BY <1>1, <1>2, CallTypes DEF Busy
<1>4. /\ x \in CallRecord /\ x.at = "creating" /\ x.decree = call[c].decree
      /\ Vouched(x)
  BY <1>3 DEF CallRecord, Vouched
<1> HIDE DEF x
<1>5. call' \in [GovernanceCalls -> CallRecord \cup {NoCall}]
  BY <1>1, <1>4 DEF GovernanceIInv, GovernanceTypeOK
<1>6. issuedAt' \in [Decrees -> Nat]  BY <1>1 DEF GovernanceIInv, GovernanceTypeOK
<1>7. GovernanceTypeOK'  BY <1>1, <1>5, <1>6 DEF GovernanceIInv, GovernanceTypeOK
<1> QED  BY <1>1, <1>3, <1>4, <1>7, CallStep

LEMMA BroadcastStep ==
  ASSUME GovernanceIInv, NEW c \in GovernanceCalls, BroadcastDecree(c), now' = now
  PROVE  GovernanceIInv'
<1> DEFINE x == [call[c] EXCEPT !.at = "broadcasting"]
<1>1. /\ call[c].at = "creating"
      /\ circulating' = circulating \cup {call[c].decree}
      /\ call' = [call EXCEPT ![c] = x]
      /\ UNCHANGED <<keyholders, activeHolders, processedIds, actionLog, kills,
                     suspensions, builtAt, issuedAt, overlapped>>
  BY DEF BroadcastDecree
<1>2. call[c] \in CallRecord \cup {NoCall}  BY DEF GovernanceIInv, GovernanceTypeOK
<1>3. /\ call[c] \in [at : {"creating", "broadcasting"}, decree : Decrees]
      /\ call[c].decree \in Decrees /\ Busy(c)
  BY <1>1, <1>2, CallTypes DEF Busy
<1>4. /\ x \in CallRecord /\ x.at = "broadcasting" /\ x.decree = call[c].decree
      /\ Vouched(x)
  BY <1>3 DEF CallRecord, Vouched
<1> HIDE DEF x
<1>5. call' \in [GovernanceCalls -> CallRecord \cup {NoCall}]
  BY <1>1, <1>4 DEF GovernanceIInv, GovernanceTypeOK
<1>6. circulating' \subseteq Decrees  BY <1>1, <1>3 DEF GovernanceIInv, GovernanceTypeOK
<1>7. GovernanceTypeOK'  BY <1>1, <1>5, <1>6 DEF GovernanceIInv, GovernanceTypeOK
<1> QED  BY <1>1, <1>3, <1>4, <1>7, CallStep

-----------------------------------------------------------------------------
(* The registry, the readers and the clock.                                *)

\* No call moves, and nothing is logged.
LEMMA QuietStep ==
  ASSUME GovernanceIInv, GovernanceTypeOK', now' >= now, keyholders \subseteq keyholders',
         UNCHANGED <<builtAt, call, actionLog, kills, processedIds, overlapped>>,
         \A a \in Subjects : SuspensionInv(a)'
  PROVE  GovernanceIInv'
<1>1. LogInv'  BY LogKept
<1>2. \A c \in GovernanceCalls : CallInv(c)'
  BY DEF GovernanceIInv, CallInv, Vouched, Busy, Signatories, Standing, ActionString
<1>3. now' > 0  BY DEF GovernanceIInv, GovernanceTypeOK
<1> QED  BY <1>1, <1>2, <1>3 DEF GovernanceIInv

LEMMA RegistryStep ==
  ASSUME GovernanceIInv, RegistryChanges, now' = now
  PROVE  GovernanceIInv'
<1>1. /\ keyholders \subseteq keyholders' /\ keyholders' \subseteq KeyholderKeys
      /\ activeHolders' \subseteq keyholders'
  BY DEF GovernanceIInv, GovernanceTypeOK, RegistryChanges, deactivateKeyholder, addKeyholder
<1>2. UNCHANGED <<processedIds, actionLog, kills, suspensions, builtAt, issuedAt, circulating,
                  call, overlapped>>
  BY DEF RegistryChanges
<1>3. GovernanceTypeOK'  BY <1>1, <1>2 DEF GovernanceIInv, GovernanceTypeOK
<1>4. \A a \in Subjects : SuspensionInv(a)'  BY <1>2 DEF GovernanceIInv, SuspensionInv
<1>5. now' >= now  BY DEF GovernanceIInv, GovernanceTypeOK
<1> QED  BY <1>1, <1>2, <1>3, <1>4, <1>5, QuietStep

\* A reader or the lifting ends the suspension of one agent, at a time of day.
LEMMA LiftedAt ==
  ASSUME GovernanceIInv, ReadOrLift
  PROVE  \E a \in Subjects, t \in Nat :
           /\ t > 0 /\ suspensions[a] # NoSuspension
           /\ suspensions[a] \in SuspensionRecord
           /\ suspensions' = [suspensions EXCEPT ![a].liftedAt = t]
<1>1. PICK a \in Subjects : NoteExpiry(a) \/ liftSuspension(a)  BY DEF ReadOrLift
<1>2. /\ suspensions \in [Subjects -> SuspensionRecord \cup {NoSuspension}]
      /\ now \in Nat /\ now > 0
  BY DEF GovernanceIInv, GovernanceTypeOK
<1>3. suspensions[a] # NoSuspension /\ suspensions[a] \in SuspensionRecord
  BY <1>1, <1>2 DEF NoteExpiry, liftSuspension
<1>4. CASE liftSuspension(a)
  <2>1. suspensions' = [suspensions EXCEPT ![a].liftedAt = now]
    BY <1>4 DEF liftSuspension
  <2> QED  BY <1>2, <1>3, <2>1
<1>5. CASE NoteExpiry(a)
  <2>1. /\ ~SuspendedAt(suspensions[a], now) /\ suspensions[a].liftedAt = 0
        /\ suspensions' = [suspensions EXCEPT ![a].liftedAt = suspensions[a].expiresAt]
    BY <1>5 DEF NoteExpiry, isSuspended
  <2>2. suspensions[a].expiresAt \in Nat /\ suspensions[a].expiresAt > 0
    BY <1>3, <2>1 DEF SuspendedAt, SuspensionRecord
  <2> QED  BY <1>3, <2>1, <2>2
<1> QED  BY <1>1, <1>4, <1>5

LEMMA ReadStep ==
  ASSUME GovernanceIInv, ReadOrLift, now' = now
  PROVE  GovernanceIInv'
<1>1. PICK a \in Subjects, t \in Nat :
        /\ t > 0 /\ suspensions[a] # NoSuspension /\ suspensions[a] \in SuspensionRecord
        /\ suspensions' = [suspensions EXCEPT ![a].liftedAt = t]
  BY LiftedAt
<1>2. suspensions \in [Subjects -> SuspensionRecord \cup {NoSuspension}]
  BY DEF GovernanceIInv, GovernanceTypeOK
<1>3. UNCHANGED <<keyholders, activeHolders, processedIds, actionLog, kills, builtAt, issuedAt,
                  circulating, call, overlapped>>
  BY DEF ReadOrLift
<1>4. /\ suspensions'[a] \in SuspensionRecord
      /\ suspensions'[a].decree = suspensions[a].decree
      /\ \A b \in Subjects \ {a} : suspensions'[b] = suspensions[b]
      /\ suspensions' \in [Subjects -> SuspensionRecord \cup {NoSuspension}]
  BY <1>1, <1>2 DEF SuspensionRecord
<1>5. GovernanceTypeOK'  BY <1>3, <1>4 DEF GovernanceIInv, GovernanceTypeOK
<1>6. \A b \in Subjects : SuspensionInv(b)'
  BY <1>1, <1>3, <1>4 DEF GovernanceIInv, SuspensionInv
<1>7. now' >= now  BY DEF GovernanceIInv, GovernanceTypeOK
<1> QED  BY <1>3, <1>5, <1>6, <1>7, QuietStep

LEMMA GovernanceRests ==
  ASSUME GovernanceIInv, now' \in Nat, now' >= now, UNCHANGED governanceVars
  PROVE  GovernanceIInv'
<1>2. GovernanceTypeOK'  BY DEF GovernanceIInv, GovernanceTypeOK, governanceVars
<1>3. \A a \in Subjects : SuspensionInv(a)'
  BY DEF GovernanceIInv, SuspensionInv, governanceVars
<1> QED  BY <1>2, <1>3, QuietStep DEF governanceVars

LEMMA GovernanceInductive ==
  ASSUME GovernanceIInv, [GovernanceNext]_<<governanceVars, now>>
  PROVE  GovernanceIInv'
<1>1. CASE UNCHANGED <<governanceVars, now>>
  <2>1. now' \in Nat /\ now' >= now  BY <1>1 DEF GovernanceIInv, GovernanceTypeOK
  <2> QED  BY <1>1, <2>1, GovernanceRests
<1>2. CASE TickUpTo(GovernanceMaxTime) /\ UNCHANGED governanceVars
  <2>1. now' \in Nat /\ now' >= now  BY <1>2 DEF TickUpTo, GovernanceIInv, GovernanceTypeOK
  <2> QED  BY <1>2, <2>1, GovernanceRests
<1>3. CASE GovernanceSteps /\ now' = now
  <2>1. CASE RegistryChanges  BY <1>3, <2>1, RegistryStep
  <2>2. CASE ReadOrLift  BY <1>3, <2>2, ReadStep
  <2>3. ASSUME NEW c \in GovernanceCalls,
               \/ \E d \in Decrees : receiveGovernanceRecord(c, d) \/ createAndBroadcast(c, d)
               \/ \E k \in KeyholderKeys : VerifySigner(c, k)
               \/ FallsShort(c) \/ AcceptReceived(c) \/ CreateDecree(c)
               \/ BroadcastDecree(c) \/ ApplyOwn(c) \/ processAction(c)
        PROVE  GovernanceIInv'
    BY <1>3, <2>3, ReceiveStep, AuthorStep, SignerStep, ShortStep, AcceptStep, CreateStep,
       BroadcastStep, ApplyOwnStep, ProcessActionStep
  <2> QED  BY <1>3, <2>1, <2>2, <2>3 DEF GovernanceSteps
<1> QED  BY <1>1, <1>2, <1>3 DEF GovernanceNext

-----------------------------------------------------------------------------
(* The theorems.                                                           *)

LEMMA GovernanceInvImplies ==
  ASSUME GovernanceIInv
  PROVE  GovernanceTypeOK /\ EffectsHaveQuorum /\ AppliedOnce
<1>1. EffectsHaveQuorum
  <2>1. \A i \in DOMAIN actionLog : Quorum(actionLog[i])  BY DEF GovernanceIInv, LogInv
  <2>2. \A a \in kills : \E i \in DOMAIN actionLog :
          /\ Decree[actionLog[i]].type = "governance.kill"
          /\ Decree[actionLog[i]].target = a /\ Quorum(actionLog[i])
    BY <2>1 DEF GovernanceIInv, LogInv
  <2>3. ASSUME NEW a \in Subjects, suspensions[a] # NoSuspension
        PROVE  /\ Contains(actionLog, suspensions[a].decree)
               /\ Decree[suspensions[a].decree].target = a
               /\ Quorum(suspensions[a].decree)
    <3>1. /\ Decree[suspensions[a].decree].target = a
          /\ \E i \in DOMAIN actionLog : actionLog[i] = suspensions[a].decree
      BY <2>3 DEF GovernanceIInv, SuspensionInv
    <3>2. PICK i \in DOMAIN actionLog : actionLog[i] = suspensions[a].decree
      BY <3>1
    <3>3. i \in 1..Len(actionLog)
      BY LenProperties DEF GovernanceIInv, GovernanceTypeOK
    <3> QED  BY <2>1, <3>1, <3>2, <3>3 DEF Contains
  <2> QED  BY <2>2, <2>3 DEF EffectsHaveQuorum
<1>2. AppliedOnce
  <2> SUFFICES ASSUME NEW d \in Decrees \ overlapped
               PROVE  Cardinality({ i \in DOMAIN actionLog : actionLog[i] = d }) <= 1
    BY DEF AppliedOnce
  <2> DEFINE places == { i \in DOMAIN actionLog : actionLog[i] = d }
  <2>1. \A i, j \in places : i = j
    BY DEF GovernanceIInv, LogInv
  <2> HIDE DEF places
  <2>2. ASSUME places = {} PROVE Cardinality(places) <= 1
    <3>1. Cardinality(places) = 0  BY <2>2, FS_EmptySet
    <3> QED  BY <3>1
  <2>3. ASSUME places # {} PROVE Cardinality(places) <= 1
    <3>1. PICK i \in places : TRUE  BY <2>3
    <3>2. places = {i}  BY <2>1, <3>1
    <3>3. Cardinality({i}) = 1  BY FS_Singleton
    <3> QED  BY <3>2, <3>3
  <2>4. Cardinality(places) <= 1  BY <2>2, <2>3
  <2> QED  BY <2>4 DEF places
<1> QED  BY <1>1, <1>2 DEF GovernanceIInv

\* The inductive invariant holds for every threshold, registry and set of decrees.
THEOREM GovernanceInvariant == GovernanceSpec => []GovernanceIInv
<1>1. GovernanceInit => GovernanceIInv  BY GovernanceInitially
<1>2. GovernanceIInv /\ [GovernanceNext]_<<governanceVars, now>> => GovernanceIInv'
  BY GovernanceInductive
<1> QED  BY <1>1, <1>2, PTL DEF GovernanceSpec

\* Whoever is killed or suspended is so by a logged decree that orders it and whose
\* action string a quorum of keyholders signed (verifyMultiSig, processAction), though
\* the registry changes meanwhile.  It says nothing of what that string orders.
THEOREM QuorumStandsBehindEffects == GovernanceSpec => []EffectsHaveQuorum
<1>1. GovernanceIInv => EffectsHaveQuorum  BY GovernanceInvImplies
<1> QED  BY <1>1, GovernanceInvariant, PTL

\* A decree whose calls never overlapped is applied at most once: processedIds
\* keeps its echoes and repetitions away (receiveGovernanceRecord).
THEOREM DecreesApplyOnce == GovernanceSpec => []AppliedOnce
<1>1. GovernanceIInv => AppliedOnce  BY GovernanceInvImplies
<1> QED  BY <1>1, GovernanceInvariant, PTL

-----------------------------------------------------------------------------
(* Who becomes blocked.                                                    *)

\* The clock only ever ends a suspension.
LEMMA ClockFrees ==
  ASSUME NEW STATE x, x \in SuspensionRecord \cup {NoSuspension},
         NEW STATE t, t \in Nat, NEW u \in Nat, t <= u, SuspendedAt(x, u)
  PROVE  SuspendedAt(x, t)
<1>1. /\ x # NoSuspension /\ x \in SuspensionRecord /\ x.liftedAt = 0
      /\ x.expiresAt > 0 => u < x.expiresAt
  BY DEF SuspendedAt
<1>2. x.expiresAt \in Nat  BY <1>1 DEF SuspensionRecord
<1> QED  BY <1>1, <1>2 DEF SuspendedAt

\* A step that leaves kills, log and suspensions alone blocks nobody.
LEMMA NobodyBlocked ==
  ASSUME GovernanceIInv, now' \in Nat, now <= now', UNCHANGED <<kills, suspensions>>
  PROVE  /\ \A a \in kills : a \in kills' /\ suspensions'[a] = NoSuspension
         /\ \A a \in Subjects : isBlocked(a)' => isBlocked(a)
<1>1. \A a \in kills : a \in Subjects /\ suspensions[a] = NoSuspension
  BY DEF GovernanceIInv, GovernanceTypeOK, SuspensionInv
<1>2. ASSUME NEW a \in Subjects, isBlocked(a)'
      PROVE  isBlocked(a)
  <2>1. CASE a \in kills  BY <2>1 DEF isBlocked
  <2>2. CASE SuspendedAt(suspensions[a], now')
    <3>1. suspensions[a] \in SuspensionRecord \cup {NoSuspension} /\ now \in Nat
      BY DEF GovernanceIInv, GovernanceTypeOK
    <3>2. SuspendedAt(suspensions[a], now)  BY <2>2, <3>1, ClockFrees
    <3> QED  BY <3>2 DEF isBlocked, isSuspended
  <2> QED  BY <1>2, <2>1, <2>2 DEF isBlocked, isSuspended
<1> QED  BY <1>1, <1>2

\* A reader or the lifting frees.
LEMMA ReadersFree ==
  ASSUME GovernanceIInv, ReadOrLift, now' = now
  PROVE  /\ \A a \in kills : a \in kills' /\ suspensions'[a] = NoSuspension
         /\ \A a \in Subjects : isBlocked(a)' => isBlocked(a)
<1>1. PICK a \in Subjects, t \in Nat :
        /\ t > 0 /\ suspensions[a] # NoSuspension /\ suspensions[a] \in SuspensionRecord
        /\ suspensions' = [suspensions EXCEPT ![a].liftedAt = t]
  BY LiftedAt
<1>2. /\ suspensions \in [Subjects -> SuspensionRecord \cup {NoSuspension}]
      /\ \A b \in kills : b \in Subjects /\ suspensions[b] = NoSuspension
  BY DEF GovernanceIInv, GovernanceTypeOK, SuspensionInv
<1>3. kills' = kills  BY DEF ReadOrLift
<1>4. suspensions'[a].liftedAt = t
      /\ \A b \in Subjects \ {a} : suspensions'[b] = suspensions[b]
  BY <1>1, <1>2 DEF SuspensionRecord
<1>5. \A b \in kills : suspensions'[b] = NoSuspension  BY <1>1, <1>2, <1>4
<1>6. ASSUME NEW b \in Subjects, isBlocked(b)'
      PROVE  isBlocked(b)
  <2>1. CASE b = a
    <3>1. ~SuspendedAt(suspensions'[b], now')  BY <1>1, <1>4, <2>1 DEF SuspendedAt
    <3> QED  BY <1>3, <1>6, <3>1 DEF isBlocked, isSuspended
  <2>2. CASE b # a
    BY <1>3, <1>4, <1>6, <2>2 DEF isBlocked, isSuspended
  <2> QED  BY <2>1, <2>2
<1> QED  BY <1>3, <1>5, <1>6

\* A logged decree blocks no other agent than its target.
LEMMA DecreeBlocksTarget ==
  ASSUME GovernanceIInv, GovernanceIInv', NEW c \in GovernanceCalls, processAction(c), now' = now
  PROVE  /\ \A a \in kills : a \in kills' /\ suspensions'[a] = NoSuspension
         /\ Len(actionLog') = Len(actionLog) + 1
         /\ \A a \in Subjects : ~isBlocked(a) /\ isBlocked(a)' =>
              Decree[Last(actionLog')].target = a
<1> DEFINE d == call[c].decree
<1>1. actionLog' = Append(actionLog, d)  BY DEF processAction, ApplyDecree
<1>2. /\ kills \subseteq kills' /\ kills' \subseteq kills \cup {Decree[d].target}
      /\ \A b \in Subjects \ {Decree[d].target} : suspensions'[b] = suspensions[b]
  <2>1. suspensions \in [Subjects -> SuspensionRecord \cup {NoSuspension}]
    BY DEF GovernanceIInv, GovernanceTypeOK
  <2> QED  BY <2>1 DEF processAction, ApplyDecree
<1>3. \A a \in kills : a \in kills' /\ suspensions'[a] = NoSuspension
  BY <1>2 DEF GovernanceIInv, GovernanceTypeOK, SuspensionInv
<1>4. actionLog \in Seq(Decrees) /\ d \in Decrees
  <2>1. call[c] \in CallRecord \cup {NoCall} /\ call[c].at = "processing"
    BY DEF GovernanceIInv, GovernanceTypeOK, processAction
  <2>2. actionLog \in Seq(Decrees)  BY DEF GovernanceIInv, GovernanceTypeOK
  <2> QED  BY <2>1, <2>2, CallTypes
<1> HIDE DEF d
<1>5. Len(actionLog') = Len(actionLog) + 1 /\ actionLog'[Len(actionLog) + 1] = d
  BY <1>1, <1>4, AppendProperties
<1>6. Last(actionLog') = d  BY <1>5 DEF Last
<1>7. \A a \in Subjects \ {Decree[d].target} : isBlocked(a)' => isBlocked(a)
  BY <1>2 DEF isBlocked, isSuspended
<1> QED  BY <1>3, <1>5, <1>6, <1>7

\* The step of BlockedByDecreeOnly.
BlocksByDecree ==
  /\ \A a \in kills : a \in kills' /\ suspensions'[a] = NoSuspension
  /\ \A a \in Subjects : ~isBlocked(a) /\ isBlocked(a)' =>
       /\ Len(actionLog') = Len(actionLog) + 1
       /\ Decree[Last(actionLog')].target = a

LEMMA GovernanceBlocks ==
  ASSUME GovernanceIInv, GovernanceIInv', GovernanceNext
  PROVE  BlocksByDecree
<1>1. now \in Nat  BY DEF GovernanceIInv, GovernanceTypeOK
<1>2. CASE TickUpTo(GovernanceMaxTime) /\ UNCHANGED governanceVars
  <2>1. now' \in Nat /\ now <= now' /\ UNCHANGED <<kills, suspensions>>
    BY <1>1, <1>2 DEF TickUpTo, governanceVars
  <2> QED  BY <2>1, NobodyBlocked DEF BlocksByDecree
<1>3. CASE GovernanceSteps /\ now' = now
  <2>1. CASE ReadOrLift  BY <1>3, <2>1, ReadersFree DEF BlocksByDecree
  <2>2. CASE \E c \in GovernanceCalls : processAction(c)
    BY <1>3, <2>2, DecreeBlocksTarget DEF BlocksByDecree
  <2>3. CASE UNCHANGED <<kills, suspensions>>
    BY <1>1, <1>3, <2>3, NobodyBlocked DEF BlocksByDecree
  <2>4. \/ ReadOrLift \/ \E c \in GovernanceCalls : processAction(c)
        \/ UNCHANGED <<kills, suspensions>>
    BY <1>3 DEF GovernanceSteps, RegistryChanges, receiveGovernanceRecord, createAndBroadcast,
       VerifySigner, FallsShort, AcceptReceived, CreateDecree, BroadcastDecree, ApplyOwn
  <2> QED  BY <2>1, <2>2, <2>3, <2>4
<1> QED  BY <1>2, <1>3 DEF GovernanceNext

\* Nothing but a decree about it blocks an agent, and a killed agent stays killed
\* and free of suspensions (applySuspend, applyKill, isSuspended).
THEOREM DecreesBlock == GovernanceSpec => BlockedByDecreeOnly
<1>1. GovernanceIInv /\ GovernanceIInv' /\ [GovernanceNext]_<<governanceVars, now>> =>
        [BlocksByDecree]_<<governanceVars, now>>
  BY GovernanceBlocks
<1>2. GovernanceSpec => [][BlocksByDecree]_<<governanceVars, now>>
  BY <1>1, GovernanceInvariant, PTL DEF GovernanceSpec
<1>3. BlocksByDecree <=>
        /\ \A a \in kills : a \in kills' /\ suspensions'[a] = NoSuspension
        /\ \A a \in Subjects : ~isBlocked(a) /\ isBlocked(a)' =>
             /\ Len(actionLog') = Len(actionLog) + 1
             /\ Decree[Last(actionLog')].target = a
  BY DEF BlocksByDecree
<1> QED  BY <1>2, <1>3, PTL DEF BlockedByDecreeOnly

=============================================================================
