--------------------------- MODULE Escrow_proofs ---------------------------
(***************************************************************************)
(* What the escrow manager guarantees for any timeouts, any number of      *)
(* escrows and any sequence of calls.                                      *)
(***************************************************************************)
EXTENDS Escrow, TLAPS

USE EscrowAssumption

\* The lock period is a number of seconds.
LEMMA LockDurationType ==
  ASSUME NEW tier \in 1..3
  PROVE  LockDuration(tier) \in Nat
BY DEF LockDuration

\* Tier 1 has no lock.
LEMMA NoLockForTier1 == LockDuration(1) = 0
<1>1. 1 = 1 /\ ~(1 = 2) /\ ~(1 = 3)  OBVIOUS
<1> QED  BY <1>1, Z3 DEF LockDuration

LEMMA InitInv ==
  ASSUME EscrowInit
  PROVE  EscrowIInv
BY DEF EscrowInit, EscrowIInv, EscrowTypeOK, Ids

\* A new escrow starts pending, unclaimed and with the lock of its tier.
LEMMA CreateStep ==
  ASSUME EscrowIInv, NEW tier \in 1..3, create(tier)
  PROVE  EscrowIInv'
<1> DEFINE escrow == [state |-> "pending", trustTier |-> tier, paidIn |-> FALSE,
                      createdAt |-> now, lockUntil |-> now + LockDuration(tier)]
<1>1. made \in Nat /\ now \in Nat /\ made' = made + 1 /\ now' = now
  BY DEF EscrowIInv, EscrowTypeOK, create
<1>2. escrow \in EscrowRecord
  BY <1>1, LockDurationType DEF EscrowRecord, EscrowState
<1>3. /\ escrow.state = "pending" /\ escrow.trustTier = tier
      /\ escrow.createdAt = now /\ escrow.lockUntil = now + LockDuration(tier)
  OBVIOUS
<1>4. /\ escrows' = With(escrows, made + 1, escrow)
      /\ claims' = With(claims, made + 1, 0)
      /\ refunds' = With(refunds, made + 1, 0)
      /\ disputes' = With(disputes, made + 1, 0)
  BY DEF create
<1> HIDE DEF escrow
<1>5. /\ escrows \in [1..made -> EscrowRecord]
      /\ claims \in [1..made -> Nat] /\ refunds \in [1..made -> Nat]
      /\ disputes \in [1..made -> Nat]
  BY DEF EscrowIInv, EscrowTypeOK, Ids
<1>6. /\ escrows' \in [1..(made + 1) -> EscrowRecord]
      /\ escrows'[made + 1] = escrow
      /\ \A i \in 1..made : escrows'[i] = escrows[i]
  BY <1>1, <1>2, <1>4, <1>5 DEF With
<1>7. /\ claims' \in [1..(made + 1) -> Nat]
      /\ claims'[made + 1] = 0
      /\ \A i \in 1..made : claims'[i] = claims[i]
  BY <1>1, <1>4, <1>5 DEF With
<1>8. /\ refunds' \in [1..(made + 1) -> Nat]
      /\ refunds'[made + 1] = 0
      /\ \A i \in 1..made : refunds'[i] = refunds[i]
  BY <1>1, <1>4, <1>5 DEF With
<1>9. /\ disputes' \in [1..(made + 1) -> Nat]
      /\ disputes'[made + 1] = 0
      /\ \A i \in 1..made : disputes'[i] = disputes[i]
  BY <1>1, <1>4, <1>5 DEF With
<1>10. EscrowTypeOK'
  BY <1>1, <1>6, <1>7, <1>8, <1>9 DEF EscrowTypeOK, Ids
<1>11. ASSUME NEW id \in Ids' PROVE History(id)'
  <2>1. id \in 1..made \/ id = made + 1  BY <1>1 DEF Ids
  <2>2. CASE id = made + 1
    BY <1>1, <1>3, <1>6, <1>7, <1>8, <1>9, <2>2 DEF History
  <2>3. CASE id \in 1..made
    <3>1. History(id)  BY <2>3 DEF EscrowIInv, Ids
    <3>2. escrows'[id] = escrows[id] /\ claims'[id] = claims[id]
          /\ refunds'[id] = refunds[id] /\ disputes'[id] = disputes[id]
      BY <1>6, <1>7, <1>8, <1>9, <2>3
    <3> QED  BY <1>1, <3>1, <3>2 DEF History, AutoRefundTime
  <2> QED  BY <2>1, <2>2, <2>3
<1> QED  BY <1>10, <1>11 DEF EscrowIInv

\* The calls on an escrow that exists.
LEMMA CallStep ==
  ASSUME EscrowIInv, NEW id \in Ids,
         fund(id) \/ confirm(id) \/ claim(id) \/ refund(id) \/ dispute(id)
  PROVE  EscrowIInv'
<1>1. /\ escrows[id] \in EscrowRecord /\ History(id)
      /\ claims[id] \in Nat /\ refunds[id] \in Nat /\ disputes[id] \in Nat
      /\ now \in Nat
  BY DEF EscrowIInv, EscrowTypeOK
<1>2. /\ escrows[id].state \in EscrowState /\ escrows[id].trustTier \in 1..3
      /\ escrows[id].paidIn \in BOOLEAN
      /\ escrows[id].createdAt \in Nat /\ escrows[id].lockUntil \in Nat
      /\ LockDuration(escrows[id].trustTier) \in Nat
  BY <1>1, LockDurationType DEF EscrowRecord
<1>3. now' = now /\ made' = made /\ Ids' = Ids
  BY DEF fund, confirm, claim, refund, dispute, Ids
<1>4. \A i \in Ids \ {id} : /\ escrows'[i] = escrows[i]
                            /\ claims'[i] = claims[i]
                            /\ refunds'[i] = refunds[i]
                            /\ disputes'[i] = disputes[i]
  BY DEF fund, confirm, claim, refund, dispute, EscrowIInv, EscrowTypeOK
<1>5. \A i \in Ids \ {id} : History(i)'
  <2> TAKE i \in Ids \ {id}
  <2>1. History(i)  BY DEF EscrowIInv
  <2> QED  BY <1>3, <1>4, <2>1 DEF History, AutoRefundTime
<1>6. CASE fund(id)
  <2>1. escrows' = [escrows EXCEPT ![id].state = "funded", ![id].paidIn = TRUE]
        /\ UNCHANGED <<claims, refunds, disputes>>
    BY <1>6 DEF fund
  <2>2. escrows'[id] = [escrows[id] EXCEPT !.state = "funded", !.paidIn = TRUE]
    BY <2>1 DEF EscrowIInv, EscrowTypeOK
  <2>3. escrows'[id] \in EscrowRecord
    BY <1>1, <2>2 DEF EscrowRecord, EscrowState
  <2>4. EscrowTypeOK'  BY <1>3, <2>1, <2>3 DEF EscrowIInv, EscrowTypeOK
  <2>5. /\ escrows'[id].state = "funded" /\ escrows'[id].paidIn
        /\ escrows'[id].trustTier = escrows[id].trustTier
        /\ escrows'[id].createdAt = escrows[id].createdAt
        /\ escrows'[id].lockUntil = escrows[id].lockUntil
    BY <1>1, <2>2 DEF EscrowRecord
  <2>6. History(id)'
    BY <1>1, <1>2, <1>3, <1>6, <2>1, <2>5
    DEF History, fund, Fundable, AutoRefundTime
  <2> QED  BY <1>3, <1>5, <2>4, <2>6 DEF EscrowIInv
<1>7. ASSUME NEW state \in EscrowState,
             escrows' = [escrows EXCEPT ![id].state = state]
      PROVE  /\ escrows' \in [Ids -> EscrowRecord]
             /\ escrows'[id].state = state
             /\ escrows'[id].paidIn = escrows[id].paidIn
             /\ escrows'[id].trustTier = escrows[id].trustTier
             /\ escrows'[id].createdAt = escrows[id].createdAt
             /\ escrows'[id].lockUntil = escrows[id].lockUntil
  <2>1. escrows'[id] = [escrows[id] EXCEPT !.state = state]
    BY <1>7 DEF EscrowIInv, EscrowTypeOK
  <2>2. escrows'[id] \in EscrowRecord  BY <1>1, <1>7, <2>1 DEF EscrowRecord
  <2>3. escrows' \in [Ids -> EscrowRecord]  BY <1>7, <2>2 DEF EscrowIInv, EscrowTypeOK
  <2> QED  BY <1>1, <2>1, <2>3 DEF EscrowRecord
<1>8. CASE confirm(id)
  <2>1. escrows' = [escrows EXCEPT ![id].state = "locked"]
        /\ UNCHANGED <<claims, refunds, disputes>>
        /\ escrows[id].state = "funded"
    BY <1>8 DEF confirm, Confirmable
  <2>2. "locked" \in EscrowState  BY DEF EscrowState
  <2>3. EscrowTypeOK'  BY <1>3, <1>7, <2>1, <2>2 DEF EscrowIInv, EscrowTypeOK
  <2>4. History(id)'
    BY <1>1, <1>2, <1>3, <1>7, <2>1, <2>2 DEF History, AutoRefundTime
  <2> QED  BY <1>3, <1>5, <2>3, <2>4 DEF EscrowIInv
<1>9. CASE claim(id)
  <2>1. escrows' = [escrows EXCEPT ![id].state = "claimed"]
        /\ claims' = [claims EXCEPT ![id] = @ + 1]
        /\ UNCHANGED <<refunds, disputes>>
        /\ Claimable(id)
    BY <1>9 DEF claim
  <2>2. "claimed" \in EscrowState  BY DEF EscrowState
  <2>3. EscrowTypeOK'
    <3>1. escrows' \in [Ids -> EscrowRecord]  BY <1>7, <2>1, <2>2
    <3>2. claims' \in [Ids -> Nat]  BY <2>1 DEF EscrowIInv, EscrowTypeOK
    <3> QED  BY <1>3, <2>1, <3>1, <3>2 DEF EscrowIInv, EscrowTypeOK
  <2>4. claims[id] = 0 /\ claims'[id] = 1 /\ escrows[id].paidIn
    BY <1>1, <2>1 DEF Claimable, History, EscrowIInv, EscrowTypeOK
  <2>5. now >= escrows[id].createdAt + LockDuration(escrows[id].trustTier)
    <3>1. CASE escrows[id].trustTier = 1
      <4>1. LockDuration(1) = 0  BY NoLockForTier1
      <4>2. now >= escrows[id].createdAt
        BY <1>1 DEF History
      <4> QED  BY <1>2, <3>1, <4>1, <4>2
    <3>2. CASE escrows[id].trustTier # 1
      BY <1>1, <1>2, <2>1, <3>2 DEF Claimable, History
    <3> QED  BY <3>1, <3>2
  <2>6. /\ escrows'[id].state = "claimed"
        /\ escrows'[id].paidIn = escrows[id].paidIn
        /\ escrows'[id].trustTier = escrows[id].trustTier
        /\ escrows'[id].createdAt = escrows[id].createdAt
        /\ escrows'[id].lockUntil = escrows[id].lockUntil
    BY <1>7, <2>1, <2>2
  <2>7. History(id)'
    BY <1>1, <1>2, <1>3, <2>1, <2>4, <2>5, <2>6 DEF History, AutoRefundTime
  <2> QED  BY <1>3, <1>5, <2>3, <2>7 DEF EscrowIInv
<1>10. CASE refund(id)
  <2>1. escrows' = [escrows EXCEPT ![id].state = "refunded"]
        /\ refunds' = [refunds EXCEPT ![id] = @ + 1]
        /\ UNCHANGED <<claims, disputes>>
        /\ Refundable(id)
    BY <1>10 DEF refund
  <2>2. "refunded" \in EscrowState  BY DEF EscrowState
  <2>3. EscrowTypeOK'
    <3>1. escrows' \in [Ids -> EscrowRecord]  BY <1>7, <2>1, <2>2
    <3>2. refunds' \in [Ids -> Nat]  BY <2>1 DEF EscrowIInv, EscrowTypeOK
    <3> QED  BY <1>3, <2>1, <3>1, <3>2 DEF EscrowIInv, EscrowTypeOK
  <2>4. refunds'[id] = refunds[id] + 1  BY <2>1 DEF EscrowIInv, EscrowTypeOK
  <2>5. History(id)'
    BY <1>1, <1>2, <1>3, <1>7, <2>1, <2>2, <2>4
    DEF History, AutoRefundTime, Refundable
  <2> QED  BY <1>3, <1>5, <2>3, <2>5 DEF EscrowIInv
<1>11. CASE dispute(id)
  <2>1. escrows' = [escrows EXCEPT ![id].state = "disputed"]
        /\ disputes' = [disputes EXCEPT ![id] = @ + 1]
        /\ UNCHANGED <<claims, refunds>>
    BY <1>11 DEF dispute
  <2>2. "disputed" \in EscrowState  BY DEF EscrowState
  <2>3. EscrowTypeOK'
    <3>1. escrows' \in [Ids -> EscrowRecord]  BY <1>7, <2>1, <2>2
    <3>2. disputes' \in [Ids -> Nat]  BY <2>1 DEF EscrowIInv, EscrowTypeOK
    <3> QED  BY <1>3, <2>1, <3>1, <3>2 DEF EscrowIInv, EscrowTypeOK
  <2>4. disputes'[id] = disputes[id] + 1  BY <2>1 DEF EscrowIInv, EscrowTypeOK
  <2>5. History(id)'
    BY <1>1, <1>2, <1>3, <1>7, <2>1, <2>2, <2>4 DEF History, AutoRefundTime
  <2> QED  BY <1>3, <1>5, <2>3, <2>5 DEF EscrowIInv
<1> QED  BY <1>6, <1>8, <1>9, <1>10, <1>11

\* Time only makes true what a claim or a refund needs.
LEMMA TickStep ==
  ASSUME EscrowIInv, Tick
  PROVE  EscrowIInv'
<1>1. EscrowTypeOK' /\ Ids' = Ids  BY DEF EscrowIInv, EscrowTypeOK, Tick, Ids
<1>2. ASSUME NEW id \in Ids PROVE History(id)'
  <2>1. History(id) /\ escrows[id] \in EscrowRecord /\ now \in Nat
    BY DEF EscrowIInv, EscrowTypeOK
  <2>2. /\ escrows[id].createdAt \in Nat /\ escrows[id].lockUntil \in Nat
        /\ LockDuration(escrows[id].trustTier) \in Nat
    BY <2>1, LockDurationType DEF EscrowRecord
  <2>3. now' = now + 1 /\ UNCHANGED <<escrows, claims, refunds, disputes>>
    BY DEF Tick
  <2> QED  BY <2>1, <2>2, <2>3 DEF History, AutoRefundTime
<1> QED  BY <1>1, <1>2 DEF EscrowIInv

LEMMA StepInv ==
  ASSUME EscrowIInv, [EscrowNext]_escrowVars
  PROVE  EscrowIInv'
<1>1. CASE UNCHANGED escrowVars
  BY <1>1 DEF EscrowIInv, EscrowTypeOK, Ids, History, AutoRefundTime, escrowVars
<1> QED  BY <1>1, TickStep, CreateStep, CallStep DEF EscrowNext

\* What can still be claimed was not claimed, and what was refunded had a cause.
THEOREM Invariance == EscrowSpec => []EscrowIInv
BY InitInv, StepInv, PTL DEF EscrowSpec

\* The types of the escrow map, for every sequence of calls.
THEOREM TypeCorrect == EscrowSpec => []EscrowTypeOK
<1>1. EscrowIInv => EscrowTypeOK  BY DEF EscrowIInv
<1> QED  BY <1>1, Invariance, PTL

\* The worker is paid at most once (claim).
THEOREM WorkerPaidOnce == EscrowSpec => []ClaimedOnce
<1>1. EscrowIInv => ClaimedOnce  BY DEF EscrowIInv, History, ClaimedOnce
<1> QED  BY <1>1, Invariance, PTL

\* The worker is paid from a funded escrow after its lock (claim).
THEOREM WorkerPaidFromLock == EscrowSpec => []ClaimIsBacked
<1>1. EscrowIInv => ClaimIsBacked  BY DEF EscrowIInv, History, ClaimIsBacked
<1> QED  BY <1>1, Invariance, PTL

\* Without a dispute the escrow pays one party, until the auto-refund time
\* (claim, refund).
THEOREM PaysOneParty == EscrowSpec => []UndisputedPaidOnce
<1>1. ASSUME EscrowIInv, NEW id \in Ids, disputes[id] = 0, now < AutoRefundTime(id)
      PROVE  claims[id] + refunds[id] <= 1
  <2>1. /\ claims[id] \in Nat /\ refunds[id] \in Nat /\ now \in Nat
        /\ escrows[id] \in EscrowRecord /\ History(id)
    BY <1>1 DEF EscrowIInv, EscrowTypeOK
  <2>2. refunds[id] = 0
    BY <1>1, <2>1 DEF History, AutoRefundTime, EscrowRecord
  <2>3. claims[id] <= 1  BY <2>1 DEF History
  <2> QED  BY <2>1, <2>2, <2>3
<1>2. EscrowIInv => UndisputedPaidOnce  BY <1>1 DEF UndisputedPaidOnce
<1> QED  BY <1>2, Invariance, PTL
=============================================================================
