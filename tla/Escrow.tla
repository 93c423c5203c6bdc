------------------------------- MODULE Escrow -------------------------------
(***************************************************************************)
(* The escrow manager (src/src/marketplace/escrow.ts): a map of escrows,   *)
(* each a little state machine driven by calls that may come in any order  *)
(* and at any time.  Every operation is an async function without a wait,  *)
(* so each is one step.  The map is in memory and nothing is ever removed  *)
(* from it.                                                                *)
(*                                                                         *)
(* claims, refunds and disputes count the calls that succeeded; they are   *)
(* history, read by the properties only.                                   *)
(***************************************************************************)
EXTENDS Naturals

CONSTANTS
  StartTime,            \* the clock, in seconds, when the manager is made
  ExecutionTimeout,     \* executionTimeoutSec
  VerificationTimeout,  \* verificationTimeoutSec
  MaxEscrows,           \* bound: escrows created
  MaxTime,              \* bound: the clock
  MaxCalls              \* bound: payments and disputes of one escrow

ASSUME EscrowAssumption ==
  /\ StartTime \in Nat /\ MaxTime \in Nat /\ StartTime <= MaxTime
  /\ ExecutionTimeout \in Nat /\ VerificationTimeout \in Nat
  /\ MaxEscrows \in Nat /\ MaxCalls \in Nat

VARIABLES
  now,       \* Date.now() in seconds
  made,      \* how many escrows were made; they are named 1 .. made
  escrows,   \* the map of escrows
  claims, refunds, disputes

escrowVars == <<now, made, escrows, claims, refunds, disputes>>

EscrowState == {"pending", "funded", "locked", "claimable", "claimed",
                "refunded", "disputed"}

EscrowRecord == [state : EscrowState, trustTier : 1..3, paidIn : BOOLEAN,
                 createdAt : Nat, lockUntil : Nat]

Ids == 1..made

EscrowInit ==
  /\ now = StartTime
  /\ made = 0
  /\ escrows = [id \in {} |-> {}]
  /\ claims = [id \in {} |-> 0]
  /\ refunds = [id \in {} |-> 0]
  /\ disputes = [id \in {} |-> 0]

Tick ==
  /\ now < MaxTime
  /\ now' = now + 1
  /\ UNCHANGED <<made, escrows, claims, refunds, disputes>>

LockDuration(tier) ==
  CASE tier = 1 -> 0
    [] tier = 2 -> ExecutionTimeout + VerificationTimeout
    [] tier = 3 -> ExecutionTimeout * 3

\* A map with one more entry.
With(map, id, value) ==
  [i \in 1..id |-> IF i = id THEN value ELSE map[i]]

create(tier) ==
  LET escrow == [state |-> "pending", trustTier |-> tier, paidIn |-> FALSE,
                 createdAt |-> now, lockUntil |-> now + LockDuration(tier)] IN
  /\ made < MaxEscrows
  /\ made' = made + 1
  /\ escrows' = With(escrows, made + 1, escrow)
  /\ claims' = With(claims, made + 1, 0)
  /\ refunds' = With(refunds, made + 1, 0)
  /\ disputes' = With(disputes, made + 1, 0)
  /\ UNCHANGED now

\* Mutant of Fundable: any escrow may be funded, whatever its state.
FundableAlways(id) == TRUE

Fundable(id) == escrows[id].state = "pending"

fund(id) ==
  /\ Fundable(id)
  /\ escrows' = [escrows EXCEPT ![id].state = "funded", ![id].paidIn = TRUE]
  /\ UNCHANGED <<now, made, claims, refunds, disputes>>

\* Mutant of Confirmable: a payment nobody made is confirmed too.
ConfirmableUnfunded(id) == escrows[id].state \in {"pending", "funded"}

Confirmable(id) == escrows[id].state = "funded"

confirm(id) ==
  /\ Confirmable(id)
  /\ escrows' = [escrows EXCEPT ![id].state = "locked"]
  /\ UNCHANGED <<now, made, claims, refunds, disputes>>

\* No operation makes an escrow "claimable".
Claimable(id) ==
  /\ escrows[id].state \in {"locked", "claimable"}
  /\ now >= escrows[id].lockUntil \/ escrows[id].trustTier = 1

claim(id) ==
  /\ Claimable(id)
  /\ claims[id] < MaxCalls
  /\ escrows' = [escrows EXCEPT ![id].state = "claimed"]
  /\ claims' = [claims EXCEPT ![id] = @ + 1]
  /\ UNCHANGED <<now, made, refunds, disputes>>

\* lockUntil is a point in time, and it is that point that is doubled.
AutoRefundTime(id) == escrows[id].lockUntil * 2

\* Mutant of Refundable: a lock that has run out is enough.
RefundableAtLock(id) ==
  now >= escrows[id].lockUntil \/ escrows[id].state = "disputed"

Refundable(id) ==
  now >= AutoRefundTime(id) \/ escrows[id].state = "disputed"

refund(id) ==
  /\ Refundable(id)
  /\ refunds[id] < MaxCalls
  /\ escrows' = [escrows EXCEPT ![id].state = "refunded"]
  /\ refunds' = [refunds EXCEPT ![id] = @ + 1]
  /\ UNCHANGED <<now, made, claims, disputes>>

\* Any escrow can be disputed, also one that was paid out.
dispute(id) ==
  /\ disputes[id] < MaxCalls
  /\ escrows' = [escrows EXCEPT ![id].state = "disputed"]
  /\ disputes' = [disputes EXCEPT ![id] = @ + 1]
  /\ UNCHANGED <<now, made, claims, refunds>>

EscrowNext ==
  \/ Tick
  \/ \E tier \in 1..3 : create(tier)
  \/ \E id \in Ids : \/ fund(id) \/ confirm(id)
                     \/ claim(id) \/ refund(id) \/ dispute(id)

EscrowSpec == EscrowInit /\ [][EscrowNext]_escrowVars

-----------------------------------------------------------------------------
(* Properties.                                                             *)

EscrowTypeOK ==
  /\ now \in Nat
  /\ made \in Nat
  /\ escrows \in [Ids -> EscrowRecord]
  /\ claims \in [Ids -> Nat]
  /\ refunds \in [Ids -> Nat]
  /\ disputes \in [Ids -> Nat]

\* The worker is paid at most once, whatever is called on the escrow before and
\* after: no sequence of calls leads from "claimed" back to "locked" (claim,
\* fund; tests/marketplace.test.ts, "should not fund an already funded escrow").
ClaimedOnce == \A id \in Ids : claims[id] <= 1

\* The worker is only paid from an escrow the requester paid into, and not
\* before the time lock of its tier has run out.
ClaimIsBacked ==
  \A id \in Ids : claims[id] > 0 =>
    /\ escrows[id].paidIn
    /\ now >= escrows[id].createdAt + LockDuration(escrows[id].trustTier)

\* Until somebody disputes or the auto-refund time comes, the money of an escrow
\* leaves it at most once, to the worker or to the requester (claim, refund).
UndisputedPaidOnce ==
  \A id \in Ids :
    disputes[id] = 0 /\ now < AutoRefundTime(id) => claims[id] + refunds[id] <= 1

\* "Can only refund after lock expires if not claimed" (the comment in refund):
\* what the worker has claimed is not refunded to the requester as well, unless
\* somebody disputed.
NoRefundAfterClaim ==
  \A id \in Ids : disputes[id] = 0 /\ claims[id] > 0 => refunds[id] = 0

\* "2x lock period" (the comment on autoRefundTime; SPEC.md 6.4): an escrow that
\* is locked that long can be refunded.
RefundableInTime ==
  \A id \in Ids :
    /\ escrows[id].state = "locked"
    /\ now >= escrows[id].createdAt
                + 2 * (escrows[id].lockUntil - escrows[id].createdAt)
    => Refundable(id)

-----------------------------------------------------------------------------
(* The inductive invariant.                                                *)

\* An escrow that can still be claimed, or be brought to where it can, has not
\* been claimed; what is locked was paid in; a refund has a cause.
History(id) ==
  /\ escrows[id].state \in {"pending", "funded", "locked"} => claims[id] = 0
  /\ escrows[id].state \in {"funded", "locked"} => escrows[id].paidIn
  /\ escrows[id].state # "claimable"
  /\ escrows[id].createdAt <= now
  /\ escrows[id].lockUntil
       = escrows[id].createdAt + LockDuration(escrows[id].trustTier)
  /\ escrows[id].state = "disputed" => disputes[id] > 0
  /\ refunds[id] > 0 => disputes[id] > 0 \/ now >= AutoRefundTime(id)
  /\ claims[id] <= 1
  /\ claims[id] > 0 =>
       /\ escrows[id].paidIn
       /\ now >= escrows[id].createdAt + LockDuration(escrows[id].trustTier)

EscrowIInv == EscrowTypeOK /\ \A id \in Ids : History(id)
=============================================================================
