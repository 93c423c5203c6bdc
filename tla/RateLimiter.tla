---------------------------- MODULE RateLimiter ----------------------------
(***************************************************************************)
(* The per-peer rate limiter (src/src/ratelimit/limiter.ts).               *)
(*                                                                         *)
(* For a peer and a record type, accepted is the history of the times at   *)
(* which messages were accepted, and expired says how many of them         *)
(* pruneWindow has removed: the sliding window of the source is the rest.  *)
(* A window is pruned when it is next looked at, not when the clock moves. *)
(* refused is the history of the violations that count towards the flag.   *)
(* Histories start afresh where the code drops what it knows of a peer.    *)
(***************************************************************************)
EXTENDS Clock, Sequences, FiniteSets

CONSTANTS
  Senders,        \* the peers
  MessageTypes,   \* the record types
  RateWindow,     \* config.windowSeconds
  FlagAfter,      \* config.autoFlagThreshold
  Cooldown,       \* config.violationCooldownSeconds
  FallbackLimit,
  Limits,         \* the limits that may be configured, 0 for none
  LimiterMaxTime, \* bound: the clock
  MaxMessages     \* bound: messages per peer

\* A configured zero falls back to the default, so the three are positive.
ASSUME LimiterAssumption ==
  /\ RateWindow \in Nat \ {0} /\ FlagAfter \in Nat \ {0} /\ Cooldown \in Nat \ {0}
  /\ FallbackLimit \in Nat \ {0} /\ Limits \subseteq Nat
  /\ LimiterMaxTime \in Nat /\ MaxMessages \in Nat

VARIABLES
  tracked,           \* the keys of the map peers
  accepted,          \* [peer][type] -> times of the accepted messages
  expired,           \* [peer][type] -> how many of them were pruned
  violations,        \* [peer] -> Nat
  firstViolationAt,  \* [peer] -> time, 0 for none
  autoFlagged,       \* [peer] -> BOOLEAN
  refused,           \* [peer] -> times of the refused messages
  configured,        \* [type] -> config.limits
  highest            \* [type] -> the highest limit that was ever in force

limiterVars == <<tracked, accepted, expired, violations, firstViolationAt,
                 autoFlagged, refused, configured, highest>>

getLimit(k) == IF configured[k] = 0 THEN FallbackLimit ELSE configured[k]

LimiterInit ==
  /\ ClockInit
  /\ tracked = {}
  /\ accepted = [p \in Senders |-> [k \in MessageTypes |-> <<>>]]
  /\ expired = [p \in Senders |-> [k \in MessageTypes |-> 0]]
  /\ violations = [p \in Senders |-> 0]
  /\ firstViolationAt = [p \in Senders |-> 0]
  /\ autoFlagged = [p \in Senders |-> FALSE]
  /\ refused = [p \in Senders |-> <<>>]
  /\ configured = [k \in MessageTypes |-> 0]
  /\ highest = [k \in MessageTypes |-> FallbackLimit]

-----------------------------------------------------------------------------
\* Mutant of Fresh: an entry of exactly the age of the window is dropped.
FreshStrictly(ts) == ts > now - RateWindow

\* An entry of exactly the age of the window still counts.
Fresh(ts) == ts + RateWindow >= now

\* pruneWindow: the entries before the first fresh one are removed, whose
\* number is then n.
PrunedTo(h, from, n) ==
  /\ n \in from..Len(h)
  /\ \A i \in (from + 1)..n : ~Fresh(h[i])
  /\ n < Len(h) => Fresh(h[n + 1])

\* Mutant of CooledDown: the cooldown is never over.
CooledDownNever(p) == FALSE

CooledDown(p) ==
  firstViolationAt[p] > 0 /\ now - firstViolationAt[p] > Cooldown

recordViolation(p) ==
  LET count == IF CooledDown(p) THEN 1 ELSE violations[p] + 1
      start == IF CooledDown(p) \/ firstViolationAt[p] = 0 THEN now
               ELSE firstViolationAt[p] IN
  /\ violations' = [violations EXCEPT ![p] = count]
  /\ firstViolationAt' = [firstViolationAt EXCEPT ![p] = start]
  /\ autoFlagged' = [autoFlagged EXCEPT ![p] = @ \/ count >= FlagAfter]
  /\ refused' = [refused EXCEPT ![p] = Append(@, now)]

checkMessage(p, k) ==
  \E n \in 0..Len(accepted[p][k]) :
    /\ Len(accepted[p][k]) + Len(refused[p]) < MaxMessages
    /\ PrunedTo(accepted[p][k], expired[p][k], n)
    /\ tracked' = tracked \cup {p}
    /\ expired' = [expired EXCEPT ![p][k] = n]
    /\ \/ /\ Len(accepted[p][k]) - n >= getLimit(k)
          /\ recordViolation(p)
          /\ UNCHANGED accepted
       \/ /\ Len(accepted[p][k]) - n < getLimit(k)
          /\ accepted' = [accepted EXCEPT ![p][k] = Append(@, now)]
          /\ UNCHANGED <<violations, firstViolationAt, autoFlagged, refused>>
    /\ UNCHANGED <<configured, highest>>

\* Reading a peer's counts prunes its windows too.
getPeerInfo(p) ==
  /\ p \in tracked
  /\ \E n \in [MessageTypes -> 0..MaxMessages] :
       /\ \A k \in MessageTypes : PrunedTo(accepted[p][k], expired[p][k], n[k])
       /\ expired' = [expired EXCEPT ![p] = n]
  /\ UNCHANGED <<tracked, accepted, violations, firstViolationAt, autoFlagged,
                 refused, configured, highest>>

resetAutoFlag(p) ==
  /\ p \in tracked
  /\ violations' = [violations EXCEPT ![p] = 0]
  /\ firstViolationAt' = [firstViolationAt EXCEPT ![p] = 0]
  /\ autoFlagged' = [autoFlagged EXCEPT ![p] = FALSE]
  /\ refused' = [refused EXCEPT ![p] = <<>>]
  /\ UNCHANGED <<tracked, accepted, expired, configured, highest>>

removePeer(p) ==
  /\ p \in tracked
  /\ tracked' = tracked \ {p}
  /\ accepted' = [accepted EXCEPT ![p] = [k \in MessageTypes |-> <<>>]]
  /\ expired' = [expired EXCEPT ![p] = [k \in MessageTypes |-> 0]]
  /\ violations' = [violations EXCEPT ![p] = 0]
  /\ firstViolationAt' = [firstViolationAt EXCEPT ![p] = 0]
  /\ autoFlagged' = [autoFlagged EXCEPT ![p] = FALSE]
  /\ refused' = [refused EXCEPT ![p] = <<>>]
  /\ UNCHANGED <<configured, highest>>

\* setLimit throws for anything below 1.
setLimit(k, limit) ==
  /\ limit >= 1
  /\ configured' = [configured EXCEPT ![k] = limit]
  /\ highest' = [highest EXCEPT ![k] = IF limit > @ THEN limit ELSE @]
  /\ UNCHANGED <<tracked, accepted, expired, violations, firstViolationAt,
                 autoFlagged, refused>>

\* The peers of which nothing is worth keeping once their windows stand at n.
Idle(p, n) ==
  /\ \A k \in MessageTypes : n[p][k] = Len(accepted[p][k])
  /\ violations[p] = 0 /\ ~autoFlagged[p]

\* A peer that is dropped loses its empty windows only: a later message finds
\* them empty again.
pruneAll ==
  \E n \in [Senders -> [MessageTypes -> 0..MaxMessages]] :
    /\ \A p \in Senders, k \in MessageTypes :
         PrunedTo(accepted[p][k], expired[p][k], n[p][k])
    /\ expired' = n
    /\ tracked' = { p \in tracked : ~Idle(p, n) }
    /\ UNCHANGED <<accepted, violations, firstViolationAt, autoFlagged, refused,
                   configured, highest>>

LimiterCalls ==
  \/ \E p \in Senders, k \in MessageTypes : checkMessage(p, k)
  \/ \E p \in Senders : getPeerInfo(p) \/ resetAutoFlag(p) \/ removePeer(p)
  \/ \E k \in MessageTypes, limit \in Limits : setLimit(k, limit)
  \/ pruneAll

LimiterNext ==
  \/ LimiterCalls /\ UNCHANGED now
  \/ TickUpTo(LimiterMaxTime) /\ UNCHANGED limiterVars

LimiterSpec == LimiterInit /\ [][LimiterNext]_<<limiterVars, now>>

-----------------------------------------------------------------------------
(* Properties.                                                             *)

LimiterTypeOK ==
  /\ now \in Nat
  /\ tracked \subseteq Senders
  /\ accepted \in [Senders -> [MessageTypes -> Seq(Nat)]]
  /\ expired \in [Senders -> [MessageTypes -> Nat]]
  /\ violations \in [Senders -> Nat]
  /\ firstViolationAt \in [Senders -> Nat]
  /\ autoFlagged \in [Senders -> BOOLEAN]
  /\ refused \in [Senders -> Seq(Nat)]
  /\ configured \in [MessageTypes -> Nat]
  /\ highest \in [MessageTypes -> Nat]

\* Wherever an interval of the length of the window is laid, it holds no more
\* accepted messages of a peer and type than the highest limit that was in
\* force: also when a peer is forgotten by pruneAll and comes back, when windows
\* are pruned by a reader, and when the limit goes up and down (checkMessage,
\* pruneWindow, pruneAll, setLimit).
WindowHoldsLimit ==
  \A p \in Senders, k \in MessageTypes :
    \A i \in DOMAIN accepted[p][k] :
      i + highest[k] <= Len(accepted[p][k]) =>
        accepted[p][k][i + highest[k]] > accepted[p][k][i] + RateWindow

\* A peer that is flagged had FlagAfter messages refused within one cooldown
\* since its flag was last reset: old violations never add up to a flag
\* (recordViolation, resetAutoFlag).
FlagHasGrounds ==
  \A p \in Senders : autoFlagged[p] =>
    \E i \in DOMAIN refused[p] :
      /\ i + FlagAfter - 1 <= Len(refused[p])
      /\ refused[p][i + FlagAfter - 1] <= refused[p][i] + Cooldown
=============================================================================
