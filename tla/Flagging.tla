------------------------------ MODULE Flagging ------------------------------
(***************************************************************************)
(* The community flagging system (src/src/safety/flagging.ts).             *)
(*                                                                         *)
(* A flagger's profile holds a fixed window that starts anew with the      *)
(* first flag after its end, and warnings that are never taken back.  The  *)
(* reputation of an agent is looked up in another component and may change *)
(* at any time; what matters of it is whether it reaches the threshold.    *)
(* flaggedAt is the history of the times of an agent's accepted flags.     *)
(***************************************************************************)
EXTENDS Clock, Sequences, FiniteSets, SequencesExt

CONSTANTS
  Flaggers,
  FlagTargets,
  HideAt,          \* AUTO_HIDE_THRESHOLD
  MaxFlagsPerHour, \* MAX_FLAGS_PER_HOUR
  FlagWindow,      \* FLAG_WINDOW_SECONDS
  BlockAt,         \* ABUSE_BLOCK_THRESHOLD
  FlaggingMaxTime  \* bound: the clock

ASSUME FlaggingAssumption ==
  /\ HideAt \in Nat \ {0} /\ MaxFlagsPerHour \in Nat \ {0}
  /\ FlagWindow \in Nat \ {0} /\ BlockAt \in Nat \ {0}
  /\ FlaggingMaxTime \in Nat

VARIABLES
  flagsByTarget,  \* [target] -> the flaggers, in the order of their flags
  hiddenTargets,
  flagsInWindow,  \* [flagger] -> Nat
  windowStart,    \* [flagger] -> time, 0 while there is no profile
  abuseWarnings,  \* [flagger] -> Nat
  blocked,        \* the blocked flaggers
  reputable,      \* the agents that getReputation puts above the threshold
  flaggedAt       \* [flagger] -> times of the accepted flags

flaggingVars == <<flagsByTarget, hiddenTargets, flagsInWindow, windowStart,
                  abuseWarnings, blocked, reputable, flaggedAt>>

FlaggingInit ==
  /\ ClockInit
  /\ flagsByTarget = [t \in FlagTargets |-> <<>>]
  /\ hiddenTargets = {}
  /\ flagsInWindow = [f \in Flaggers |-> 0]
  /\ windowStart = [f \in Flaggers |-> 0]
  /\ abuseWarnings = [f \in Flaggers |-> 0]
  /\ blocked = {}
  /\ reputable = {}
  /\ flaggedAt = [f \in Flaggers |-> <<>>]

\* The window of f as step 2 of processFlag finds or resets it.
WindowFor(f) ==
  IF windowStart[f] = 0 \/ now - windowStart[f] > FlagWindow
  THEN [start |-> now, count |-> 0]
  ELSE [start |-> windowStart[f], count |-> flagsInWindow[f]]

\* Mutant of AlreadyFlagged: only the latest flag is compared.
AlreadyFlaggedLast(f, t) == flagsByTarget[t] # <<>> /\ Last(flagsByTarget[t]) = f

AlreadyFlagged(f, t) == Contains(flagsByTarget[t], f)

countReputableFlags(flags) == Cardinality({ i \in DOMAIN flags : flags[i] \in reputable })

\* A flag over the limit is a warning; enough of them block the flagger.
RefuseOverLimit(f) ==
  /\ abuseWarnings' = [abuseWarnings EXCEPT ![f] = @ + 1]
  /\ blocked' = IF abuseWarnings[f] + 1 >= BlockAt THEN blocked \cup {f} ELSE blocked
  /\ UNCHANGED <<flagsByTarget, hiddenTargets, flaggedAt>>

AcceptFlag(f, t) ==
  LET flags == Append(flagsByTarget[t], f) IN
  /\ flagsByTarget' = [flagsByTarget EXCEPT ![t] = flags]
  /\ flaggedAt' = [flaggedAt EXCEPT ![f] = Append(@, now)]
  /\ hiddenTargets' = IF countReputableFlags(flags) >= HideAt
                      THEN hiddenTargets \cup {t} ELSE hiddenTargets
  /\ UNCHANGED <<abuseWarnings, blocked>>

\* A refused flag, too, leaves the window reset; a blocked flagger is turned
\* away before that.
processFlag(f, t) ==
  LET w == WindowFor(f)
      over == w.count >= MaxFlagsPerHour
      accepts == ~over /\ ~AlreadyFlagged(f, t) IN
  /\ f \notin blocked
  /\ windowStart' = [windowStart EXCEPT ![f] = w.start]
  /\ flagsInWindow' = [flagsInWindow EXCEPT ![f] = w.count + (IF accepts THEN 1 ELSE 0)]
  /\ \/ over /\ RefuseOverLimit(f)
     \/ accepts /\ AcceptFlag(f, t)
     \/ /\ ~over /\ ~accepts
        /\ UNCHANGED <<flagsByTarget, hiddenTargets, abuseWarnings, blocked, flaggedAt>>
  /\ UNCHANGED reputable

\* External: attestations move an agent's reputation across the threshold.
ReputationMoves(f) ==
  /\ reputable' = IF f \in reputable THEN reputable \ {f} ELSE reputable \cup {f}
  /\ UNCHANGED <<flagsByTarget, hiddenTargets, flagsInWindow, windowStart,
                 abuseWarnings, blocked, flaggedAt>>

FlaggingCalls ==
  \/ \E f \in Flaggers, t \in FlagTargets : processFlag(f, t)
  \/ \E f \in Flaggers : ReputationMoves(f)

FlaggingNext ==
  \/ FlaggingCalls /\ UNCHANGED now
  \/ TickUpTo(FlaggingMaxTime) /\ UNCHANGED flaggingVars

FlaggingSpec == FlaggingInit /\ [][FlaggingNext]_<<flaggingVars, now>>

-----------------------------------------------------------------------------
(* Properties.                                                             *)

FlaggingTypeOK ==
  /\ flagsByTarget \in [FlagTargets -> Seq(Flaggers)]
  /\ hiddenTargets \subseteq FlagTargets
  /\ flagsInWindow \in [Flaggers -> 0..MaxFlagsPerHour]
  /\ windowStart \in [Flaggers -> 0..now]
  /\ abuseWarnings \in [Flaggers -> 0..BlockAt]
  /\ blocked \subseteq Flaggers /\ reputable \subseteq Flaggers
  /\ flaggedAt \in [Flaggers -> Seq(Nat)]

\* The windows are fixed, so an agent may use up two of them around a boundary;
\* it never gets more than twice the limit accepted in any period of the length
\* of a window, whatever it sends in between (processFlag, step 2).
FlagsPerHour ==
  \A f \in Flaggers : \A i \in DOMAIN flaggedAt[f] :
    i + 2 * MaxFlagsPerHour <= Len(flaggedAt[f]) =>
      flaggedAt[f][i + 2 * MaxFlagsPerHour] > flaggedAt[f][i] + FlagWindow

\* A target is hidden in the step of a flag, with HideAt different agents behind
\* it that are reputable at that moment: one agent never hides it alone, however
\* often it flags, and reputations that moved since count as they are now
\* (processFlag, countReputableFlags).
HidesOnlyBacked ==
  [][\A t \in hiddenTargets' \ hiddenTargets :
       Cardinality({ f \in reputable : Contains(flagsByTarget'[t], f) }) >= HideAt]_flaggingVars
=============================================================================
