--------------------------- MODULE MCTaskProtocol ---------------------------
(***************************************************************************)
(* Instances of TaskProtocol for TLC: a poster p and one or two workers.   *)
(***************************************************************************)
EXTENDS TaskProtocolProperties, TLC

CONSTANTS p, w1, w2, t1, t2

\* One task of p that every worker wants.
OnePoster == t1 :> p
AllWilling == t1 :> Agents

\* Two tasks of p; and one task each of p and w1.
SamePoster == t1 :> p @@ t2 :> p
TwoPosters == t1 :> p @@ t2 :> w1
AllWillingTwo == t1 :> Agents @@ t2 :> Agents

Workers == Permutations({w1, w2})
=============================================================================
