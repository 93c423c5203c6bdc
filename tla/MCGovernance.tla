---------------------------- MODULE MCGovernance ----------------------------
(***************************************************************************)
(* Three decrees of five keyholders with the threshold of the development  *)
(* genesis: a warning that one of them signed, a suspension whose signed   *)
(* string is that of a warning, and a warning of this daemon's own user    *)
(* with two signatures collected beforehand.                               *)
(***************************************************************************)
EXTENDS Governance, TLC

CONSTANTS ag1, heard, mixed, own, k1, k2, k3, k4, k5

Warning(t) == [type |-> "governance.warn", target |-> ag1, duration |-> 0, ts |-> t]

MCDecree ==
  heard :> [type |-> "governance.warn", target |-> ag1, duration |-> 0,
            says |-> Warning(0), signers |-> {k1}]
  @@ mixed :> [type |-> "governance.suspend", target |-> ag1, duration |-> 1,
               says |-> Warning(0), signers |-> {k1, k2, k3}]
  @@ own :> [type |-> "governance.warn", target |-> ag1, duration |-> 0,
             says |-> Warning(1), signers |-> {k2, k3}]
=============================================================================
