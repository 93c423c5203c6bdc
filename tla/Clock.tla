------------------------------- MODULE Clock -------------------------------
(***************************************************************************)
(* The wall clock that components read with Date.now().  It only moves     *)
(* forward, and its steps are independent of every component's.  A tick is *)
(* the unit the component that reads it computes in; each module names the *)
(* bound at which its runs stop the clock.                                 *)
(***************************************************************************)
EXTENDS Naturals

VARIABLE now

\* No real clock shows zero, which several components use for "never".
ClockInit == now = 1

TickUpTo(bound) == now < bound /\ now' = now + 1
=============================================================================
