---------------------------- MODULE TaskLifecycle ----------------------------
(***************************************************************************)
(* What the task protocol promises about one task, whatever the daemons,   *)
(* the network and the failures do: the life of a task as anyone who could *)
(* read every record ever published would see it.  The statuses are those  *)
(* of resolveStatus in src/src/marketplace/board.ts.  A task has at most   *)
(* one worker, it was one of the bidders, and money is only settled after  *)
(* the worker completed and somebody approved the result.                  *)
(***************************************************************************)
CONSTANTS Agents, Tasks

VARIABLES
  status,    \* status[t]: where t stands
  bidders,   \* bidders[t]: the agents that have bid for t
  worker,    \* worker[t]: the agents that were given t (at most one)
  approved   \* the tasks whose result somebody approved

lifecycle == <<status, bidders, worker, approved>>

Statuses == {"unposted", "open", "assigned", "completed", "verified",
             "settled"}

Init ==
  /\ status = [t \in Tasks |-> "unposted"]
  /\ bidders = [t \in Tasks |-> {}]
  /\ worker = [t \in Tasks |-> {}]
  /\ approved = {}

Post(t) ==
  /\ status[t] = "unposted"
  /\ status' = [status EXCEPT ![t] = "open"]
  /\ UNCHANGED <<bidders, worker, approved>>

\* Bids may come at any time, also when the task is already taken.
Bid(t, w) ==
  /\ status[t] # "unposted"
  /\ bidders' = [bidders EXCEPT ![t] = @ \cup {w}]
  /\ UNCHANGED <<status, worker, approved>>

Assign(t, w) ==
  /\ status[t] = "open"
  /\ w \in bidders[t]
  /\ status' = [status EXCEPT ![t] = "assigned"]
  /\ worker' = [worker EXCEPT ![t] = {w}]
  /\ UNCHANGED <<bidders, approved>>

Complete(t) ==
  /\ status[t] = "assigned"
  /\ status' = [status EXCEPT ![t] = "completed"]
  /\ UNCHANGED <<bidders, worker, approved>>

\* A verdict, for or against; a late one no longer changes a settled task.
Verify(t, passed) ==
  /\ status[t] \in {"completed", "verified", "settled"}
  /\ status' = [status EXCEPT ![t] = IF @ = "settled" THEN @ ELSE "verified"]
  /\ approved' = IF passed THEN approved \cup {t} ELSE approved
  /\ UNCHANGED <<bidders, worker>>

Settle(t) ==
  /\ status[t] = "verified"
  /\ t \in approved
  /\ status' = [status EXCEPT ![t] = "settled"]
  /\ UNCHANGED <<bidders, worker, approved>>

Next ==
  \E t \in Tasks :
    \/ Post(t)
    \/ \E w \in Agents : Bid(t, w) \/ Assign(t, w)
    \/ Complete(t)
    \/ \E passed \in BOOLEAN : Verify(t, passed)
    \/ Settle(t)

Spec == Init /\ [][Next]_lifecycle
=============================================================================
