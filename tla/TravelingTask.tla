----------------------------- MODULE TravelingTask -----------------------------
(***************************************************************************)
(* What a traveling task promises (spec.md section 4.3), with no threads,  *)
(* barriers or kernel queries: after its verification it hops to the sink, *)
(* verifies its identity there, hops back, and passes only if it is on its *)
(* source node again.  Failed is reachable from every non-final state;     *)
(* Passed and Failed are final.  The return hop may leave the task where   *)
(* it is (the harnesses do not examine its result); the final check must   *)
(* then fail it.                                                           *)
(*                                                                         *)
(* src and snk are assigned by the coordinator while the task is still     *)
(* Created; hops lists the destinations the task actually reached.        *)
(***************************************************************************)
EXTENDS Sequences

CONSTANT Nodes

VARIABLES tstate, src, snk, tloc, hops

avars == <<tstate, src, snk, tloc, hops>>

States == {"Created", "Verifying", "MigratingOut", "VerifyingRemote",
           "MigratingBack", "VerifyingBack", "Passed", "Failed"}

Final == {"Passed", "Failed"}

Init ==
  /\ tstate = "Created"
  /\ src \in Nodes /\ snk \in Nodes
  /\ tloc \in Nodes
  /\ hops = <<>>

(* The coordinator fills in the task's nodes before starting it. *)
Assign ==
  /\ tstate = "Created"
  /\ src' \in Nodes /\ snk' \in Nodes
  /\ UNCHANGED <<tstate, tloc, hops>>

Move(from, to) == tstate = from /\ tstate' = to

(* The task starts only with two distinct nodes (the Data Model invariant). *)
Start ==
  /\ Move("Created", "Verifying") /\ src # snk
  /\ UNCHANGED <<src, snk, tloc, hops>>

Verified ==
  /\ Move("Verifying", "MigratingOut")
  /\ UNCHANGED <<src, snk, tloc, hops>>

(* A successful hop lands the task on a node it was not on. *)
HopOut ==
  /\ Move("MigratingOut", "VerifyingRemote") /\ tloc # snk
  /\ tloc' = snk /\ hops' = Append(hops, snk)
  /\ UNCHANGED <<src, snk>>

IdentityKept ==
  /\ Move("VerifyingRemote", "MigratingBack")
  /\ UNCHANGED <<src, snk, tloc, hops>>

HopBack ==
  /\ Move("MigratingBack", "VerifyingBack")
  /\ \/ tloc # src /\ tloc' = src /\ hops' = Append(hops, src)
     \/ UNCHANGED <<tloc, hops>>
  /\ UNCHANGED <<src, snk>>

(* The final check: the task is back on its source node. *)
Pass ==
  /\ Move("VerifyingBack", "Passed") /\ tloc = src
  /\ UNCHANGED <<src, snk, tloc, hops>>

Fail ==
  /\ tstate \notin Final /\ tstate' = "Failed"
  /\ UNCHANGED <<src, snk, tloc, hops>>

Next == Assign \/ Start \/ Verified \/ HopOut \/ IdentityKept \/ HopBack
        \/ Pass \/ Fail

Spec == Init /\ [][Next]_avars

=============================================================================
