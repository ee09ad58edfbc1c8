---------------------------- MODULE LeaderTenure ----------------------------
(***************************************************************************)
(* What the scheduler lease promises to the loops it guards.  At any time  *)
(* at most one process owns the tenure, and at most one process leads by   *)
(* right; it does so only inside its own tenure, and the tenure never ends *)
(* under it.  A tenure passes from one process to another only through a   *)
(* moment in which nobody owns it.  A process that has stepped down may    *)
(* still believe that it leads; a process that never led by right does not *)
(* come to believe it.                                                     *)
(***************************************************************************)
CONSTANTS Process, NoOne

VARIABLES
    owner,      \* the process whose lease row is unexpired, or NoOne
    leader,     \* the process that leads by right, or NoOne
    believes    \* the processes whose IsLeader answers TRUE

vars == <<owner, leader, believes>>

Init == owner = NoOne /\ leader = NoOne /\ believes = {}

\* The vacant tenure is granted to p.
Grant(p) == /\ owner = NoOne
            /\ owner' = p
            /\ UNCHANGED <<leader, believes>>

\* The owner p learns that it owns the tenure and starts to lead.
Act(p) == /\ owner = p
          /\ leader = NoOne
          /\ leader' = p
          /\ believes' = believes \cup {p}
          /\ UNCHANGED owner

\* The leader p knows that it leads no longer, or is gone.
StepDown(p) == /\ leader = p
               /\ leader' = NoOne
               /\ believes' = believes \ {p}
               /\ UNCHANGED owner

\* The leader p has lost touch with the lease and goes on believing.
LoseTouch(p) == /\ leader = p
                /\ leader' = NoOne
                /\ UNCHANGED <<owner, believes>>

\* A process p that does not lead by right stops believing that it does.
Forget(p) == /\ leader # p
             /\ p \in believes
             /\ believes' = believes \ {p}
             /\ UNCHANGED <<owner, leader>>

\* The tenure of p runs out or is given back, after p has stepped down.
Vacate(p) == /\ leader = NoOne
             /\ owner = p
             /\ owner' = NoOne
             /\ UNCHANGED <<leader, believes>>

Step(p) == Grant(p) \/ Act(p) \/ StepDown(p) \/ LoseTouch(p) \/ Forget(p) \/ Vacate(p)

Next == \E p \in Process : Step(p)

Spec == Init /\ [][Next]_vars
=============================================================================
