---------------------------- MODULE MCPlanApproval ----------------------------
(* PlanApproval on small instances; TLC evaluates its assumption here.     *)
EXTENDS PlanApproval

\* Nothing is ever taken out of breach: beyond these states none of the properties
\* of the plan says anything any more, and TLC stops there.
Telling ==
    /\ breach \cap {"late", "beside"} = {}
    /\ ~({"unsaved", "contested"} \subseteq breach)

=============================================================================
