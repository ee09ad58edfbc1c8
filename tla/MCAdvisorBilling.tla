--------------------------- MODULE MCAdvisorBilling ---------------------------
(* AdvisorBilling on small instances; TLC evaluates its assumption here.   *)
EXTENDS AdvisorBilling

=============================================================================
