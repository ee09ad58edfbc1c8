-------------------------- MODULE MCSchedulerLease --------------------------
(* SchedulerLease on two server incarnations with the production timing:   *)
(* one tick is 5s, so ttl 30s, renewal 10s and call timeout 5s are 6, 2, 1.*)
EXTENDS SchedulerLease
=============================================================================
