-------------------------------- MODULE MCOutbox ---------------------------------
(* Two flushers, three events of which the oldest is poison, batches of two. *)
EXTENDS Outbox

MCPoison == {1}
==============================================================================
