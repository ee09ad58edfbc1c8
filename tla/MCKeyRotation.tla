----------------------------- MODULE MCKeyRotation -----------------------------
(* KeyRotation on small instances; TLC evaluates its assumption here.      *)
EXTENDS KeyRotation

=============================================================================
