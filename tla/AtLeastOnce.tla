------------------------------- MODULE AtLeastOnce -------------------------------
(***************************************************************************)
(* What the transactional outbox promises to those who publish events and  *)
(* to the sinks that hear of them (internal/outbox/outbox.go, header and   *)
(* Handler).  Only a committed event is heard; a sink hears of it after    *)
(* the sinks before it; it counts as consumed when the last sink has       *)
(* accepted it, is given up only when a sink declared it dead, and after   *)
(* either nobody hears of it again.  Until then it may be heard repeatedly.*)
(***************************************************************************)
EXTENDS Integers

CONSTANTS Event, Sinks

VARIABLES
    life,      \* life[e]: "absent", "pending", "consumed" or "dead"
    heard,     \* heard[e]: the sinks that have accepted e
    condemned  \* the events some sink declared dead

qvars == <<life, heard, condemned>>

Absent(e)  == life[e] = "absent"
Pending(e) == life[e] = "pending"

QInit ==
    /\ life = [e \in Event |-> "absent"]
    /\ heard = [e \in Event |-> {}]
    /\ condemned = {}

Publish(e) ==
    /\ Absent(e)
    /\ life' = [life EXCEPT ![e] = "pending"]
    /\ UNCHANGED <<heard, condemned>>

Hear(e, s) ==
    /\ Pending(e)
    /\ 1 .. s - 1 \subseteq heard[e]
    /\ heard' = [heard EXCEPT ![e] = @ \union {s}]
    /\ UNCHANGED <<life, condemned>>

Condemn(e, s) ==
    /\ Pending(e)
    /\ 1 .. s - 1 \subseteq heard[e]
    /\ condemned' = condemned \union {e}
    /\ UNCHANGED <<life, heard>>

\* A batch of events is settled at once.
Settle(done, given_up) ==
    /\ done \union given_up # {} /\ done \intersect given_up = {}
    /\ \A e \in done : Pending(e) /\ heard[e] = 1 .. Sinks
    /\ \A e \in given_up : Pending(e) /\ e \in condemned
    /\ life' = [e \in Event |-> IF e \in done THEN "consumed"
                                ELSE IF e \in given_up THEN "dead" ELSE life[e]]
    /\ UNCHANGED <<heard, condemned>>

QNext ==
    \/ \E e \in Event : Publish(e)
    \/ \E e \in Event, s \in 1 .. Sinks : Hear(e, s) \/ Condemn(e, s)
    \/ \E done, given_up \in SUBSET Event : Settle(done, given_up)

QSpec == QInit /\ [][QNext]_qvars
==============================================================================
