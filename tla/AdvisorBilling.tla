----------------------------- MODULE AdvisorBilling -----------------------------
(***************************************************************************)
(* What a user pays for consultations (internal/advisorbilling and the     *)
(* advisor handlers of cmd/server).  A consultation is admitted by a look  *)
(* at the month's usage and at the credits (Gate.Check), runs for minutes, *)
(* and is charged afterwards (Gate.Consume): to the plan's monthly bucket, *)
(* else to the credits, else to nobody.  Credits come from orders that the *)
(* payment service reports by webhooks, in any order and more than once.   *)
(*                                                                         *)
(* One user and one kind of consultation: users have rows, and kinds       *)
(* columns, of their own.                                                  *)
(***************************************************************************)
EXTENDS Integers, FiniteSets, FiniteSetsExt

CONSTANTS
    Consult,      \* the consultations asked for
    Order,        \* the orders of credit packs
    Units,        \* deep_units_granted of a pack
    Limits,       \* the monthly limits of the plans the user may be on
    Months,       \* bound: months seen
    Worker,       \* requests of the payment service handled at the same time
    MaxChanges,   \* bound: changes of plan
    MaxFaults     \* bound: statements and answers that fail or get lost

Unlimited == -1

ASSUME AdvisorBillingAssumption ==
    /\ IsFiniteSet(Consult)
    /\ Limits \subseteq Nat \cup {Unlimited} /\ Limits # {}
    /\ {Units, Months} \subseteq Nat \ {0}
    /\ {MaxChanges, MaxFaults} \subseteq Nat

VARIABLES
    month, limit, changes,    \* the calendar; the user's plan
    used,          \* user_advisor_monthly_usage, by month
    balance,       \* user_advisor_credits
    phase,         \* where each consultation stands
    source,        \* the source that Check expects to pay
    charge,        \* who paid: "plan", "credit", "unmetered" (nobody), "lost" (an error),
                   \* "taken" (an error, yet a credit is gone)
    lim,           \* the limit of the plan that paid
    at,            \* the month of its increment
    raced,         \* consultations since whose Check another was charged or the plan changed
    leaked,        \* consultations whose increment stays although the plan did not pay
    status, event, \* of each order: its status and lemonsqueezy_event_id
    credited,      \* how often each order has been added to the balance
    sent, acked,   \* webhooks the payment service has sent, and those it saw acked
    work,          \* the webhook a worker has looked up and not applied yet
    late,          \* workers whose order was stamped by another since they looked it up
    again,         \* credits of an order by a late worker, or by another event than the recorded one
    headerIds,     \* whether webhooks carry X-Event-Id
    faults

gate == <<used, phase, source, charge, lim, at, raced, leaked>>
ledger == <<status, event, credited, again>>
hooks == <<sent, acked, work, late, headerIds>>
plan == <<month, limit, changes>>
vars == <<plan, balance, gate, ledger, hooks, faults>>

Month == 1 .. Months
None == 0
Kind == {"order_created", "order_paid", "order_refunded"}
Hook == Order \X Kind
\* X-Event-Id, or the id of the order when the header is missing.
EventId(h) == IF headerIds THEN h ELSE <<h[1], "order_created">>
Full(n, l) == l # Unlimited /\ n >= l

Init ==
    /\ month = 1 /\ changes = 0
    /\ limit \in Limits
    /\ used = [m \in Month |-> 0]
    /\ balance = 0
    /\ phase = [c \in Consult |-> "idle"]
    /\ source = [c \in Consult |-> "plan"]
    /\ charge = [c \in Consult |-> "none"]
    /\ lim = [c \in Consult |-> None]
    /\ at = [c \in Consult |-> None]
    /\ raced = {}
    /\ leaked = {}
    /\ status = [o \in Order |-> "absent"]
    /\ event = [o \in Order |-> {}]
    /\ credited = [o \in Order |-> 0]
    /\ sent = {} /\ acked = {}
    /\ work = [w \in Worker |-> {}]
    /\ late = {}
    /\ again = [o \in Order |-> 0]
    /\ headerIds \in BOOLEAN
    /\ faults = 0

Goto(c, where) == phase' = [phase EXCEPT ![c] = where]
\* What happens to one consultation, or to the plan, is a race for the open ones.
Open(c) == phase[c] \notin {"idle", "done"}
Race(cs) == raced' = (raced \cup {d \in Consult : Open(d)}) \ cs
Fault == faults < MaxFaults /\ faults' = faults + 1

-----------------------------------------------------------------------------
(* Gate.Check.                                                             *)

\* Mutant: one consultation more than the plan includes is admitted.
AdmitsOneMore(l) == ~Full(used[month] - 1, l)

\* The month's bucket has room.
Admits(l) == ~Full(used[month], l)

Check(c) ==
    /\ phase[c] = "idle"
    /\ source' = [source EXCEPT ![c] = "plan"]
    /\ Goto(c, IF Admits(limit) THEN "consulting" ELSE "checking")
    /\ UNCHANGED <<plan, balance, used, charge, lim, at, raced, leaked, ledger, hooks, faults>>

\* The bucket is full: the credits are looked at; a failure to read them refuses.
CheckCredits(c) ==
    /\ phase[c] = "checking"
    /\ \/ /\ balance > 0
          /\ source' = [source EXCEPT ![c] = "credit"]
          /\ Goto(c, "consulting")
          /\ UNCHANGED <<raced, faults>>
       \/ /\ (balance = 0 /\ UNCHANGED faults) \/ Fault
          /\ Goto(c, "idle")
          /\ raced' = raced \ {c}
          /\ UNCHANGED source
    /\ UNCHANGED <<plan, balance, used, charge, lim, at, leaked, ledger, hooks>>

\* advisor.Service.Consult: a consultation that fails is not charged.
Answer(c) ==
    /\ phase[c] = "consulting"
    /\ \/ /\ Goto(c, IF source[c] = "plan" THEN "planning" ELSE "crediting")
          /\ UNCHANGED <<raced, faults>>
       \/ Goto(c, "idle") /\ Fault /\ raced' = raced \ {c}
    /\ UNCHANGED <<plan, balance, used, source, charge, lim, at, leaked, ledger, hooks>>

-----------------------------------------------------------------------------
(* Gate.Consume.                                                           *)

Pays(c, who) == charge' = [charge EXCEPT ![c] = who]

\* Mutant: the value before the increment is compared.
CrossesLimitLate(l) == l # Unlimited /\ used[month] > l

\* The value after the increment is beyond the limit.
CrossesLimit(l) == l # Unlimited /\ used[month] + 1 > l

\* consumePlanUnit: increment first, compare afterwards.
ConsumePlanUnit(c) ==
    /\ phase[c] = "planning"
    /\ used' = [used EXCEPT ![month] = @ + 1]
    /\ at' = [at EXCEPT ![c] = month]
    /\ IF CrossesLimit(limit)
       THEN Goto(c, "undoing") /\ UNCHANGED <<charge, lim, raced>>
       ELSE /\ Goto(c, "done") /\ Pays(c, "plan")
            /\ lim' = [lim EXCEPT ![c] = limit]
            /\ Race({c})
    /\ UNCHANGED <<plan, balance, source, leaked, ledger, hooks, faults>>


\* Mutant: the reversal is booked in the month that has begun.
DecrementNow(c) ==
    used' = [used EXCEPT ![month] = Max({@ - 1, 0})]

Decrement(c) ==
    used' = [used EXCEPT ![at[c]] = Max({@ - 1, 0})]

\* The reversal of an increment beyond the limit; its error is ignored.
Undo(c) ==
    /\ phase[c] = "undoing"
    /\ Goto(c, "crediting")
    /\ \/ Decrement(c) /\ UNCHANGED <<leaked, faults>>
       \/ Fault /\ leaked' = leaked \cup {c} /\ UNCHANGED used
    /\ UNCHANGED <<plan, balance, source, charge, lim, at, raced, ledger, hooks>>

\* Mutant: the balance is not compared.
HasCreditAlways == TRUE

HasCredit == balance > 0

\* The statement fails, or its answer is lost: the handler drops the error and
\* nobody is charged; the increment may be there, or the credit gone.
ConsumeFails(c) ==
    /\ phase[c] \in {"planning", "crediting"}
    /\ Fault
    /\ Goto(c, "done")
    /\ \/ Pays(c, "lost") /\ raced' = raced \ {c} /\ UNCHANGED <<used, at, leaked, balance>>
       \/ /\ phase[c] = "planning"
          /\ Pays(c, "lost")
          /\ used' = [used EXCEPT ![month] = @ + 1]
          /\ at' = [at EXCEPT ![c] = month]
          /\ leaked' = leaked \cup {c}
          /\ Race({c})
          /\ UNCHANGED balance
       \/ /\ phase[c] = "crediting" /\ HasCredit
          /\ Pays(c, "taken")
          /\ balance' = balance - 1
          /\ Race({c})
          /\ UNCHANGED <<used, at, leaked>>
    /\ UNCHANGED <<plan, source, lim, ledger, hooks>>

\* ConsumeCredits: one conditional update; with nothing left nobody pays.
ConsumeCredits(c) ==
    /\ phase[c] = "crediting"
    /\ Goto(c, "done")
    /\ IF HasCredit
       THEN /\ balance' = balance - 1
            /\ Pays(c, "credit")
            /\ Race({c})
       ELSE Pays(c, "unmetered") /\ UNCHANGED <<balance, raced>>
    /\ UNCHANGED <<plan, used, source, lim, at, leaked, ledger, hooks, faults>>

-----------------------------------------------------------------------------
(* Orders and webhooks.                                                    *)

\* CreatePendingOrder, in the checkout handler.
Checkout(o) ==
    /\ status[o] = "absent"
    /\ status' = [status EXCEPT ![o] = "pending"]
    /\ UNCHANGED <<plan, balance, gate, event, credited, again, hooks, faults>>

\* The payment service reports a payment under one name or two, and later a refund.
Report(o) ==
    /\ status[o] # "absent"
    /\ \/ /\ <<o, "order_created">> \notin sent
          /\ \E names \in {{"order_created"}, {"order_created", "order_paid"}} :
                sent' = sent \cup ({o} \X names)
       \/ /\ <<o, "order_created">> \in sent
          /\ <<o, "order_refunded">> \notin sent
          /\ sent' = sent \cup {<<o, "order_refunded">>}
    /\ UNCHANGED <<plan, balance, gate, ledger, acked, work, late, headerIds, faults>>

\* A webhook comes until the payment service has seen it acked.
Comes(h) == h \in sent \ acked

Ack(h) ==
    \/ acked' = acked \cup {h} /\ UNCHANGED faults
    \/ Fault /\ UNCHANGED acked

\* The dedup probe of MarkOrderPaid, at the start of its transaction.
Probe(w, h) ==
    /\ work[w] = {}
    /\ h[2] # "order_refunded"
    /\ Comes(h)
    /\ IF \E o \in Order : event[o] = {EventId(h)}
       THEN Ack(h) /\ UNCHANGED work
       ELSE work' = [work EXCEPT ![w] = {h}] /\ UNCHANGED <<acked, faults>>
    /\ UNCHANGED <<plan, balance, gate, ledger, sent, late, headerIds>>

\* Mutant: the event is not recorded with the order.
StampOrder(o, h) ==
    /\ status' = [status EXCEPT ![o] = "paid"]
    /\ UNCHANGED event

Stamp(o, h) ==
    /\ status' = [status EXCEPT ![o] = "paid"]
    /\ event' = [event EXCEPT ![o] = {EventId(h)}]

\* The order has been credited, and the probe was too early to see it or looked
\* for another event.
CreditedBefore(w, h) ==
    event[h[1]] # {} /\ (w \in late \/ event[h[1]] # {EventId(h)})

Others(w, o) == {v \in Worker \ {w} : \E h \in work[v] : h[1] = o}

\* The rest of the transaction: the update of the order waits for the row and
\* takes it whatever its status, and the units are added.
MarkOrderPaid(w) ==
    \E h \in work[w] :
        /\ Stamp(h[1], h)
        /\ balance' = balance + Units
        /\ credited' = [credited EXCEPT ![h[1]] = @ + 1]
        /\ again' = [again EXCEPT ![h[1]] = @ + IF CreditedBefore(w, h) THEN 1 ELSE 0]
        /\ work' = [work EXCEPT ![w] = {}]
        /\ late' = (late \ {w}) \cup Others(w, h[1])
        /\ Ack(h)
        /\ UNCHANGED <<plan, gate, sent, headerIds>>

\* Mutant: a webhook that failed is acked.
AckAnyway(w) == acked' = acked \cup work[w]

AckFailure(w) == UNCHANGED acked

\* The transaction is rolled back; the answer is a 500, and the webhook comes again.
PaidFails(w) ==
    /\ work[w] # {}
    /\ Fault
    /\ work' = [work EXCEPT ![w] = {}]
    /\ late' = late \ {w}
    /\ AckFailure(w)
    /\ UNCHANGED <<plan, balance, gate, ledger, sent, headerIds>>

\* Mutant: a refund takes the units back.
RefundTakesUnits == balance' = Max({balance - Units, 0})

RefundKeepsUnits == UNCHANGED balance

\* MarkOrderRefunded: one update of a paid order, which keeps the units; it is
\* acked even if it found no paid order or failed.
MarkOrderRefunded(h) ==
    /\ h[2] = "order_refunded"
    /\ Comes(h)
    /\ \/ /\ status[h[1]] = "paid"
          /\ status' = [status EXCEPT ![h[1]] = "refunded"]
          /\ event' = [event EXCEPT ![h[1]] = {EventId(h)}]
          /\ RefundKeepsUnits
          /\ Ack(h)
       \/ /\ status[h[1]] # "paid" /\ Ack(h)
          /\ UNCHANGED <<status, event, balance>>
       \/ /\ Fault /\ acked' = acked \cup {h}
          /\ UNCHANGED <<status, event, balance>>
    /\ UNCHANGED <<plan, gate, credited, again, sent, work, late, headerIds>>

-----------------------------------------------------------------------------
(* The user changes the plan, the month ends.                              *)

ChangePlan ==
    /\ changes < MaxChanges
    /\ changes' = changes + 1
    /\ limit' \in Limits \ {limit}
    /\ Race({})
    /\ UNCHANGED <<month, balance, used, phase, source, charge, lim, at, leaked, ledger, hooks, faults>>

NextMonth ==
    /\ month < Months
    /\ month' = month + 1
    /\ UNCHANGED <<limit, changes, balance, gate, ledger, hooks, faults>>

Deliver(h) ==
    \/ \E w \in Worker : Probe(w, h)
    \/ MarkOrderRefunded(h)

Next ==
    \/ \E c \in Consult :
        \/ Check(c) \/ CheckCredits(c) \/ Answer(c)
        \/ ConsumePlanUnit(c) \/ ConsumeFails(c) \/ Undo(c) \/ ConsumeCredits(c)
    \/ \E o \in Order : Checkout(o) \/ Report(o)
    \/ \E h \in Hook : Deliver(h)
    \/ \E w \in Worker : MarkOrderPaid(w) \/ PaidFails(w)
    \/ ChangePlan
    \/ NextMonth

Spec == Init /\ [][Next]_vars

\* A request is handled to its end, and the payment service repeats what was not acked.
Fairness ==
    /\ \A w \in Worker : WF_vars(MarkOrderPaid(w))
    /\ WF_vars(\E h \in Hook \ acked : Deliver(h))

FairSpec == Spec /\ Fairness

-----------------------------------------------------------------------------
(* Properties.                                                             *)

Charged(who) == {c \in Consult : charge[c] = who}
PlanServed(m) == {c \in Charged("plan") : at[c] = m}

\* Type correctness; the balance respects the CHECK of its column.
TypeOK ==
    /\ month \in Month /\ limit \in Limits /\ changes \in 0 .. MaxChanges
    /\ used \in [Month -> Nat]
    /\ balance \in Nat
    /\ phase \in [Consult -> {"idle", "checking", "consulting", "planning", "undoing",
                              "crediting", "done"}]
    /\ source \in [Consult -> {"plan", "credit"}]
    /\ charge \in [Consult -> {"none", "plan", "credit", "unmetered", "lost", "taken"}]
    /\ lim \in [Consult -> Limits \cup {None}]
    /\ at \in [Consult -> Month \cup {None}]
    /\ raced \subseteq Consult /\ leaked \subseteq Consult
    /\ status \in [Order -> {"absent", "pending", "paid", "refunded"}]
    /\ event \in [Order -> SUBSET Hook]
    /\ credited \in [Order -> Nat]
    /\ sent \subseteq Hook /\ acked \subseteq Hook
    /\ work \in [Worker -> SUBSET Hook]
    /\ late \subseteq Worker
    /\ again \in [Order -> Nat]
    /\ headerIds \in BOOLEAN
    /\ faults \in 0 .. MaxFaults

\* However many consultations are admitted on the same look at the bucket, and
\* whatever increments are reversed, late or never: the plan pays in a month for
\* no more than the limit that one of those it pays for was held against.
PlanWithinLimit ==
    \A m \in Month :
        PlanServed(m) # {} =>
            \E c \in PlanServed(m) : ~Full(Cardinality(PlanServed(m)) - 1, lim[c])

\* The usage of a month is what the plan paid in it, and the increments that are
\* still to be reversed or whose reversal was lost: no reversal is booked in
\* another month or cut off at zero.
UsageBooks ==
    \A m \in Month :
        used[m] = Cardinality({c \in Consult :
                     at[c] = m /\ (charge[c] = "plan" \/ phase[c] = "undoing" \/ c \in leaked)})

\* A consultation is free only by a race: some other one was charged, or the plan
\* changed, between its admission and its end, unless a statement failed.
FreeOnlyByRace ==
    Charged("unmetered") \subseteq raced

\* The packs that came: one for each time that an order was added to the balance.
Packs == UNION {{o} \X (1 .. credited[o]) : o \in Order}

\* Every unit taken from the balance: those that pay a consultation, and those
\* whose statement was executed though its answer was lost.
Taken == {c \in Consult : charge[c] \in {"credit", "taken"}}

\* The credits are what the orders brought less what consultations took, the debits
\* that nobody knows of included: no unit is lost or made between the two tables.
BalanceAccounts ==
    balance + Cardinality(Taken) = Units * Cardinality(Packs)

\* An order is credited once, and again only by a webhook whose probe came before
\* another worker's stamp, or that looked for another event than the recorded one:
\* those two ways past the probe are all, whatever is repeated, late or reordered.
CreditedOnce == \A o \in Order : credited[o] <= 1 + again[o]

\* What was paid for is credited in the end.
PaymentsArrive ==
    \A o \in Order : (<<o, "order_created">> \in sent) ~> (credited[o] >= 1)

=============================================================================
