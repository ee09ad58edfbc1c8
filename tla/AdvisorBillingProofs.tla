------------------------- MODULE AdvisorBillingProofs -------------------------
(***************************************************************************)
(* What AdvisorBilling guarantees for every number of consultations, plans *)
(* and months, whatever statements fail and webhooks come again.           *)
(***************************************************************************)
EXTENDS AdvisorBilling, FiniteSetTheorems, TLAPS

-----------------------------------------------------------------------------
(* The inductive invariant, in five parts.                                 *)

\* Where a consultation stands says who may have paid for it and whether it
\* has an increment in some month.
PhaseInv ==
    \A c \in Consult :
        /\ phase[c] = "done" <=> charge[c] # "none"
        /\ (phase[c] = "undoing" \/ charge[c] = "plan" \/ c \in leaked) => at[c] \in 1 .. month
        /\ c \in leaked => phase[c] \in {"crediting", "done"} /\ charge[c] # "plan"
        /\ phase[c] \in {"planning", "undoing"} => source[c] = "plan"

\* The increments of a month that stand.
Counted(m) ==
    {c \in Consult :
        at[c] = m /\ (charge[c] = "plan" \/ phase[c] = "undoing" \/ c \in leaked)}

BooksInv ==
    /\ \A m \in Month : used[m] = Cardinality(Counted(m))
    /\ \A m \in Month : m > month => used[m] = 0

\* What Check saw still holds for a consultation that had no race.
RaceInv ==
    \A c \in Consult \ raced :
        /\ charge[c] # "unmetered"
        /\ source[c] = "plan" =>
            /\ phase[c] \in {"consulting", "planning"} => Admits(limit)
            /\ phase[c] \notin {"undoing", "crediting"}
        /\ source[c] = "credit" /\ phase[c] \in {"consulting", "crediting"} => balance > 0

IInv == TypeOK /\ PhaseInv /\ BooksInv /\ RaceInv

-----------------------------------------------------------------------------
(* Type correctness.                                                       *)

\* Counting down stops at zero.
LEMMA MaxDecrement ==
    ASSUME NEW n \in Nat
    PROVE  /\ Max({n - 1, 0}) \in Nat
           /\ Max({n - 1, 0}) = IF n = 0 THEN 0 ELSE n - 1
<1>1. CASE n = 0
  BY <1>1 DEF Max
<1>2. CASE n # 0
  BY <1>2 DEF Max
<1> QED
  BY <1>1, <1>2

\* At first every variable has its type.
LEMMA TypeInit == Init => TypeOK
BY AdvisorBillingAssumption DEF Init, TypeOK, Month, Hook, Kind

\* The steps of a consultation.
LEMMA TypeConsult ==
    ASSUME TypeOK, NEW c \in Consult,
           Check(c) \/ CheckCredits(c) \/ Answer(c) \/ ConsumePlanUnit(c) \/ ConsumeFails(c)
             \/ Undo(c) \/ ConsumeCredits(c)
    PROVE  TypeOK'
<1> USE AdvisorBillingAssumption
<1>1. CASE Check(c)
  BY <1>1 DEF TypeOK, Check, Goto, plan, ledger, hooks
<1>2. CASE CheckCredits(c)
  BY <1>2 DEF TypeOK, CheckCredits, Goto, Fault, plan, ledger, hooks
<1>3. CASE Answer(c)
  BY <1>3 DEF TypeOK, Answer, Goto, Fault, plan, ledger, hooks
<1>4. CASE ConsumePlanUnit(c)
  BY <1>4 DEF TypeOK, ConsumePlanUnit, Goto, Pays, Race, plan, ledger, hooks
<1>5. CASE ConsumeFails(c)
  <2>1. balance' \in Nat
    BY <1>5 DEF TypeOK, ConsumeFails, HasCredit
  <2> QED
    BY <1>5, <2>1 DEF TypeOK, ConsumeFails, Goto, Pays, Race, Fault, plan, ledger, hooks
<1>6. CASE Undo(c)
  <2>1. used' \in [Month -> Nat]
    <3>1. \A m \in Month : Max({used[m] - 1, 0}) \in Nat
      BY MaxDecrement DEF TypeOK
    <3> QED
      BY <1>6, <3>1 DEF TypeOK, Undo, Decrement
  <2> QED
    BY <1>6, <2>1 DEF TypeOK, Undo, Goto, Fault, plan, ledger, hooks
<1>7. CASE ConsumeCredits(c)
  BY <1>7 DEF TypeOK, ConsumeCredits, Goto, Pays, Race, HasCredit, plan, ledger, hooks
<1> QED
  BY <1>1, <1>2, <1>3, <1>4, <1>5, <1>6, <1>7

\* The steps of orders and webhooks, of the calendar and of the user's plan.
LEMMA TypeRest ==
    ASSUME TypeOK,
           \/ \E o \in Order : Checkout(o) \/ Report(o)
           \/ \E h \in Hook : Deliver(h)
           \/ \E w \in Worker : MarkOrderPaid(w) \/ PaidFails(w)
           \/ ChangePlan
           \/ NextMonth
           \/ UNCHANGED vars
    PROVE  TypeOK'
<1> USE AdvisorBillingAssumption
<1>0. \A h \in Hook : h[1] \in Order /\ EventId(h) \in Hook
  BY DEF Hook, Kind, EventId
<1>1. ASSUME NEW o \in Order, Checkout(o) PROVE TypeOK'
  BY <1>1 DEF TypeOK, Checkout, plan, gate, hooks
<1>2. ASSUME NEW o \in Order, Report(o) PROVE TypeOK'
  <2>1. sent' \subseteq Hook
    BY <1>2 DEF TypeOK, Report, Hook, Kind
  <2> QED
    BY <1>2, <2>1 DEF TypeOK, Report, plan, gate, ledger
<1>3. ASSUME NEW h \in Hook, Deliver(h) PROVE TypeOK'
  <2>1. ASSUME NEW w \in Worker, Probe(w, h) PROVE TypeOK'
    BY <2>1 DEF TypeOK, Probe, Ack, Fault, plan, gate, ledger
  <2>2. CASE MarkOrderRefunded(h)
    <3>1. acked' \subseteq Hook /\ faults' \in 0 .. MaxFaults
      BY <2>2 DEF TypeOK, MarkOrderRefunded, Ack, Fault
    <3>2. status' \in [Order -> {"absent", "pending", "paid", "refunded"}] /\ event' \in [Order -> SUBSET Hook]
      BY <1>0, <2>2 DEF TypeOK, MarkOrderRefunded
    <3> QED
      BY <2>2, <3>1, <3>2 DEF TypeOK, MarkOrderRefunded, RefundKeepsUnits, plan, gate
  <2> QED
    BY <1>3, <2>1, <2>2 DEF Deliver
<1>4. ASSUME NEW w \in Worker, MarkOrderPaid(w) PROVE TypeOK'
  <2>1. PICK h \in work[w] :
          /\ Stamp(h[1], h) /\ balance' = balance + Units
          /\ credited' = [credited EXCEPT ![h[1]] = @ + 1]
          /\ again' = [again EXCEPT ![h[1]] = @ + IF CreditedBefore(w, h) THEN 1 ELSE 0]
          /\ work' = [work EXCEPT ![w] = {}]
          /\ late' = (late \ {w}) \cup Others(w, h[1])
          /\ Ack(h)
          /\ UNCHANGED <<plan, gate, sent, headerIds>>
    BY <1>4 DEF MarkOrderPaid
  <2>2. h \in Hook /\ h[1] \in Order /\ EventId(h) \in Hook
    BY <1>0 DEF TypeOK
  <2>3. acked' \subseteq Hook /\ faults' \in 0 .. MaxFaults
    BY <2>1, <2>2 DEF TypeOK, Ack, Fault
  <2>4. late' \subseteq Worker
    BY <2>1 DEF TypeOK, Others
  <2>5. again' \in [Order -> Nat] /\ credited' \in [Order -> Nat]
    BY <2>1, <2>2 DEF TypeOK
  <2> QED
    BY <2>1, <2>2, <2>3, <2>4, <2>5 DEF TypeOK, Stamp, plan, gate
<1>5. ASSUME NEW w \in Worker, PaidFails(w) PROVE TypeOK'
  BY <1>5 DEF TypeOK, PaidFails, Fault, AckFailure, plan, gate, ledger
<1>6. CASE ChangePlan
  BY <1>6 DEF TypeOK, ChangePlan, Race, ledger, hooks
<1>7. CASE NextMonth
  BY <1>7 DEF TypeOK, NextMonth, Month, gate, ledger, hooks
<1>8. CASE UNCHANGED vars
  BY <1>8 DEF TypeOK, vars, plan, gate, ledger, hooks
<1> QED
  BY <1>1, <1>2, <1>3, <1>4, <1>5, <1>6, <1>7, <1>8

\* Every step keeps the types.
LEMMA TypeStep == TypeOK /\ [Next]_vars => TypeOK'
BY TypeConsult, TypeRest DEF Next

\* Type correctness: no bucket, balance or status is ever out of range
\* (MarkOrderPaid, ConsumeCredits, consumePlanUnit).
THEOREM TypeCorrect == Spec => []TypeOK
<1>1. Init => TypeOK
  BY TypeInit
<1>2. TypeOK /\ [Next]_vars => TypeOK'
  BY TypeStep
<1> QED
  BY <1>1, <1>2, PTL DEF Spec

-----------------------------------------------------------------------------
(* The rest of the invariant.                                              *)

\* At first nobody was charged and nothing was paid.
LEMMA InvInit == Init => IInv
<1> SUFFICES ASSUME Init PROVE IInv
  OBVIOUS
<1>1. TypeOK
  BY TypeInit
<1>2. PhaseInv
  BY DEF Init, PhaseInv
<1>3. BooksInv
  <2>1. \A m \in Month : Counted(m) = {}
    BY DEF Init, Counted, Month, None
  <2> QED
    BY <2>1, FS_EmptySet DEF Init, BooksInv
<1>4. RaceInv
  BY DEF Init, RaceInv
<1> QED
  BY <1>1, <1>2, <1>3, <1>4 DEF IInv

\* Orders and webhooks change nothing of a consultation, and take no credits away.
LEMMA OrdersFrame ==
    ASSUME TypeOK,
           \/ \E o \in Order : Checkout(o) \/ Report(o)
           \/ \E h \in Hook : Deliver(h)
           \/ \E w \in Worker : MarkOrderPaid(w) \/ PaidFails(w)
           \/ UNCHANGED vars
    PROVE  UNCHANGED <<plan, gate>> /\ balance' >= balance
<1> USE AdvisorBillingAssumption DEF TypeOK
<1>1. ASSUME NEW o \in Order, Checkout(o) \/ Report(o) PROVE UNCHANGED <<plan, gate>> /\ balance' >= balance
  BY <1>1 DEF Checkout, Report
<1>2. ASSUME NEW h \in Hook, Deliver(h) PROVE UNCHANGED <<plan, gate>> /\ balance' >= balance
  BY <1>2 DEF Deliver, Probe, MarkOrderRefunded, RefundKeepsUnits
<1>3. ASSUME NEW w \in Worker, MarkOrderPaid(w) PROVE UNCHANGED <<plan, gate>> /\ balance' >= balance
  <2>1. UNCHANGED <<plan, gate>> /\ balance' = balance + Units
    BY <1>3 DEF MarkOrderPaid
  <2> QED
    BY <2>1
<1>4. ASSUME NEW w \in Worker, PaidFails(w) PROVE UNCHANGED <<plan, gate>> /\ balance' >= balance
  BY <1>4 DEF PaidFails
<1>5. CASE UNCHANGED vars
  BY <1>5 DEF vars
<1> QED
  BY <1>1, <1>2, <1>3, <1>4, <1>5

\* What the steps outside of a consultation leave of the invariant.
LEMMA InvRest ==
    ASSUME IInv,
           \/ \E o \in Order : Checkout(o) \/ Report(o)
           \/ \E h \in Hook : Deliver(h)
           \/ \E w \in Worker : MarkOrderPaid(w) \/ PaidFails(w)
           \/ ChangePlan
           \/ NextMonth
           \/ UNCHANGED vars
    PROVE  IInv'
<1> USE AdvisorBillingAssumption
<1>0. TypeOK /\ PhaseInv /\ BooksInv /\ RaceInv
  BY DEF IInv
<1>1. TypeOK'
  BY <1>0, TypeRest
<1>2. UNCHANGED <<used, phase, source, charge, at, leaked>>
  <2>1. CASE ChangePlan \/ NextMonth
    BY <2>1 DEF ChangePlan, NextMonth, gate
  <2> QED
    BY <1>0, <2>1, OrdersFrame DEF gate
<1>3. month' >= month /\ month \in Nat /\ month' \in Nat
  <2>1. month \in Nat
    BY <1>0 DEF TypeOK, Month
  <2>2. CASE ChangePlan \/ NextMonth
    BY <2>1, <2>2 DEF ChangePlan, NextMonth
  <2> QED
    BY <1>0, <2>1, <2>2, OrdersFrame DEF plan
<1>4. PhaseInv'
  BY <1>0, <1>2, <1>3 DEF PhaseInv, TypeOK, Month
<1>5. BooksInv'
  <2>1. \A m \in Month : Counted(m)' = Counted(m)
    BY <1>2 DEF Counted
  <2>2. \A m \in Month : m > month' => m > month
    BY <1>3 DEF Month
  <2> QED
    BY <1>0, <1>2, <2>1, <2>2 DEF BooksInv
<1>6. RaceInv'
  <2>1. CASE ChangePlan
    BY <1>0, <2>1 DEF ChangePlan, Race, Open, RaceInv, TypeOK
  <2>2. CASE NextMonth
    <3>1. month' \in Month /\ month' > month /\ limit' = limit /\ used' = used
      BY <1>0, <1>1, <2>2 DEF NextMonth, TypeOK, Month, gate
    <3>2. used[month'] = 0 /\ used[month] \in Nat /\ limit \in Nat \cup {Unlimited}
      BY <1>0, <3>1 DEF BooksInv, TypeOK
    <3>3. ~Full(used[month], limit) => ~Full(used'[month'], limit')
      BY <3>1, <3>2 DEF Full, Unlimited
    <3>4. UNCHANGED <<raced, balance>>
      BY <2>2 DEF NextMonth, gate
    <3> QED
      BY <1>0, <1>2, <3>1, <3>3, <3>4 DEF RaceInv, Admits
  <2>3. CASE UNCHANGED <<plan, gate>> /\ balance' >= balance
    <3>1. UNCHANGED <<month, limit, raced>> /\ balance' >= balance /\ balance \in Nat /\ balance' \in Nat
      BY <1>0, <1>1, <2>3 DEF plan, gate, TypeOK
    <3>2. ~Full(used[month], limit) => ~Full(used'[month'], limit')
      BY <1>2, <3>1
    <3> QED
      BY <1>0, <1>2, <3>1, <3>2 DEF RaceInv, Admits
  <2> QED
    BY <1>0, <2>1, <2>2, <2>3, OrdersFrame
<1> QED
  BY <1>1, <1>4, <1>5, <1>6 DEF IInv

-----------------------------------------------------------------------------
(* The steps of a consultation.                                            *)

\* The consultations counted are finitely many.
LEMMA CountedFinite ==
    ASSUME NEW m
    PROVE  IsFiniteSet(Counted(m)) /\ Cardinality(Counted(m)) \in Nat
BY AdvisorBillingAssumption, FS_Subset, FS_CardinalityType DEF Counted

\* An increment, and one consultation more that has it.
LEMMA CountUp ==
    ASSUME TypeOK, BooksInv, NEW c \in Consult, c \notin Counted(month),
           month' = month, used' = [used EXCEPT ![month] = @ + 1],
           \A m \in Month : Counted(m)' = IF m = month THEN Counted(m) \cup {c} ELSE Counted(m)
    PROVE  BooksInv'
<1>1. Cardinality(Counted(month) \cup {c}) = Cardinality(Counted(month)) + 1
  BY CountedFinite, FS_AddElement
<1>2. \A m \in Month : used'[m] = IF m = month THEN used[m] + 1 ELSE used[m]
  BY DEF TypeOK
<1>3. \A m \in Month : used'[m] = Cardinality(Counted(m)')
  BY <1>1, <1>2 DEF BooksInv
<1>4. \A m \in Month : m > month' => used'[m] = 0
  BY <1>2 DEF BooksInv, Month
<1> QED
  BY <1>3, <1>4 DEF BooksInv

\* While the counters and who is counted stay, the books do.
LEMMA CountSame ==
    ASSUME BooksInv, month' = month, used' = used, \A m \in Month : Counted(m)' = Counted(m)
    PROVE  BooksInv'
BY DEF BooksInv

\* Admission: what Check saw is what the invariant asks for.
LEMMA InvAdmission ==
    ASSUME IInv, NEW c \in Consult, Check(c) \/ CheckCredits(c) \/ Answer(c)
    PROVE  PhaseInv' /\ BooksInv' /\ RaceInv'
<1>0. TypeOK /\ PhaseInv /\ BooksInv /\ RaceInv
  BY DEF IInv
<1>1. /\ UNCHANGED <<month, limit, used, balance, charge, at, leaked>>
      /\ phase[c] \in {"idle", "checking", "consulting"}
      /\ \A d \in Consult \ {c} : phase'[d] = phase[d] /\ source'[d] = source[d]
      /\ raced \ {c} \subseteq raced'
      /\ \A d \in Consult \ {c} : d \in raced' <=> d \in raced
  BY <1>0 DEF Check, CheckCredits, Answer, Goto, plan, TypeOK
<1>2. /\ phase'[c] \in {"idle", "checking", "consulting", "planning", "crediting"}
      /\ phase'[c] = "planning" => source'[c] = "plan"
  BY <1>0 DEF Check, CheckCredits, Answer, Goto, TypeOK
<1>3. PhaseInv'
  BY <1>0, <1>1, <1>2 DEF PhaseInv
<1>4. BooksInv'
  <2>1. \A m \in Month : Counted(m)' = Counted(m)
    BY <1>1, <1>2 DEF Counted
  <2> QED
    BY <1>0, <1>1, <2>1, CountSame
<1>5. RaceInv'
  <2>1. \A d \in Consult \ {c} : d \notin raced' =>
            /\ charge'[d] # "unmetered"
            /\ source'[d] = "plan" =>
                /\ phase'[d] \in {"consulting", "planning"} => Admits(limit)
                /\ phase'[d] \notin {"undoing", "crediting"}
            /\ source'[d] = "credit" /\ phase'[d] \in {"consulting", "crediting"} => balance > 0
    BY <1>0, <1>1 DEF RaceInv
  <2>2. charge[c] = "none"
    BY <1>0, <1>1 DEF PhaseInv
  <2>3. c \notin raced' =>
            /\ source'[c] = "plan" =>
                /\ phase'[c] \in {"consulting", "planning"} => Admits(limit)
                /\ phase'[c] \notin {"undoing", "crediting"}
            /\ source'[c] = "credit" /\ phase'[c] \in {"consulting", "crediting"} => balance > 0
    <3>1. CASE Check(c)
      BY <1>0, <3>1 DEF Check, Goto, TypeOK
    <3>2. CASE CheckCredits(c)
      BY <1>0, <3>2 DEF CheckCredits, Goto, TypeOK
    <3>3. CASE Answer(c)
      BY <1>0, <3>3 DEF Answer, Goto, TypeOK, RaceInv
    <3> QED
      BY <3>1, <3>2, <3>3
  <2>4. balance' = balance /\ charge' = charge /\ (Admits(limit) => ~Full(used'[month'], limit'))
    BY <1>1 DEF Admits
  <2> QED
    BY <2>1, <2>2, <2>3, <2>4 DEF RaceInv, Admits
<1> QED
  BY <1>3, <1>4, <1>5

\* A consultation that loses the plan unit had a race: what Check saw is gone.
LEMMA InvConsumePlanUnit ==
    ASSUME IInv, NEW c \in Consult, ConsumePlanUnit(c)
    PROVE  PhaseInv' /\ BooksInv' /\ RaceInv'
<1>0. TypeOK /\ PhaseInv /\ BooksInv /\ RaceInv
  BY DEF IInv
<1>1. /\ phase[c] = "planning" /\ source[c] = "plan" /\ charge[c] = "none" /\ c \notin leaked
      /\ month \in Month
  BY <1>0 DEF ConsumePlanUnit, PhaseInv, TypeOK
<1>2. /\ UNCHANGED <<month, limit, balance, source, leaked>>
      /\ used' = [used EXCEPT ![month] = @ + 1]
      /\ at' = [at EXCEPT ![c] = month]
      /\ \A d \in Consult \ {c} : phase'[d] = phase[d] /\ charge'[d] = charge[d]
      /\ \/ phase'[c] = "done" /\ charge'[c] = "plan"
         \/ phase'[c] = "undoing" /\ charge'[c] = "none" /\ CrossesLimit(limit)
  BY <1>0, <1>1 DEF ConsumePlanUnit, Goto, Pays, plan, TypeOK
<1>3. PhaseInv'
  BY <1>0, <1>1, <1>2 DEF PhaseInv, TypeOK, Month
<1>4. BooksInv'
  <2>1. \A m \in Month : Counted(m)' = IF m = month THEN Counted(m) \cup {c} ELSE Counted(m)
    BY <1>0, <1>1, <1>2 DEF Counted, TypeOK
  <2>2. c \notin Counted(month)
    BY <1>1 DEF Counted
  <2> QED
    BY <1>0, <1>2, <2>1, <2>2, CountUp
<1>5. RaceInv'
  <2>1. CASE CrossesLimit(limit)
    <3>1. used[month] \in Nat /\ limit \in Nat \cup {Unlimited}
      BY <1>0, <1>1, AdvisorBillingAssumption DEF TypeOK
    <3>2. ~Admits(limit)
      BY <2>1, <3>1 DEF CrossesLimit, Admits, Full, Unlimited
    <3>3. raced' = raced
      BY <2>1 DEF ConsumePlanUnit
    <3>4. c \in raced
      BY <1>0, <1>1, <3>2 DEF RaceInv
    <3>5. \A d \in Consult \ raced : source[d] = "plan" => phase[d] \notin {"consulting", "planning"}
      BY <1>0, <3>2 DEF RaceInv
    <3> QED
      BY <1>0, <1>2, <3>3, <3>4, <3>5 DEF RaceInv
  <2>2. CASE ~CrossesLimit(limit)
    <3>1. /\ phase'[c] = "done" /\ charge'[c] = "plan"
          /\ \A d \in Consult \ {c} : d \notin raced' => d \notin raced /\ ~Open(d)
      BY <1>0, <2>2 DEF ConsumePlanUnit, Goto, Pays, Race, TypeOK
    <3>2. \A d \in Consult : ~Open(d) => phase[d] \in {"idle", "done"}
      BY DEF Open
    <3> QED
      BY <1>0, <1>2, <3>1, <3>2 DEF RaceInv
  <2> QED
    BY <2>1, <2>2
<1> QED
  BY <1>3, <1>4, <1>5

\* An error, with or without its increment or its debit.
LEMMA InvConsumeFails ==
    ASSUME IInv, NEW c \in Consult, ConsumeFails(c)
    PROVE  PhaseInv' /\ BooksInv' /\ RaceInv'
<1>0. TypeOK /\ PhaseInv /\ BooksInv /\ RaceInv
  BY DEF IInv
<1>1. /\ phase[c] \in {"planning", "crediting"} /\ charge[c] = "none"
      /\ month \in Month
  BY <1>0 DEF ConsumeFails, PhaseInv, TypeOK
<1>2. /\ UNCHANGED <<month, limit, source>>
      /\ \A d \in Consult \ {c} : phase'[d] = phase[d] /\ charge'[d] = charge[d]
      /\ phase'[c] = "done" /\ charge'[c] \in {"lost", "taken"}
  BY <1>0 DEF ConsumeFails, Goto, Pays, plan, TypeOK
<1>3. CASE UNCHANGED <<used, at, leaked, balance>> /\ raced' = raced \ {c}
  <2>1. PhaseInv'
    BY <1>0, <1>1, <1>2, <1>3 DEF PhaseInv, TypeOK
  <2>2. BooksInv'
    <3>1. \A m \in Month : Counted(m)' = Counted(m)
      BY <1>0, <1>1, <1>2, <1>3 DEF Counted
    <3> QED
      BY <1>0, <1>2, <1>3, <3>1, CountSame
  <2>3. RaceInv'
    BY <1>0, <1>2, <1>3 DEF RaceInv, Admits
  <2> QED
    BY <2>1, <2>2, <2>3
<1>4. CASE /\ phase[c] = "planning"
           /\ used' = [used EXCEPT ![month] = @ + 1]
           /\ at' = [at EXCEPT ![c] = month]
           /\ leaked' = leaked \cup {c}
           /\ Race({c})
  <2>0. c \notin leaked
    BY <1>0, <1>4 DEF PhaseInv
  <2>1. PhaseInv'
    BY <1>0, <1>1, <1>2, <1>4 DEF PhaseInv, TypeOK, Month
  <2>2. BooksInv'
    <3>1. \A m \in Month : Counted(m)' = IF m = month THEN Counted(m) \cup {c} ELSE Counted(m)
      BY <1>0, <1>1, <1>2, <1>4, <2>0 DEF Counted, TypeOK
    <3>2. c \notin Counted(month)
      BY <1>1, <1>4, <2>0 DEF Counted
    <3> QED
      BY <1>0, <1>2, <1>4, <3>1, <3>2, CountUp
  <2>3. RaceInv'
    <3>1. \A d \in Consult \ {c} : d \notin raced' => d \notin raced /\ phase[d] \in {"idle", "done"}
      BY <1>0, <1>4 DEF Race, Open, TypeOK
    <3> QED
      BY <1>0, <1>2, <3>1 DEF RaceInv
  <2> QED
    BY <2>1, <2>2, <2>3
<1>5. CASE phase[c] = "crediting" /\ Race({c}) /\ UNCHANGED <<used, at, leaked>>
  <2>1. PhaseInv'
    BY <1>0, <1>1, <1>2, <1>5 DEF PhaseInv, TypeOK
  <2>2. BooksInv'
    <3>1. \A m \in Month : Counted(m)' = Counted(m)
      BY <1>0, <1>1, <1>2, <1>5 DEF Counted
    <3> QED
      BY <1>0, <1>2, <1>5, <3>1, CountSame
  <2>3. RaceInv'
    <3>1. \A d \in Consult \ {c} : d \notin raced' => d \notin raced /\ phase[d] \in {"idle", "done"}
      BY <1>0, <1>5 DEF Race, Open, TypeOK
    <3> QED
      BY <1>0, <1>2, <3>1 DEF RaceInv
  <2> QED
    BY <2>1, <2>2, <2>3
<1> QED
  BY <1>3, <1>4, <1>5 DEF ConsumeFails

\* A reversal goes to the month of its increment, and only a consultation that
\* had a race comes to it.
LEMMA InvUndo ==
    ASSUME IInv, NEW c \in Consult, Undo(c)
    PROVE  PhaseInv' /\ BooksInv' /\ RaceInv'
<1>0. TypeOK /\ PhaseInv /\ BooksInv /\ RaceInv
  BY DEF IInv
<1>1. /\ phase[c] = "undoing" /\ charge[c] = "none" /\ c \notin leaked /\ source[c] = "plan"
      /\ at[c] \in 1 .. month /\ at[c] \in Month /\ c \in raced
  <2>1. phase[c] = "undoing" /\ charge[c] = "none" /\ c \notin leaked /\ source[c] = "plan"
    BY <1>0 DEF Undo, PhaseInv, TypeOK
  <2>2. at[c] \in 1 .. month /\ at[c] \in Month
    BY <1>0, <2>1, AdvisorBillingAssumption DEF PhaseInv, TypeOK, Month
  <2>3. c \in raced
    BY <1>0, <2>1 DEF RaceInv
  <2> QED
    BY <2>1, <2>2, <2>3
<1>2. /\ UNCHANGED <<month, limit, balance, source, charge, at, raced>>
      /\ \A d \in Consult \ {c} : phase'[d] = phase[d]
      /\ phase'[c] = "crediting"
  BY <1>0 DEF Undo, Goto, plan, TypeOK
<1>3. CASE leaked' = leaked \cup {c} /\ UNCHANGED used
  <2>1. PhaseInv'
    BY <1>0, <1>1, <1>2, <1>3 DEF PhaseInv
  <2>2. BooksInv'
    <3>1. \A m \in Month : Counted(m)' = Counted(m)
      BY <1>0, <1>1, <1>2, <1>3 DEF Counted
    <3> QED
      BY <1>0, <1>2, <1>3, <3>1, CountSame
  <2>3. RaceInv'
    BY <1>0, <1>1, <1>2, <1>3 DEF RaceInv, Admits
  <2> QED
    BY <2>1, <2>2, <2>3
<1>4. CASE Decrement(c) /\ UNCHANGED leaked
  <2>1. PhaseInv'
    BY <1>0, <1>1, <1>2, <1>4 DEF PhaseInv
  <2>2. /\ \A m \in Month : Counted(m)' = IF m = at[c] THEN Counted(m) \ {c} ELSE Counted(m)
        /\ c \in Counted(at[c])
    BY <1>0, <1>1, <1>2, <1>4 DEF Counted
  <2>3. /\ Cardinality(Counted(at[c]) \ {c}) = Cardinality(Counted(at[c])) - 1
        /\ used[at[c]] = Cardinality(Counted(at[c])) /\ used[at[c]] # 0
    <3>1. Cardinality(Counted(at[c])) # 0
      BY <2>2, CountedFinite, FS_EmptySet
    <3> QED
      BY <1>0, <1>1, <2>2, <3>1, CountedFinite, FS_RemoveElement DEF BooksInv
  <2>4. \A m \in Month : used'[m] = IF m = at[c] THEN used[m] - 1 ELSE used[m]
    <3>1. used[at[c]] \in Nat
      BY <1>0, <1>1 DEF TypeOK
    <3>2. Max({used[at[c]] - 1, 0}) = used[at[c]] - 1
      BY <2>3, <3>1, MaxDecrement
    <3> QED
      BY <1>0, <1>1, <1>4, <3>2 DEF Decrement, TypeOK
  <2>5. BooksInv'
    <3>1. \A m \in Month : used'[m] = Cardinality(Counted(m)')
      BY <1>0, <2>2, <2>3, <2>4 DEF BooksInv
    <3>2. \A m \in Month : m > month' => used'[m] = 0
      BY <1>0, <1>1, <1>2, <2>4 DEF BooksInv, Month, TypeOK
    <3> QED
      BY <3>1, <3>2 DEF BooksInv
  <2>6. RaceInv'
    <3>1. \A d \in Consult \ raced' : charge'[d] = charge[d] /\ phase'[d] = phase[d] /\ source'[d] = source[d]
      BY <1>1, <1>2
    <3>2. Admits(limit) => ~Full(used'[month'], limit')
      <4>1. used'[month] <= used[month] /\ used[month] \in Nat /\ limit \in Nat \cup {Unlimited}
            /\ used'[month] \in Nat
        BY <1>0, <1>1, <2>3, <2>4, AdvisorBillingAssumption DEF TypeOK
      <4> QED
        BY <1>2, <4>1 DEF Admits, Full, Unlimited
    <3> QED
      BY <1>0, <1>2, <3>1, <3>2 DEF RaceInv, Admits
  <2> QED
    BY <2>1, <2>5, <2>6
<1> QED
  BY <1>3, <1>4 DEF Undo

\* The credits pay if Check saw some and there was no race.
LEMMA InvConsumeCredits ==
    ASSUME IInv, NEW c \in Consult, ConsumeCredits(c)
    PROVE  PhaseInv' /\ BooksInv' /\ RaceInv'
<1>0. TypeOK /\ PhaseInv /\ BooksInv /\ RaceInv
  BY DEF IInv
<1>1. phase[c] = "crediting" /\ charge[c] = "none" /\ source[c] \in {"plan", "credit"}
  BY <1>0 DEF ConsumeCredits, PhaseInv, TypeOK
<1>2. /\ UNCHANGED <<month, limit, used, source, at, leaked>>
      /\ \A d \in Consult \ {c} : phase'[d] = phase[d] /\ charge'[d] = charge[d]
      /\ phase'[c] = "done"
      /\ \/ charge'[c] = "credit" /\ HasCredit
         \/ charge'[c] = "unmetered" /\ ~HasCredit /\ UNCHANGED <<balance, raced>>
  BY <1>0 DEF ConsumeCredits, Goto, Pays, plan, TypeOK
<1>3. PhaseInv'
  BY <1>0, <1>1, <1>2 DEF PhaseInv
<1>4. BooksInv'
  <2>1. \A m \in Month : Counted(m)' = Counted(m)
    BY <1>0, <1>1, <1>2 DEF Counted
  <2> QED
    BY <1>0, <1>2, <2>1, CountSame
<1>5. RaceInv'
  <2>1. CASE HasCredit
    <3>1. \A d \in Consult \ {c} : d \notin raced' => d \notin raced /\ phase[d] \in {"idle", "done"}
      BY <1>0, <2>1 DEF ConsumeCredits, Race, Open, TypeOK
    <3> QED
      BY <1>0, <1>2, <2>1, <3>1 DEF RaceInv
  <2>2. CASE ~HasCredit
    <3>1. c \in raced
      BY <1>0, <1>1, <2>2 DEF RaceInv, HasCredit
    <3> QED
      BY <1>0, <1>2, <2>2, <3>1 DEF RaceInv, Admits
  <2> QED
    BY <2>1, <2>2
<1> QED
  BY <1>3, <1>4, <1>5

\* Every step keeps the invariant.
LEMMA InvStep == IInv /\ [Next]_vars => IInv'
<1> SUFFICES ASSUME IInv, [Next]_vars PROVE IInv'
  OBVIOUS
<1>1. ASSUME NEW c \in Consult,
             Check(c) \/ CheckCredits(c) \/ Answer(c) \/ ConsumePlanUnit(c) \/ ConsumeFails(c)
               \/ Undo(c) \/ ConsumeCredits(c)
      PROVE IInv'
  <2>1. TypeOK'
    BY <1>1, TypeConsult DEF IInv
  <2>2. PhaseInv' /\ BooksInv' /\ RaceInv'
    BY <1>1, InvAdmission, InvConsumePlanUnit, InvConsumeFails, InvUndo, InvConsumeCredits
  <2> QED
    BY <2>1, <2>2 DEF IInv
<1> QED
  BY <1>1, InvRest DEF Next

\* A month's counter is what the plan paid and what was never reversed, for every
\* number of consultations (consumePlanUnit, decrementLookup).
THEOREM BooksCorrect == Spec => []UsageBooks
<1>1. IInv => UsageBooks
  BY DEF IInv, BooksInv, UsageBooks, Counted
<1> QED
  BY <1>1, InvInit, InvStep, PTL DEF Spec

\* Nobody consults for nothing unless another one was charged, or the plan
\* changed, since the admission (Gate.Check, Gate.Consume).
THEOREM FreeCorrect == Spec => []FreeOnlyByRace
<1>1. IInv => FreeOnlyByRace
  BY DEF IInv, RaceInv, FreeOnlyByRace, Charged
<1> QED
  BY <1>1, InvInit, InvStep, PTL DEF Spec

-----------------------------------------------------------------------------
(* The plan's limit.                                                       *)

\* The consultation that the plan pays last is held against the counter after its
\* increment, and the counter is no less than what the plan pays.
LEMMA LimitStep == IInv /\ PlanWithinLimit /\ [Next]_vars => PlanWithinLimit'
<1> SUFFICES ASSUME IInv, PlanWithinLimit, [Next]_vars PROVE PlanWithinLimit'
  OBVIOUS
<1>0. TypeOK /\ PhaseInv /\ BooksInv
  BY DEF IInv
<1>1. SUFFICES ASSUME NEW m \in Month, PlanServed(m)' # {}
               PROVE \E c \in PlanServed(m)' : ~Full(Cardinality(PlanServed(m)') - 1, lim'[c])
  BY DEF PlanWithinLimit
<1>2. CASE PlanServed(m)' = PlanServed(m) /\ \A c \in PlanServed(m) : lim'[c] = lim[c]
  BY <1>1, <1>2 DEF PlanWithinLimit
<1>3. ASSUME NEW c \in Consult, ConsumePlanUnit(c)
      PROVE \E d \in PlanServed(m)' : ~Full(Cardinality(PlanServed(m)') - 1, lim'[d])
  <2>0. c \notin PlanServed(m) /\ charge[c] = "none" /\ month \in Month
    BY <1>0, <1>3 DEF ConsumePlanUnit, PhaseInv, PlanServed, Charged, TypeOK
  <2>1. CASE CrossesLimit(limit) \/ m # month
    <3>1. /\ \A d \in Consult \ {c} : at'[d] = at[d] /\ charge'[d] = charge[d] /\ lim'[d] = lim[d]
          /\ at'[c] = month /\ charge'[c] \in {"none", "plan"} /\ (CrossesLimit(limit) => charge'[c] = "none")
      BY <1>0, <1>3, <2>0 DEF ConsumePlanUnit, Pays, TypeOK
    <3>2. PlanServed(m)' = PlanServed(m) /\ \A d \in PlanServed(m) : lim'[d] = lim[d]
      BY <2>0, <2>1, <3>1 DEF PlanServed, Charged
    <3> QED
      BY <1>2, <3>2
  <2>2. CASE ~CrossesLimit(limit) /\ m = month
    <3>1. /\ \A d \in Consult \ {c} : at'[d] = at[d] /\ charge'[d] = charge[d]
          /\ at'[c] = month /\ charge'[c] = "plan" /\ lim'[c] = limit
      BY <1>0, <1>3, <2>2 DEF ConsumePlanUnit, Pays, TypeOK
    <3>2. PlanServed(m)' = PlanServed(m) \cup {c}
      BY <2>0, <2>2, <3>1 DEF PlanServed, Charged
    <3>3. PlanServed(m) \subseteq Counted(m)
      BY DEF PlanServed, Charged, Counted
    <3>4. IsFiniteSet(PlanServed(m)) /\ Cardinality(PlanServed(m)) <= used[month]
      BY <1>0, <2>2, <3>3, CountedFinite, FS_Subset DEF BooksInv
    <3>5. /\ Cardinality(PlanServed(m)') = Cardinality(PlanServed(m)) + 1
          /\ Cardinality(PlanServed(m)) \in Nat
      BY <2>0, <3>2, <3>4, FS_AddElement, FS_CardinalityType
    <3>6. used[month] \in Nat /\ limit \in Nat \cup {Unlimited}
      BY <1>0, <2>0, AdvisorBillingAssumption DEF TypeOK
    <3>7. ~Full(Cardinality(PlanServed(m)') - 1, limit)
      BY <2>2, <3>4, <3>5, <3>6 DEF CrossesLimit, Full, Unlimited
    <3> QED
      BY <3>1, <3>2, <3>7
  <2> QED
    BY <2>1, <2>2
<1>4. ASSUME NEW c \in Consult,
             Check(c) \/ CheckCredits(c) \/ Answer(c) \/ ConsumeFails(c) \/ Undo(c) \/ ConsumeCredits(c)
      PROVE PlanServed(m)' = PlanServed(m) /\ lim' = lim
  <2>1. CASE Check(c) \/ CheckCredits(c) \/ Answer(c) \/ Undo(c)
    BY <2>1 DEF Check, CheckCredits, Answer, Undo, PlanServed, Charged
  <2>2. CASE ConsumeFails(c) \/ ConsumeCredits(c)
    <3>1. /\ \A d \in Consult \ {c} : at'[d] = at[d] /\ charge'[d] = charge[d]
          /\ charge[c] = "none" /\ charge'[c] # "plan" /\ lim' = lim
      BY <1>0, <2>2 DEF ConsumeFails, ConsumeCredits, Pays, PhaseInv, TypeOK
    <3> QED
      BY <3>1 DEF PlanServed, Charged
  <2> QED
    BY <1>4, <2>1, <2>2
<1>5. CASE ChangePlan \/ NextMonth
  BY <1>2, <1>5 DEF ChangePlan, NextMonth, gate, PlanServed, Charged
<1>6. CASE UNCHANGED <<plan, gate>>
  BY <1>2, <1>6 DEF gate, PlanServed, Charged
<1> QED
  BY <1>0, <1>2, <1>3, <1>4, <1>5, <1>6, OrdersFrame DEF Next

\* However many consultations pass the same look at the bucket, and whenever
\* reversals come or get lost, the plan pays no more than a limit allows
\* (consumePlanUnit's compare after the increment).
THEOREM LimitCorrect == Spec => []PlanWithinLimit
<1>1. Init => PlanWithinLimit
  BY DEF Init, PlanWithinLimit, PlanServed, Charged
<1> QED
  BY <1>1, InvInit, InvStep, LimitStep, PTL DEF Spec

-----------------------------------------------------------------------------
(* The balance.                                                            *)

\* The consultations that took a credit are finitely many.
LEMMA CreditsFinite ==
    IsFiniteSet(Taken) /\ Cardinality(Taken) \in Nat
BY AdvisorBillingAssumption, FS_Subset, FS_CardinalityType DEF Taken

BalanceInv == IsFiniteSet(Packs) /\ BalanceAccounts

\* A pack is its units more, and a consultation that pays with a credit one less.
LEMMA BalanceStep == IInv /\ BalanceInv /\ [Next]_vars => BalanceInv'
<1> SUFFICES ASSUME IInv, BalanceInv, [Next]_vars PROVE BalanceInv'
  OBVIOUS
<1> DEFINE paid == Taken
<1>0. /\ TypeOK /\ PhaseInv /\ balance \in Nat /\ Units \in Nat
      /\ IsFiniteSet(Packs) /\ Cardinality(Packs) \in Nat
      /\ IsFiniteSet(paid) /\ Cardinality(paid) \in Nat
      /\ balance + Cardinality(paid) = Units * Cardinality(Packs)
  BY AdvisorBillingAssumption, CreditsFinite, FS_CardinalityType
     DEF IInv, TypeOK, BalanceInv, BalanceAccounts
<1>1. CASE UNCHANGED <<balance, credited>> /\ Taken' = Taken
  <2>1. Packs' = Packs
    BY <1>1 DEF Packs
  <2> QED
    BY <1>0, <1>1, <2>1 DEF BalanceInv, BalanceAccounts
<1>2. ASSUME NEW c \in Consult, Check(c) \/ CheckCredits(c) \/ Answer(c) \/ Undo(c)
      PROVE  UNCHANGED <<balance, credited, charge>>
  BY <1>2 DEF Check, CheckCredits, Answer, Undo, ledger
<1>3. ASSUME NEW c \in Consult, ConsumePlanUnit(c) \/ (ConsumeFails(c) /\ ~Pays(c, "taken"))
      PROVE  UNCHANGED <<balance, credited>> /\ Taken' = Taken
  <2>1. /\ UNCHANGED <<balance, credited>> /\ charge[c] = "none" /\ charge'[c] \in {"none", "plan", "lost"}
        /\ \A d \in Consult \ {c} : charge'[d] = charge[d]
    BY <1>0, <1>3 DEF ConsumePlanUnit, ConsumeFails, Pays, PhaseInv, TypeOK, ledger
  <2> QED
    BY <2>1 DEF Taken
<1>4. ASSUME NEW c \in Consult, NEW who \in {"credit", "taken"}, charge[c] = "none",
             balance' = balance - 1, Pays(c, who), credited' = credited
      PROVE  BalanceInv'
  <2>1. Taken' = paid \cup {c} /\ c \notin paid
    BY <1>0, <1>4 DEF Taken, Pays, TypeOK
  <2>2. Cardinality(Taken') = Cardinality(paid) + 1
    BY <1>0, <2>1, FS_AddElement
  <2>3. Packs' = Packs
    BY <1>4 DEF Packs
  <2>4. balance' + (Cardinality(paid) + 1) = Units * Cardinality(Packs)
    BY <1>0, <1>4
  <2> QED
    BY <1>0, <2>2, <2>3, <2>4 DEF BalanceInv, BalanceAccounts
<1>5. ASSUME NEW c \in Consult, ConsumeFails(c), Pays(c, "taken") PROVE BalanceInv'
  <2>1. charge[c] = "none" /\ credited' = credited
    BY <1>0, <1>5 DEF ConsumeFails, PhaseInv, TypeOK, ledger
  <2>2. charge'[c] = "taken"
    BY <1>0, <1>5 DEF Pays, TypeOK
  <2>3. balance' = balance - 1
    BY <1>0, <1>5, <2>2 DEF ConsumeFails, Pays, TypeOK
  <2> QED
    BY <1>4, <1>5, <2>1, <2>3
<1>6. ASSUME NEW c \in Consult, ConsumeCredits(c) PROVE BalanceInv'
  <2>1. charge[c] = "none" /\ charge = [d \in Consult |-> charge[d]]
    BY <1>0, <1>6 DEF ConsumeCredits, PhaseInv, TypeOK
  <2>2. CASE HasCredit
    BY <1>6, <1>4, <2>1, <2>2 DEF ConsumeCredits, ledger
  <2>3. CASE ~HasCredit
    <3>1. UNCHANGED <<balance, credited>> /\ charge' = [charge EXCEPT ![c] = "unmetered"]
      BY <1>6, <2>3 DEF ConsumeCredits, Pays, ledger
    <3>2. Taken' = Taken
      BY <2>1, <3>1 DEF Taken
    <3> QED
      BY <1>1, <3>1, <3>2
  <2> QED
    BY <2>2, <2>3
<1>7. ASSUME NEW w \in Worker, MarkOrderPaid(w) PROVE BalanceInv'
  <2>1. PICK h \in work[w] : /\ balance' = balance + Units
                             /\ credited' = [credited EXCEPT ![h[1]] = @ + 1]
                             /\ UNCHANGED gate
    BY <1>7 DEF MarkOrderPaid
  <2>2. PICK o \in Order : o = h[1]
    BY <1>0 DEF TypeOK, Hook
  <2>3. PICK n \in Nat : n = credited[o]
    BY <1>0 DEF TypeOK
  <2>4. /\ credited \in [Order -> Nat] /\ \A q \in Order : q # o => credited'[q] = credited[q]
        /\ credited'[o] = n + 1
    BY <1>0, <2>1, <2>2, <2>3 DEF TypeOK
  <2>5. Packs' = Packs \cup {<<o, n + 1>>} /\ <<o, n + 1>> \notin Packs
    <3>1. 1 .. (n + 1) = (1 .. n) \cup {n + 1} /\ n + 1 \notin 1 .. n
      OBVIOUS
    <3>2. {o} \X (1 .. credited'[o]) = ({o} \X (1 .. credited[o])) \cup {<<o, n + 1>>}
      BY <2>3, <2>4, <3>1
    <3>3. \A p : p \in Packs <=> \E q \in Order : p \in {q} \X (1 .. credited[q])
      BY DEF Packs
    <3>4. \A p : p \in Packs' <=> \E q \in Order : p \in {q} \X (1 .. credited'[q])
      BY DEF Packs
    <3>5. <<o, n + 1>> \notin Packs
      BY <2>3, <3>1, <3>3
    <3>6. \A p : p \in Packs' <=> p \in Packs \/ p = <<o, n + 1>>
      BY <2>4, <3>2, <3>3, <3>4
    <3> QED
      BY <3>5, <3>6
  <2>6. IsFiniteSet(Packs') /\ Cardinality(Packs') = Cardinality(Packs) + 1
    BY <1>0, <2>5, FS_AddElement
  <2>7. Taken' = paid
    BY <2>1 DEF gate, Taken
  <2>8. (balance + Units) + Cardinality(paid) = Units * (Cardinality(Packs) + 1)
    BY <1>0
  <2> QED
    BY <2>1, <2>6, <2>7, <2>8 DEF BalanceInv, BalanceAccounts
<1>8. ASSUME \/ \E o \in Order : Checkout(o) \/ Report(o)
             \/ \E h \in Hook : Deliver(h)
             \/ \E w \in Worker : PaidFails(w)
             \/ ChangePlan \/ NextMonth \/ UNCHANGED vars
      PROVE  UNCHANGED <<balance, credited, charge>>
  BY <1>8 DEF Checkout, Report, Deliver, Probe, MarkOrderRefunded, RefundKeepsUnits, PaidFails,
              ChangePlan, NextMonth, vars, gate, ledger
<1>9. ASSUME UNCHANGED charge PROVE Taken' = Taken
  BY <1>9 DEF Taken
<1> QED
  BY <1>1, <1>2, <1>3, <1>5, <1>6, <1>7, <1>8, <1>9 DEF Next

\* For every number of consultations, orders and webhooks that come late, again or in
\* the wrong order: the balance is what the packs brought less what consultations took,
\* debits whose answer was lost included, and a refund takes nothing back (MarkOrderPaid, ConsumeCredits, MarkOrderRefunded).
THEOREM BalanceCorrect == Spec => []BalanceAccounts
<1>1. Init => BalanceInv
  <2> SUFFICES ASSUME Init PROVE BalanceInv
    OBVIOUS
  <2>1. Packs = {} /\ Taken = {} /\ balance = 0
    BY DEF Init, Packs, Taken
  <2>2. IsFiniteSet({}) /\ Cardinality({}) = 0
    BY FS_EmptySet
  <2>3. Units \in Nat /\ 0 + 0 = Units * 0
    BY AdvisorBillingAssumption
  <2> QED
    BY <2>1, <2>2, <2>3 DEF BalanceInv, BalanceAccounts
<1>2. BalanceInv => BalanceAccounts
  BY DEF BalanceInv
<1> QED
  BY <1>1, <1>2, InvInit, InvStep, BalanceStep, PTL DEF Spec

-----------------------------------------------------------------------------
(* Credits of an order.                                                    *)

\* An order that carries an event has been credited, once more than again; what a
\* worker that is not late is about to credit is not the event its order carries.
OrderInv ==
    /\ \A o \in Order :
        /\ credited[o] = again[o] + IF event[o] = {} THEN 0 ELSE 1
        /\ status[o] \in {"paid", "refunded"} => event[o] # {}
        /\ ~headerIds => event[o] \in {{}, {<<o, "order_created">>}}
    /\ \A w \in Worker : \A h \in work[w] :
        /\ work[w] = {h}
        /\ h[2] # "order_refunded"
        /\ w \notin late => event[h[1]] # {EventId(h)}

\* The stamp: the first of an order, or one that is counted again.
LEMMA OrderPaid ==
    ASSUME TypeOK, OrderInv, NEW w \in Worker, MarkOrderPaid(w)
    PROVE  OrderInv'
<1>1. PICK h \in work[w] :
        /\ status' = [status EXCEPT ![h[1]] = "paid"]
        /\ event' = [event EXCEPT ![h[1]] = {EventId(h)}]
        /\ credited' = [credited EXCEPT ![h[1]] = @ + 1]
        /\ again' = [again EXCEPT ![h[1]] = @ + IF CreditedBefore(w, h) THEN 1 ELSE 0]
        /\ work' = [work EXCEPT ![w] = {}]
        /\ late' = (late \ {w}) \cup Others(w, h[1])
        /\ headerIds' = headerIds
  BY DEF MarkOrderPaid, Stamp
<1>2. h \in Hook /\ h[1] \in Order /\ EventId(h) \in Hook
  BY DEF TypeOK, Hook, Kind, EventId
<1>3. PICK o \in Order : o = h[1]
  BY <1>2
<1>4. PICK n \in Nat, a \in Nat : n = credited[o] /\ a = again[o]
  BY DEF TypeOK
<1>5. event[o] # {} => CreditedBefore(w, h)
  BY <1>1, <1>3 DEF OrderInv, CreditedBefore
<1>6. event[o] = {} => ~CreditedBefore(w, h)
  BY <1>3 DEF CreditedBefore
<1>7. credited'[o] = again'[o] + 1
  <2>1. credited'[o] = n + 1 /\ again'[o] = a + IF CreditedBefore(w, h) THEN 1 ELSE 0
    BY <1>1, <1>3, <1>4 DEF TypeOK
  <2>2. n = a + IF event[o] = {} THEN 0 ELSE 1
    BY <1>4 DEF OrderInv
  <2> QED
    BY <1>4, <1>5, <1>6, <2>1, <2>2
<1>8. event'[o] = {EventId(h)} /\ (~headerIds => EventId(h) = <<o, "order_created">>)
  BY <1>1, <1>3 DEF TypeOK, EventId
<1>9. ASSUME NEW q \in Order, q # o
      PROVE  UNCHANGED <<status[q], event[q], credited[q], again[q]>>
  BY <1>1, <1>3, <1>9 DEF TypeOK
<1>10. \A q \in Order :
        /\ credited'[q] = again'[q] + IF event'[q] = {} THEN 0 ELSE 1
        /\ status'[q] \in {"paid", "refunded"} => event'[q] # {}
        /\ ~headerIds' => event'[q] \in {{}, {<<q, "order_created">>}}
  BY <1>1, <1>7, <1>8, <1>9 DEF OrderInv
<1>11. ASSUME NEW v \in Worker, NEW k \in work'[v]
       PROVE  /\ work'[v] = {k}
              /\ k[2] # "order_refunded"
              /\ v \notin late' => event'[k[1]] # {EventId(k)'}
  <2>1. v # w /\ k \in work[v] /\ work'[v] = work[v]
    BY <1>1 DEF TypeOK
  <2>2. work[v] = {k} /\ k[2] # "order_refunded" /\ (v \notin late => event[k[1]] # {EventId(k)})
    BY <2>1 DEF OrderInv
  <2>3. EventId(k)' = EventId(k)
    BY <1>1 DEF EventId
  <2>4. k[1] \in Order
    BY <2>1 DEF TypeOK, Hook
  <2>5. CASE k[1] = o
    BY <1>1, <1>3, <2>1, <2>2, <2>5 DEF Others
  <2>6. CASE k[1] # o
    BY <1>1, <1>9, <2>1, <2>2, <2>3, <2>4, <2>6
  <2> QED
    BY <2>1, <2>2, <2>5, <2>6
<1> QED
  BY <1>10, <1>11 DEF OrderInv

\* A refund puts its own event in the place of the payment's; without ids of their own
\* the two are the same.
LEMMA OrderRefunded ==
    ASSUME TypeOK, OrderInv, NEW h \in Hook, MarkOrderRefunded(h),
           status[h[1]] = "paid",
           status' = [status EXCEPT ![h[1]] = "refunded"],
           event' = [event EXCEPT ![h[1]] = {EventId(h)}]
    PROVE  OrderInv'
<1>1. /\ h[2] = "order_refunded"
      /\ UNCHANGED <<credited, again, work, late, headerIds>>
  BY DEF MarkOrderRefunded
<1>2. PICK o \in Order : o = h[1]
  BY DEF Hook
<1>3. /\ event[o] # {} /\ event'[o] = {EventId(h)} /\ status'[o] = "refunded"
      /\ ~headerIds => EventId(h) = <<o, "order_created">> /\ event[o] = {<<o, "order_created">>}
  BY <1>2 DEF OrderInv, TypeOK, EventId
<1>4. \A q \in Order : q # o => status'[q] = status[q] /\ event'[q] = event[q]
  BY <1>2 DEF TypeOK
<1>5. \A q \in Order :
        /\ credited'[q] = again'[q] + IF event'[q] = {} THEN 0 ELSE 1
        /\ status'[q] \in {"paid", "refunded"} => event'[q] # {}
        /\ ~headerIds' => event'[q] \in {{}, {<<q, "order_created">>}}
  BY <1>1, <1>3, <1>4 DEF OrderInv
<1>6. ASSUME NEW v \in Worker, NEW k \in work'[v]
      PROVE  /\ work'[v] = {k}
             /\ k[2] # "order_refunded"
             /\ v \notin late' => event'[k[1]] # {EventId(k)'}
  <2>1. work[v] = {k} /\ k[2] # "order_refunded" /\ (v \notin late => event[k[1]] # {EventId(k)})
    BY <1>1, <1>6 DEF OrderInv
  <2>2. EventId(k)' = EventId(k) /\ k[1] \in Order
    BY <1>1, <1>6 DEF EventId, TypeOK, Hook
  <2>3. CASE k[1] = o /\ headerIds
    BY <1>1, <1>2, <1>3, <2>1, <2>2, <2>3 DEF EventId
  <2>4. CASE k[1] = o /\ ~headerIds
    BY <1>1, <1>3, <2>1, <2>4 DEF EventId
  <2>5. CASE k[1] # o
    BY <1>1, <1>4, <2>1, <2>2, <2>5
  <2> QED
    BY <1>1, <2>1, <2>3, <2>4, <2>5
<1> QED
  BY <1>5, <1>6 DEF OrderInv

\* Whatever is neither a stamp nor a refund leaves an order's credits as they are.
LEMMA OrderStep ==
    ASSUME TypeOK, OrderInv, [Next]_vars
    PROVE  OrderInv'
<1>1. CASE UNCHANGED <<ledger, work, late, headerIds>>
  BY <1>1 DEF OrderInv, ledger, EventId
<1>2. ASSUME NEW c \in Consult,
             Check(c) \/ CheckCredits(c) \/ Answer(c) \/ ConsumePlanUnit(c) \/ ConsumeFails(c)
               \/ Undo(c) \/ ConsumeCredits(c)
      PROVE UNCHANGED <<ledger, work, late, headerIds>>
  BY <1>2 DEF Check, CheckCredits, Answer, ConsumePlanUnit, ConsumeFails, Undo, ConsumeCredits, hooks
<1>3. ASSUME NEW o \in Order, Checkout(o) \/ Report(o) PROVE OrderInv'
  <2>1. CASE Report(o)
    BY <1>1, <2>1 DEF Report
  <2>2. CASE Checkout(o)
    BY <2>2 DEF Checkout, OrderInv, TypeOK, hooks, EventId
  <2> QED
    BY <1>3, <2>1, <2>2
<1>4. ASSUME NEW h \in Hook, NEW w \in Worker, Probe(w, h) PROVE OrderInv'
  <2>1. CASE work' = work
    BY <1>1, <1>4, <2>1 DEF Probe
  <2>2. CASE /\ work' = [work EXCEPT ![w] = {h}]
             /\ ~\E o \in Order : event[o] = {EventId(h)}
    <3>1. h[1] \in Order /\ event[h[1]] # {EventId(h)} /\ h[2] # "order_refunded"
      BY <1>4, <2>2 DEF Hook, Probe
    <3>2. UNCHANGED <<status, event, credited, again, late, headerIds>>
      BY <1>4 DEF Probe, ledger
    <3>3. \A v \in Worker : work'[v] = IF v = w THEN {h} ELSE work[v]
      BY <2>2 DEF TypeOK
    <3> QED
      BY <3>1, <3>2, <3>3 DEF OrderInv, EventId
  <2> QED
    BY <1>4, <2>1, <2>2 DEF Probe
<1>5. ASSUME NEW h \in Hook, MarkOrderRefunded(h) PROVE OrderInv'
  <2>1. CASE UNCHANGED <<status, event>>
    BY <1>1, <1>5, <2>1 DEF MarkOrderRefunded, ledger
  <2>2. CASE /\ status[h[1]] = "paid"
             /\ status' = [status EXCEPT ![h[1]] = "refunded"]
             /\ event' = [event EXCEPT ![h[1]] = {EventId(h)}]
    BY <1>5, <2>2, OrderRefunded
  <2> QED
    BY <1>5, <2>1, <2>2 DEF MarkOrderRefunded
<1>6. ASSUME NEW w \in Worker, PaidFails(w) PROVE OrderInv'
  <2>1. UNCHANGED <<status, event, credited, again, headerIds>> /\ late' = late \ {w}
    BY <1>6 DEF PaidFails, ledger
  <2>2. \A v \in Worker : work'[v] = IF v = w THEN {} ELSE work[v]
    BY <1>6 DEF PaidFails, TypeOK
  <2> QED
    BY <2>1, <2>2 DEF OrderInv, EventId
<1>7. CASE ChangePlan \/ NextMonth \/ UNCHANGED vars
  BY <1>1, <1>7 DEF ChangePlan, NextMonth, vars, hooks
<1> QED
  BY <1>1, <1>2, <1>3, <1>4, <1>5, <1>6, <1>7, OrderPaid DEF Next, Deliver

\* For every number of orders and of webhooks handled at once, with and without ids of
\* their own: no order is credited again but by a webhook looked up before another
\* worker's stamp, or for another event than the recorded one (MarkOrderPaid's probe,
\* handleWebhook's fall back).
THEOREM CreditedCorrect == Spec => []CreditedOnce
<1>1. Init => OrderInv
  BY DEF Init, OrderInv
<1>2. TypeOK /\ OrderInv /\ [Next]_vars => OrderInv'
  BY OrderStep
<1>3. TypeOK /\ OrderInv => CreditedOnce
  BY DEF TypeOK, OrderInv, CreditedOnce
<1> QED
  BY <1>1, <1>2, <1>3, TypeInit, TypeStep, PTL DEF Spec

=============================================================================
