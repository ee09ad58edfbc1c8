------------------------------ MODULE Subscriptions ------------------------------
(***************************************************************************)
(* The plan a user is served (internal/subscription) and the webhooks of   *)
(* the payment service that change it (subscription_webhook.go).  The      *)
(* service bills a subscription and reports what happens to it; a report   *)
(* is marked as seen first and applied afterwards, and acked whatever      *)
(* comes of it.  A reader of the plan takes the newest active row, and     *)
(* writes down that it has expired.                                        *)
(*                                                                         *)
(* One user; each subscription is of a plan of its own.  All clocks agree. *)
(***************************************************************************)
EXTENDS Integers, FiniteSets

CONSTANTS
    Sub,          \* subscriptions at the payment service
    Worker,       \* webhooks handled at the same time
    Reader,       \* callers of GetEffectivePlan
    Term,         \* a billing period
    HeaderIds,    \* whether webhooks carry X-Event-Id
    InOrder,      \* whether webhooks come in the order of their sending
    MaxHooks,     \* bound: webhooks sent
    MaxManual,    \* bound: calls of Subscribe and Cancel
    MaxFaults,    \* bound: webhooks lost after their ack
    Horizon       \* bound: the clock stops here

ASSUME SubscriptionsAssumption ==
    /\ Term \in Nat \ {0}
    /\ {MaxHooks, MaxManual, MaxFaults, Horizon} \subseteq Nat
    /\ {HeaderIds, InOrder} \subseteq BOOLEAN
    /\ {"free", "manual"} \cap Sub = {}

VARIABLES
    now,
    life, paid,    \* of each subscription, at the payment service: its state, paid until
    hooks,         \* the webhooks sent so far
    got,           \* the numbers of those that have come at least once
    seen,          \* lemonsqueezy_webhook_events
    work,          \* what each worker has marked and not applied yet
    row, births,   \* table subscriptions; rows inserted so far
    reading,       \* the expired row each reader has found and not yet written down
    applied,       \* how often each webhook has been applied
    manual, faults

service == <<life, paid, hooks>>
table == <<row, births>>
vars == <<now, service, got, seen, work, table, reading, applied, manual, faults>>

\* A slot for each subscription, one for the newest row that expire inserts and
\* one for the newest that Subscribe inserts: older ones are never served again.
Row == Sub \cup {"free", "manual"}
NoRow == [status |-> "none", end |-> 0, born |-> 0]
Forever == Horizon + Term + 1
Status == {"active", "past_due", "cancelled", "expired"}
HookKind == {"created", "updated", "cancelled", "expired", "payment_success", "payment_failed"}

\* X-Event-Id, or the id of the subscription when the header is missing.
EventId(e) == <<e.sub, IF HeaderIds THEN e.n ELSE 0>>

Init ==
    /\ now = 0
    /\ life = [s \in Sub |-> "none"]
    /\ paid = [s \in Sub |-> 0]
    /\ hooks = {} /\ got = {} /\ seen = {}
    /\ work = [w \in Worker |-> {}]
    /\ row = [r \in Row |-> NoRow]
    /\ births = 0
    /\ reading = [q \in Reader |-> {}]
    /\ applied = [n \in 1 .. MaxHooks |-> 0]
    /\ manual = 0 /\ faults = 0

-----------------------------------------------------------------------------
(* The payment service.                                                    *)

LsStatus(l) == CASE l = "live" -> "active" [] l = "past_due" -> "past_due"
                 [] l = "cancelled" -> "cancelled" [] OTHER -> "expired"

Send(s, kind, l, until) ==
    /\ Cardinality(hooks) < MaxHooks
    /\ hooks' = hooks \cup {[n |-> Cardinality(hooks) + 1, sub |-> s, kind |-> kind,
                             status |-> LsStatus(l), until |-> until]}

Bill(s, from, l, until, kind) ==
    /\ life[s] \in from
    /\ life' = [life EXCEPT ![s] = l]
    /\ paid' = [paid EXCEPT ![s] = until]
    /\ Send(s, kind, l, until)
    /\ UNCHANGED <<now, got, seen, work, table, reading, applied, manual, faults>>

\* The checkout is paid.
Purchase(s) == Bill(s, {"none"}, "live", now + Term, "created")
\* The card is charged when the period ends, or again later.
Renew(s) == now >= paid[s] /\ Bill(s, {"live", "past_due"}, "live", now + Term, "payment_success")
Decline(s) == now >= paid[s] /\ Bill(s, {"live"}, "past_due", paid[s], "payment_failed")
Quit(s) == Bill(s, {"live", "past_due"}, "cancelled", paid[s], "cancelled")
Expire(s) == now >= paid[s] /\ Bill(s, {"cancelled", "past_due"}, "ended", paid[s], "expired")
\* Whatever changes is also reported as an update.
Update(s) == life[s] # "none" /\ Bill(s, {life[s]}, life[s], paid[s], "updated")

\* What is live is charged before its period is over.
Tick ==
    /\ now < Horizon
    /\ \A s \in Sub : life[s] = "live" => now < paid[s]
    /\ now' = now + 1
    /\ UNCHANGED <<service, got, seen, work, table, reading, applied, manual, faults>>

-----------------------------------------------------------------------------
(* The webhook.                                                            *)

\* Mutant: the mark is left to the end of the handling.
MarkLater(e) == UNCHANGED seen

\* markEventSeen: INSERT ... ON CONFLICT DO NOTHING, in a transaction of its own.
Mark(e) == seen' = seen \cup {EventId(e)}

NextInLine(e) ==
    /\ \A f \in hooks : f.n < e.n => f.n \in got
    /\ \A w \in Worker : work[w] = {}

Receive(w, e) ==
    /\ work[w] = {}
    /\ InOrder => NextInLine(e)
    /\ e.n \notin got \/ EventId(e) \notin seen \/ ~HeaderIds
    /\ got' = got \cup {e.n}
    /\ IF EventId(e) \in seen
       THEN UNCHANGED <<seen, work>>
       ELSE Mark(e) /\ work' = [work EXCEPT ![w] = {e}]
    /\ UNCHANGED <<now, service, table, reading, applied, manual, faults>>

\* The mark or what follows it fails, or the process dies between the two.
Lose(w) ==
    /\ work[w] # {}
    /\ faults < MaxFaults
    /\ faults' = faults + 1
    /\ work' = [work EXCEPT ![w] = {}]
    /\ UNCHANGED <<now, service, got, seen, table, reading, applied, manual>>

Exists(s) == row[s].status # "none"

\* Mutant: the period is counted from the handling of the webhook.
PeriodFromNow(e) == now + Term

\* renews_at of the webhook.
PeriodEnd(e) == e.until

\* activate: every other active subscription of the service is cancelled -- rows
\* without its id are not, since NULL <> id is not true -- and the row is
\* inserted, or brought back if it exists.
Activate(e) ==
    /\ row' = [r \in Row |->
                 IF r = e.sub
                 THEN [status |-> "active", end |-> PeriodEnd(e),
                       born |-> IF Exists(r) THEN row[r].born ELSE births + 1]
                 ELSE IF r \in Sub /\ row[r].status = "active"
                 THEN [row[r] EXCEPT !.status = "cancelled"]
                 ELSE row[r]]
    /\ births' = IF Exists(e.sub) THEN births ELSE births + 1

\* Mutant: the update makes the row that it does not find.
SetOrMakeRow(s, status, end) ==
    /\ row' = [row EXCEPT ![s] = [status |-> status, end |-> end, born |-> row[s].born]]
    /\ UNCHANGED births

\* UPDATE ... WHERE ls_subscription_id = $1, which may find no row.
SetRow(s, status, end) ==
    /\ row' = IF Exists(s)
              THEN [row EXCEPT ![s] = [status |-> status, end |-> end, born |-> row[s].born]]
              ELSE row
    /\ UNCHANGED births

\* expire: without a row it fails; with one, a free row is inserted as well.
ExpireRow(e) ==
    IF Exists(e.sub)
    THEN /\ row' = [r \in Row |->
                      IF r = e.sub THEN [row[r] EXCEPT !.status = "expired"]
                      ELSE IF r = "free" THEN [status |-> "active", end |-> Forever,
                                               born |-> births + 1]
                      ELSE row[r]]
         /\ births' = births + 1
    ELSE UNCHANGED table

Dispatch(e) ==
    CASE e.kind = "created" -> Activate(e)
      [] e.kind = "updated" -> SetRow(e.sub, e.status, PeriodEnd(e))
      [] e.kind = "cancelled" -> SetRow(e.sub, "cancelled", row[e.sub].end)
      [] e.kind = "expired" -> ExpireRow(e)
      [] e.kind = "payment_success" -> SetRow(e.sub, "active", PeriodEnd(e))
      [] e.kind = "payment_failed" -> SetRow(e.sub, "past_due", row[e.sub].end)

Apply(w) ==
    \E e \in work[w] :
        /\ Dispatch(e)
        /\ work' = [work EXCEPT ![w] = {}]
        /\ applied' = [applied EXCEPT ![e.n] = @ + 1]
        /\ UNCHANGED <<now, service, got, seen, reading, manual, faults>>

-----------------------------------------------------------------------------
(* The subscription service.                                               *)

Active == {r \in Row : row[r].status = "active"}
Newest == CHOOSE r \in Active : \A q \in Active : row[q].born <= row[r].born
IsExpired(r) == now > row[r].end

\* GetEffectivePlan, without its write: the row it serves, or the free plan.
Served == IF Active = {} \/ IsExpired(Newest) THEN "free" ELSE Newest

\* Cancel, and Subscribe by a payment outside of the service.
Cancelled == [r \in Row |-> IF r \in Active THEN [row[r] EXCEPT !.status = "cancelled"] ELSE row[r]]

Manual ==
    /\ manual < MaxManual
    /\ manual' = manual + 1
    /\ \/ /\ Active # {}
          /\ row' = Cancelled
          /\ UNCHANGED births
       \/ /\ row' = [Cancelled EXCEPT !["manual"] = [status |-> "active", end |-> now + Term,
                                                      born |-> births + 1]]
          /\ births' = births + 1
    /\ UNCHANGED <<now, service, got, seen, work, reading, applied, faults>>

\* GetEffectivePlan finds its row expired ...
FindExpired(q) ==
    /\ reading[q] = {}
    /\ Active # {} /\ IsExpired(Newest)
    /\ reading' = [reading EXCEPT ![q] = {<<Newest, row[Newest].born>>}]
    /\ UNCHANGED <<now, service, got, seen, work, table, applied, manual, faults>>

\* ... and writes it down, if it is still active.
WriteExpired(q) ==
    \E f \in reading[q] :
        /\ reading' = [reading EXCEPT ![q] = {}]
        /\ row' = IF f[1] \in Active /\ row[f[1]].born = f[2]
                  THEN [row EXCEPT ![f[1]] = [@ EXCEPT !.status = "expired"]]
                  ELSE row
        /\ UNCHANGED <<now, service, got, seen, work, births, applied, manual, faults>>

Next ==
    \/ \E s \in Sub :
        \/ Purchase(s) \/ Renew(s) \/ Decline(s) \/ Quit(s) \/ Expire(s) \/ Update(s)
    \/ Tick
    \/ \E w \in Worker :
        \/ \E e \in hooks : Receive(w, e)
        \/ Lose(w) \/ Apply(w)
    \/ Manual
    \/ \E q \in Reader : FindExpired(q) \/ WriteExpired(q)

Spec == Init /\ [][Next]_vars

-----------------------------------------------------------------------------
(* Properties.                                                             *)

Hook == [n : 1 .. MaxHooks, sub : Sub, kind : HookKind, status : Status, until : Nat]

\* Type correctness: rows are numbered apart, webhooks by their place.
TypeOK ==
    /\ now \in 0 .. Horizon
    /\ life \in [Sub -> {"none", "live", "past_due", "cancelled", "ended"}]
    /\ paid \in [Sub -> 0 .. now + Term]
    /\ hooks \subseteq Hook
    /\ \A e, f \in hooks : e.n = f.n => e = f
    /\ got \subseteq {e.n : e \in hooks}
    /\ seen \subseteq {EventId(e) : e \in hooks}
    /\ work \in [Worker -> SUBSET hooks]
    /\ row \in [Row -> [status : Status \cup {"none"}, end : 0 .. Forever, born : 0 .. births]]
    /\ \A r \in Row : row[r].born = 0 <=> row[r].status = "none"
    /\ \A r, q \in Row : row[r].born = row[q].born => r = q \/ row[r].born = 0
    /\ births \in Nat
    /\ reading \in [Reader -> SUBSET (Row \X (0 .. births))]
    /\ applied \in [1 .. MaxHooks -> Nat]
    /\ manual \in 0 .. MaxManual /\ faults \in 0 .. MaxFaults

\* Whatever webhooks are lost, late, repeated or overtaken: nobody is served a
\* plan of the payment service beyond the time that was paid for.
ServedIsPaid == Served \in Sub => now <= paid[Served]

\* A webhook is applied at most once, however many copies come at the same time.
AppliedOnce == \A n \in 1 .. MaxHooks : applied[n] <= 1

Latest(s) == \E e \in hooks : /\ e.sub = s /\ e.kind = "created"
                              /\ \A f \in hooks : f.kind = "created" => f.n <= e.n

\* The free row is a fallback (subscription_webhook.go:16 and :283): when all is
\* applied it does not rule over the subscription the user bought last, as long
\* as that is live and paid for.
PaidIsServed ==
    \A s \in Sub :
        /\ life[s] = "live" /\ now <= paid[s] /\ Latest(s)
        /\ \A e \in hooks : e.n \in got /\ \A w \in Worker : e \notin work[w]
        => Served # "free"

=============================================================================
