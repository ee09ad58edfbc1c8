-------------------------- MODULE SubscriptionsProofs --------------------------
(***************************************************************************)
(* What Subscriptions guarantees for every number of subscriptions,        *)
(* webhooks, workers and readers, in order or not, with or without         *)
(* X-Event-Id.                                                             *)
(***************************************************************************)
EXTENDS Subscriptions, FiniteSetTheorems, WellFoundedInduction, TLAPS

-----------------------------------------------------------------------------
(* The inductive invariant, in three parts.                                *)

\* No webhook says more than what has been paid, and each has a number of its own.
HookInv ==
    /\ now \in Nat
    /\ paid \in [Sub -> Nat] /\ \A s \in Sub : paid[s] <= now + Term
    /\ IsFiniteSet(hooks)
    /\ hooks \subseteq Hook
    /\ \A e \in hooks : e.n <= Cardinality(hooks) /\ e.until <= paid[e.sub]
    /\ \A e, f \in hooks : e.n = f.n => e = f

RowType == [status : Status \cup {"none"}, end : Nat, born : Nat]

\* No row of the payment service lasts longer than what has been paid.
RowInv ==
    /\ births \in Nat
    /\ row \in [Row -> RowType]
    /\ \A s \in Sub : row[s].end <= paid[s]

\* What a worker has taken is marked, is no other worker's, and has not been applied.
WorkInv ==
    /\ applied \in [1 .. MaxHooks -> Nat]
    /\ \A n \in 1 .. MaxHooks : applied[n] <= 1 /\ (applied[n] # 0 => \E e \in hooks : e.n = n)
    /\ \A e \in hooks : applied[e.n] # 0 => EventId(e) \in seen
    /\ work \in [Worker -> SUBSET hooks]
    /\ \A w \in Worker : \A e \in work[w] :
        /\ EventId(e) \in seen /\ applied[e.n] = 0
        /\ \A v \in Worker : \A f \in work[v] : v = w <=> e = f

IInv == HookInv /\ RowInv /\ WorkInv

\* At first nothing was paid and no webhook was sent.
LEMMA InvInit == Init => IInv
<1> SUFFICES ASSUME Init PROVE IInv
  OBVIOUS
<1> USE SubscriptionsAssumption DEF Init
<1>1. HookInv
  BY FS_EmptySet DEF HookInv
<1>2. RowInv
  BY DEF RowInv, RowType, NoRow, Row
<1>3. WorkInv
  BY DEF WorkInv
<1> QED
  BY <1>1, <1>2, <1>3 DEF IInv

-----------------------------------------------------------------------------
(* The payment service.                                                    *)

LifeState == {"none", "live", "past_due", "cancelled", "ended"}

\* A report of what has been paid, which never takes back what was paid before.
LEMMA BillStep ==
    ASSUME IInv, NEW s \in Sub, NEW from, NEW l, NEW until \in Nat, NEW kind \in HookKind,
           Bill(s, from, l, until, kind),
           paid[s] <= until, until <= now + Term
    PROVE  IInv'
<1> USE SubscriptionsAssumption
<1> DEFINE k == Cardinality(hooks)
           h == [n |-> k + 1, sub |-> s, kind |-> kind, status |-> LsStatus(l), until |-> until]
<1>0. /\ HookInv /\ RowInv /\ WorkInv
      /\ k \in Nat /\ k + 1 \in 1 .. MaxHooks
  BY FS_CardinalityType DEF IInv, HookInv, Bill, Send
<1>1. /\ hooks' = hooks \cup {h} /\ paid' = [paid EXCEPT ![s] = until]
      /\ UNCHANGED <<now, seen, work, row, births, applied>>
  BY DEF Bill, Send, table
<1>2. h \in Hook
  <2>1. LsStatus(l) \in Status
    BY DEF LsStatus, Status
  <2> QED
    BY <1>0, <2>1 DEF Hook
<1>3. /\ h \notin hooks /\ \A e \in hooks : e.n # k + 1
      /\ h.n = k + 1 /\ h.until = until /\ h.sub = s
  BY <1>0 DEF HookInv, Hook
<1> HIDE DEF h
<1>4. IsFiniteSet(hooks') /\ Cardinality(hooks') = k + 1
  BY <1>0, <1>1, <1>3, FS_AddElement DEF HookInv
<1> HIDE DEF k
<1>5. \A z \in Sub : paid[z] <= paid'[z] /\ paid'[z] \in Nat
  BY <1>0, <1>1 DEF HookInv
<1>6. HookInv'
  <2>1. \A e \in hooks : e.n <= k /\ e.until <= paid'[e.sub]
    BY <1>0, <1>5 DEF HookInv, Hook, k
  <2>2. \A e \in hooks' : e.n <= k + 1 /\ e.until <= paid'[e.sub]
    BY <1>0, <1>1, <1>3, <2>1 DEF HookInv, Hook
  <2>3. \A e, f \in hooks' : e.n = f.n => e = f
    BY <1>0, <1>1, <1>3 DEF HookInv
  <2>4. paid' \in [Sub -> Nat] /\ \A z \in Sub : paid'[z] <= now + Term
    BY <1>0, <1>1 DEF HookInv
  <2>5. \A e \in hooks' : e.n <= Cardinality(hooks')
    BY <1>4, <2>2
  <2>6. now' \in Nat /\ hooks' \subseteq Hook /\ now' = now
    BY <1>0, <1>1, <1>2 DEF HookInv
  <2> QED
    BY <1>4, <2>2, <2>3, <2>4, <2>5, <2>6 DEF HookInv
<1>7. RowInv'
  <2>1. \A z \in Sub : row[z].end <= paid'[z]
    <3>1. \A z \in Sub : row[z].end <= paid[z] /\ row[z].end \in Nat /\ paid[z] \in Nat
      BY <1>0 DEF RowInv, RowType, Row, HookInv
    <3> QED
      BY <1>5, <3>1
  <2> QED
    BY <1>0, <1>1, <2>1 DEF RowInv
<1>8. WorkInv'
  <2>1. applied[h.n] = 0
    BY <1>0, <1>3 DEF WorkInv
  <2>2. \A e \in hooks' : applied[e.n] # 0 => EventId(e) \in seen
    BY <1>0, <1>1, <2>1 DEF WorkInv
  <2>3. work' \in [Worker -> SUBSET hooks']
    BY <1>0, <1>1 DEF WorkInv
  <2>4. \A n \in 1 .. MaxHooks : applied[n] # 0 => \E e \in hooks' : e.n = n
    BY <1>0, <1>1 DEF WorkInv
  <2>5. \A e : EventId(e)' = EventId(e)
    BY DEF EventId
  <2>6. applied \in [1 .. MaxHooks -> Nat] /\ \A n \in 1 .. MaxHooks : applied[n] <= 1
    BY <1>0 DEF WorkInv
  <2>7. \A w \in Worker : \A e \in work[w] :
          /\ EventId(e) \in seen /\ applied[e.n] = 0
          /\ \A v \in Worker : \A f \in work[v] : v = w <=> e = f
    BY <1>0 DEF WorkInv
  <2>8. applied' = applied /\ seen' = seen /\ work' = work
    BY <1>1
  <2> QED
    BY <2>2, <2>3, <2>4, <2>5, <2>6, <2>7, <2>8 DEF WorkInv
<1> QED
  BY <1>6, <1>7, <1>8 DEF IInv

\* Every report of the payment service.
LEMMA ServiceStep ==
    ASSUME IInv, NEW s \in Sub,
           Purchase(s) \/ Renew(s) \/ Decline(s) \/ Quit(s) \/ Expire(s) \/ Update(s)
    PROVE  IInv'
<1>0. /\ paid[s] \in Nat /\ paid[s] <= now + Term /\ now + Term \in Nat /\ paid[s] <= paid[s]
      /\ now + Term <= now + Term
  BY SubscriptionsAssumption DEF IInv, HookInv
<1>1. {"created", "updated", "cancelled", "expired", "payment_success", "payment_failed"}
        \subseteq HookKind
  BY DEF HookKind
<1>2. CASE Purchase(s)
  BY <1>0, <1>1, <1>2, BillStep DEF Purchase
<1>3. CASE Renew(s)
  BY <1>0, <1>1, <1>3, BillStep DEF Renew
<1>4. CASE Decline(s)
  BY <1>0, <1>1, <1>4, BillStep DEF Decline
<1>5. CASE Quit(s)
  BY <1>0, <1>1, <1>5, BillStep DEF Quit
<1>6. CASE Expire(s)
  BY <1>0, <1>1, <1>6, BillStep DEF Expire
<1>7. CASE Update(s)
  BY <1>0, <1>1, <1>7, BillStep DEF Update
<1> QED
  BY <1>2, <1>3, <1>4, <1>5, <1>6, <1>7

-----------------------------------------------------------------------------
(* The webhook.                                                            *)

\* A webhook is taken by one worker, which then holds the mark of it.
LEMMA ReceiveStep ==
    ASSUME IInv, NEW w \in Worker, NEW e \in hooks, Receive(w, e) PROVE IInv'
<1>0. HookInv /\ RowInv /\ WorkInv
  BY DEF IInv
<1>1. UNCHANGED <<now, paid, hooks, row, births, applied>>
  BY DEF Receive, service, table
<1>2. HookInv' /\ RowInv'
  BY <1>0, <1>1 DEF HookInv, RowInv
<1>3. CASE UNCHANGED <<seen, work>>
  BY <1>0, <1>1, <1>2, <1>3 DEF WorkInv, EventId, IInv
<1>4. CASE EventId(e) \notin seen /\ Mark(e) /\ work' = [work EXCEPT ![w] = {e}]
  <2>1. seen \subseteq seen' /\ EventId(e) \in seen'
    BY <1>4 DEF Mark
  <2>2. \A v \in Worker : e \notin work[v]
    BY <1>0, <1>4 DEF WorkInv
  <2>3. applied[e.n] = 0
    BY <1>0, <1>4 DEF WorkInv
  <2>4. work' \in [Worker -> SUBSET hooks]
    BY <1>0, <1>4 DEF WorkInv
  <2>5. \A v \in Worker : work'[v] = IF v = w THEN {e} ELSE work[v]
    BY <1>0, <1>4 DEF WorkInv
  <2>6. \A f \in hooks : applied[f.n] # 0 => EventId(f) \in seen'
    BY <1>0, <2>1 DEF WorkInv
  <2>7. ASSUME NEW v \in Worker, NEW f \in work'[v]
        PROVE  /\ EventId(f) \in seen' /\ applied[f.n] = 0
               /\ \A u \in Worker : \A g \in work'[u] : u = v <=> f = g
    BY <1>0, <2>1, <2>2, <2>3, <2>5, <2>7 DEF WorkInv
  <2>8. WorkInv'
    BY <1>0, <1>1, <2>4, <2>6, <2>7 DEF WorkInv, EventId
  <2> QED
    BY <1>2, <2>8 DEF IInv
<1> QED
  BY <1>3, <1>4 DEF Receive

\* A webhook that is lost keeps the invariant.
LEMMA LoseStep ==
    ASSUME IInv, NEW w \in Worker, Lose(w) PROVE IInv'
<1>0. HookInv /\ RowInv /\ WorkInv
  BY DEF IInv
<1>1. UNCHANGED <<now, paid, hooks, row, births, applied, seen>>
  BY DEF Lose, service, table
<1>2. HookInv' /\ RowInv'
  BY <1>0, <1>1 DEF HookInv, RowInv
<1>3. /\ work' \in [Worker -> SUBSET hooks]
      /\ \A v \in Worker : work'[v] \subseteq work[v]
  BY <1>0 DEF Lose, WorkInv
<1>4. WorkInv'
  BY <1>0, <1>1, <1>3 DEF WorkInv, EventId
<1> QED
  BY <1>2, <1>4 DEF IInv

\* Whatever a webhook does to the rows, none lasts longer than what was paid.
LEMMA DispatchKeepsRows ==
    ASSUME IInv, NEW e \in hooks, Dispatch(e), UNCHANGED paid PROVE RowInv'
<1> USE SubscriptionsAssumption
<1>0. /\ births \in Nat /\ row \in [Row -> RowType] /\ paid \in [Sub -> Nat]
      /\ \A s \in Sub : row[s].end <= paid[s]
      /\ e \in Hook /\ e.until <= paid[e.sub]
      /\ Sub \subseteq Row /\ "free" \in Row /\ "free" \notin Sub /\ Forever \in Nat
  BY DEF IInv, RowInv, HookInv, Row, Forever
<1>1. e.sub \in Sub /\ e.until \in Nat /\ e.kind \in HookKind /\ e.status \in Status
  BY <1>0 DEF Hook
<1>2. row[e.sub].end \in Nat /\ row[e.sub].end <= paid[e.sub]
  BY <1>0, <1>1 DEF RowType
<1>3. ASSUME NEW status \in Status, NEW end \in Nat, end <= paid[e.sub], SetRow(e.sub, status, end)
      PROVE  RowInv'
  <2>1. row' \in [Row -> RowType]
    BY <1>0, <1>1, <1>3 DEF SetRow, RowType
  <2>2. \A s \in Sub : row'[s].end <= paid[s]
    BY <1>0, <1>1, <1>3 DEF SetRow
  <2> QED
    BY <1>0, <1>3, <2>1, <2>2 DEF SetRow, RowInv
<1>4. CASE Activate(e)
  <2>0. \A r \in Row : row[r] \in RowType /\ [row[r] EXCEPT !.status = "cancelled"] \in RowType
    BY <1>0 DEF RowType, Status
  <2>1. row' \in [Row -> RowType] /\ births' \in Nat
    <3>1. births' \in Nat
      BY <1>0, <1>4 DEF Activate
    <3>2. \A n \in Nat : [status |-> "active", end |-> PeriodEnd(e), born |-> n] \in RowType
      BY <1>1 DEF RowType, PeriodEnd, Status
    <3>3. (IF Exists(e.sub) THEN row[e.sub].born ELSE births + 1) \in Nat
      BY <1>0, <1>1 DEF RowType
    <3>4. row' \in [Row -> RowType]
      BY <1>4, <2>0, <3>2, <3>3 DEF Activate
    <3> QED
      BY <3>1, <3>4
  <2>2. \A s \in Sub : row'[s].end <= paid[s]
    BY <1>0, <1>1, <1>4 DEF Activate, PeriodEnd, RowType
  <2> QED
    BY <2>1, <2>2 DEF RowInv
<1>5. CASE ExpireRow(e)
  <2>1. row' \in [Row -> RowType] /\ births' \in Nat
    <3>1. births' \in Nat
      BY <1>0, <1>5 DEF ExpireRow, table
    <3>2. \A r \in Row : row[r] \in RowType /\ [row[r] EXCEPT !.status = "expired"] \in RowType
      BY <1>0 DEF RowType, Status
    <3>3. [status |-> "active", end |-> Forever, born |-> births + 1] \in RowType
      BY <1>0 DEF RowType, Status
    <3>4. row' \in [Row -> RowType]
      BY <1>0, <1>5, <3>2, <3>3 DEF ExpireRow, table
    <3> QED
      BY <3>1, <3>4
  <2>2. \A s \in Sub : row'[s].end <= paid[s]
    BY <1>0, <1>1, <1>5 DEF ExpireRow, RowType, table
  <2> QED
    BY <2>1, <2>2 DEF RowInv
<1>6. {"active", "cancelled", "past_due"} \subseteq Status
  BY DEF Status
<1> QED
  BY <1>0, <1>1, <1>2, <1>3, <1>4, <1>5, <1>6 DEF Dispatch, HookKind, PeriodEnd

\* What is applied is taken from the one worker that had it, for the first time.
LEMMA ApplyStep ==
    ASSUME IInv, NEW w \in Worker, Apply(w) PROVE IInv'
<1>0. HookInv /\ RowInv /\ WorkInv
  BY DEF IInv
<1>1. PICK e \in work[w] : /\ Dispatch(e)
                           /\ work' = [work EXCEPT ![w] = {}]
                           /\ applied' = [applied EXCEPT ![e.n] = @ + 1]
  BY DEF Apply
<1>2. UNCHANGED <<now, paid, hooks, seen>>
  BY DEF Apply, service
<1>3. HookInv'
  BY <1>0, <1>2 DEF HookInv
<1>4. e \in hooks /\ e.n \in 1 .. MaxHooks
  BY <1>0, <1>1 DEF WorkInv, HookInv, Hook
<1>5. RowInv'
  BY <1>1, <1>2, <1>4, DispatchKeepsRows
<1>6. EventId(e) \in seen /\ applied[e.n] = 0
  BY <1>0, <1>1 DEF WorkInv
<1>7. /\ applied' \in [1 .. MaxHooks -> Nat]
      /\ applied'[e.n] = 1 /\ \A n \in 1 .. MaxHooks : n # e.n => applied'[n] = applied[n]
  BY <1>0, <1>1, <1>4, <1>6 DEF WorkInv
<1>8. /\ work' \in [Worker -> SUBSET hooks]
      /\ \A v \in Worker : work'[v] = IF v = w THEN {} ELSE work[v]
  BY <1>0, <1>1 DEF WorkInv
<1>9. \A f \in hooks : f.n \in 1 .. MaxHooks /\ (f.n = e.n => f = e)
  BY <1>0, <1>4 DEF HookInv, Hook
<1>10. \A f \in hooks : applied'[f.n] # 0 => EventId(f) \in seen
  BY <1>0, <1>6, <1>7, <1>9 DEF WorkInv
<1>11. \A v \in Worker : \A f \in work'[v] :
          /\ f \in work[v] /\ v # w /\ f # e
          /\ applied'[f.n] = 0
  BY <1>0, <1>1, <1>7, <1>8, <1>9 DEF WorkInv
<1>12. \A n \in 1 .. MaxHooks : applied'[n] <= 1 /\ (applied'[n] # 0 => \E f \in hooks : f.n = n)
  BY <1>0, <1>4, <1>7 DEF WorkInv
<1>13. WorkInv'
  BY <1>0, <1>2, <1>7, <1>8, <1>10, <1>11, <1>12 DEF WorkInv, EventId
<1> QED
  BY <1>3, <1>5, <1>13 DEF IInv

-----------------------------------------------------------------------------
(* Time, the service's own calls and its readers.                          *)

\* Rows that only change their status last no longer than before.
LEMMA RowsStep ==
    ASSUME IInv, [Next]_vars,
           Tick \/ Manual \/ (\E q \in Reader : FindExpired(q) \/ WriteExpired(q)) \/ UNCHANGED vars
    PROVE  IInv'
<1> USE SubscriptionsAssumption
<1>0. HookInv /\ RowInv /\ WorkInv
  BY DEF IInv
<1>1. UNCHANGED <<paid, hooks, seen, work, applied>>
  BY DEF Tick, Manual, FindExpired, WriteExpired, vars, service
<1>2. now' \in Nat /\ now <= now'
  <2>1. now \in Nat
    BY <1>0 DEF HookInv
  <2>2. now' = now + 1 \/ now' = now
    BY DEF Tick, Manual, FindExpired, WriteExpired, vars
  <2> QED
    BY <2>1, <2>2
<1>3. HookInv'
  BY <1>0, <1>1, <1>2 DEF HookInv
<1>4. WorkInv'
  BY <1>0, <1>1 DEF WorkInv, EventId
<1>5. RowInv'
  <2>1. CASE UNCHANGED table
    BY <1>0, <1>1, <2>1 DEF RowInv, table
  <2>2. CASE Manual
    <3>1. /\ Cancelled \in [Row -> RowType]
          /\ \A r \in Row : Cancelled[r].end = row[r].end
      BY <1>0 DEF Cancelled, RowInv, RowType, Status
    <3>2. "manual" \notin Sub /\ Sub \subseteq Row
      BY DEF Row
    <3>3. [status |-> "active", end |-> now + Term, born |-> births + 1] \in RowType
      BY <1>0 DEF RowInv, HookInv, RowType, Status
    <3>4. /\ births' \in Nat /\ row' \in [Row -> RowType]
          /\ \A s \in Sub : row'[s].end = row[s].end
      BY <1>0, <2>2, <3>1, <3>2, <3>3 DEF Manual, RowInv
    <3> QED
      BY <1>0, <1>1, <3>4 DEF RowInv
  <2>3. ASSUME NEW q \in Reader, WriteExpired(q) PROVE RowInv'
    <3>1. /\ row' \in [Row -> RowType] /\ births' = births
          /\ \A r \in Row : row'[r].end = row[r].end
      BY <1>0, <2>3 DEF WriteExpired, Active, RowInv, RowType, Status
    <3>2. Sub \subseteq Row
      BY DEF Row
    <3> QED
      BY <1>0, <1>1, <3>1, <3>2 DEF RowInv
  <2> QED
    BY <2>1, <2>2, <2>3 DEF Tick, FindExpired, vars, table
<1> QED
  BY <1>3, <1>4, <1>5 DEF IInv

\* Every step keeps the invariant.
LEMMA InvStep ==
    ASSUME IInv, [Next]_vars PROVE IInv'
  BY ServiceStep, ReceiveStep, LoseStep, ApplyStep, RowsStep DEF Next

-----------------------------------------------------------------------------
(* The types.  IInv has those of the hooks and of what is done with them;   *)
(* the rest is told apart by who writes it.                                 *)

\* What the payment service knows lies within the clock's bound.
ServiceType == now <= Horizon /\ life \in [Sub -> LifeState]

\* Marks are of webhooks that were sent.
MarkType == got \subseteq {e.n : e \in hooks} /\ seen \subseteq {EventId(e) : e \in hooks}

\* Rows are numbered in the order of their births, and each number is one row's.
TableType ==
    /\ row \in [Row -> [status : Status \cup {"none"}, end : 0 .. Forever, born : 0 .. births]]
    /\ \A r \in Row : row[r].born = 0 <=> row[r].status = "none"
    /\ \A r, q \in Row : row[r].born = row[q].born => r = q \/ row[r].born = 0

CountType == manual \in 0 .. MaxManual /\ faults \in 0 .. MaxFaults
ReadingType == reading \in [Reader -> SUBSET (Row \X (0 .. births))]

RestType == ServiceType /\ MarkType /\ TableType /\ CountType /\ ReadingType

\* Every set of naturals has a least member.
LEMMA Least ==
    ASSUME NEW D \in SUBSET Nat, D # {}
    PROVE  \E n \in D : \A m \in D : n <= m
<1>1. PICK n \in D : \A m \in D : <<m, n>> \notin OpToRel(<, Nat)
  BY NatLessThanWellFounded, WFMin
<1>2. \A m \in D : ~(m < n)
  BY <1>1 DEF OpToRel
<1> QED
  BY <1>2

\* If a row is active, there is a newest: none is born after births.
LEMMA NewestIsActive ==
    ASSUME births \in Nat, TableType, Active # {}
    PROVE  Newest \in Active /\ Newest \in Row
<1> DEFINE D == {births - row[r].born : r \in Active}
<1>1. \A r \in Active : r \in Row /\ row[r].born \in 0 .. births
  BY DEF Active, TableType
<1>2. D \in SUBSET Nat /\ D # {}
  BY <1>1
<1>3. PICK n \in D : \A m \in D : n <= m
  <2> HIDE DEF D
  <2> QED
    BY <1>2, Least
<1>4. PICK r \in Active : n = births - row[r].born
  BY <1>3
<1>5. \A q \in Active : births - row[r].born <= births - row[q].born
  BY <1>3, <1>4
<1>6. \A q \in Active : row[q].born <= row[r].born
  BY <1>1, <1>4, <1>5
<1> QED
  BY <1>1, <1>4, <1>6 DEF Newest

\* The types are right at first.
LEMMA TypeInit == Init => RestType
<1> SUFFICES ASSUME Init PROVE RestType
  OBVIOUS
<1> USE SubscriptionsAssumption DEF Init
<1>1. ServiceType /\ MarkType /\ CountType
  BY DEF ServiceType, LifeState, MarkType, CountType
<1>2. ReadingType
  BY DEF ReadingType
<1>3. 0 \in 0 .. Forever /\ 0 \in 0 .. births
  BY DEF Forever
<1>4. NoRow \in [status : Status \cup {"none"}, end : 0 .. Forever, born : 0 .. births]
  BY <1>3 DEF NoRow
<1>5. TableType
  BY <1>4 DEF TableType, NoRow
<1> QED
  BY <1>1, <1>2, <1>5 DEF RestType

\* The payment service moves on; what came of its earlier reports stays.
LEMMA ServiceTypes ==
    ASSUME IInv, RestType, NEW s \in Sub, NEW from, NEW l \in LifeState, NEW until, NEW kind,
           Bill(s, from, l, until, kind)
    PROVE  RestType'
<1>1. UNCHANGED <<now, got, seen, row, births, reading, manual, faults>>
  BY DEF Bill, table
<1>2. hooks \subseteq hooks' /\ life' = [life EXCEPT ![s] = l]
  BY DEF Bill, Send
<1>3. ServiceType' /\ CountType'
  BY <1>1, <1>2 DEF RestType, ServiceType, CountType
<1>4. MarkType'
  BY <1>1, <1>2 DEF RestType, MarkType, EventId
<1>5. TableType' /\ ReadingType'
  BY <1>1 DEF RestType, TableType, ReadingType
<1> QED
  BY <1>3, <1>4, <1>5 DEF RestType

\* A row that changes, or is born, keeps the rows apart.
LEMMA RowChanges ==
    ASSUME births \in Nat, TableType, NEW r \in Row, row[r].status # "none",
           NEW status \in Status, NEW end \in 0 .. Forever, births' = births,
           row' = [row EXCEPT ![r] = [status |-> status, end |-> end, born |-> row[r].born]]
    PROVE  TableType'
<1>1. row[r].born \in 0 .. births /\ row[r].born # 0 /\ status # "none"
  BY DEF TableType, Status
<1>2. [status |-> status, end |-> end, born |-> row[r].born]
        \in [status : Status \cup {"none"}, end : 0 .. Forever, born : 0 .. births]
  BY <1>1
<1>3. row' \in [Row -> [status : Status \cup {"none"}, end : 0 .. Forever, born : 0 .. births]]
  BY <1>2 DEF TableType
<1>4. /\ \A q \in Row : row'[q].born = row[q].born
      /\ \A q \in Row : q # r => row'[q] = row[q]
      /\ row'[r].status = status
  BY DEF TableType
<1> QED
  BY <1>1, <1>3, <1>4 DEF TableType

\* Rows in which one is new, and others at most change their status, are numbered apart.
LEMMA RowBorn ==
    ASSUME births \in Nat, TableType, NEW b \in Row, births' = births + 1,
           row' \in [Row -> [status : Status \cup {"none"}, end : 0 .. Forever,
                             born : 0 .. births + 1]],
           row'[b].born = births + 1, row'[b].status # "none",
           \A q \in Row : q # b => /\ row'[q].born = row[q].born
                                   /\ row'[q].status = "none" <=> row[q].status = "none"
    PROVE  TableType'
<1>1. \A q \in Row : row[q].born \in 0 .. births
  BY DEF TableType
<1>2. \A q \in Row : q # b => row'[q].born # births + 1
  BY <1>1
<1>3. \A q \in Row : row'[q].born = 0 <=> row'[q].status = "none"
  BY DEF TableType
<1>4. \A q, p \in Row : row'[q].born = row'[p].born => q = p \/ row'[q].born = 0
  BY <1>2 DEF TableType
<1> QED
  BY <1>3, <1>4 DEF TableType

\* What was read of the rows can be read of more of them.
LEMMA ReadingGrows ==
    ASSUME ReadingType, births \in Nat, births' \in Nat, births <= births', UNCHANGED reading
    PROVE  ReadingType'
<1>1. 0 .. births \subseteq 0 .. births'
  OBVIOUS
<1> QED
  BY <1>1 DEF ReadingType

\* What a webhook does to the rows.
LEMMA DispatchTypes ==
    ASSUME IInv, RestType, NEW e \in hooks, Dispatch(e)
    PROVE  TableType' /\ births' \in Nat /\ births <= births'
<1> USE SubscriptionsAssumption
<1> DEFINE R == [status : Status \cup {"none"}, end : 0 .. Forever, born : 0 .. births]
           B == [status : Status \cup {"none"}, end : 0 .. Forever, born : 0 .. births + 1]
<1>0. /\ births \in Nat /\ births <= births /\ births <= births + 1 /\ births + 1 \in Nat
      /\ TableType /\ e \in Hook /\ e.until <= paid[e.sub]
      /\ e.sub \in Sub /\ e.sub \in Row /\ "free" \in Row /\ "free" # e.sub
      /\ {"active", "cancelled", "past_due", "expired"} \subseteq Status
  BY DEF IInv, RowInv, HookInv, Hook, RestType, Row, Status
<1>1. e.until \in 0 .. Forever
  <2>1. /\ paid[e.sub] \in Nat /\ paid[e.sub] <= now + Term /\ now <= Horizon /\ now \in Nat
        /\ e.until \in Nat
    BY <1>0 DEF IInv, HookInv, RestType, ServiceType, Hook
  <2> QED
    BY <1>0, <2>1 DEF Forever
<1>2. e.kind \in HookKind /\ e.status \in Status /\ row[e.sub].end \in 0 .. Forever
  BY <1>0 DEF Hook, TableType
<1>3. ASSUME NEW status \in Status, NEW end \in 0 .. Forever, SetRow(e.sub, status, end)
      PROVE  TableType' /\ births' = births
  <2>1. CASE Exists(e.sub)
    BY <1>0, <1>3, <2>1, RowChanges DEF SetRow, Exists
  <2>2. CASE ~Exists(e.sub)
    BY <1>0, <1>3, <2>2 DEF SetRow, TableType
  <2> QED
    BY <2>1, <2>2
<1>4. CASE Activate(e)
  <2> DEFINE new == [status |-> "active", end |-> PeriodEnd(e),
                     born |-> IF Exists(e.sub) THEN row[e.sub].born ELSE births + 1]
  <2>0. 0 .. births \subseteq 0 .. births + 1 /\ births + 1 \in 0 .. births + 1
    BY <1>0
  <2>1. \A r \in Row : row[r] \in R
    BY <1>0 DEF TableType
  <2>2. \A r \in Row : row[r] \in B /\ [row[r] EXCEPT !.status = "cancelled"] \in R
                                    /\ [row[r] EXCEPT !.status = "cancelled"] \in B
    BY <1>0, <2>0, <2>1
  <2>3. /\ row'[e.sub] = new
        /\ \A r \in Row : r # e.sub =>
             /\ row'[r] = row[r] \/ (row[r].status = "active"
                                     /\ row'[r] = [row[r] EXCEPT !.status = "cancelled"])
             /\ row'[r].born = row[r].born
             /\ row'[r].status = "none" <=> row[r].status = "none"
    BY <1>0, <1>4, <2>1 DEF Activate
  <2>4. DOMAIN row' = Row /\ row' = [r \in Row |-> row'[r]]
    BY <1>4 DEF Activate
  <2>5. CASE Exists(e.sub)
    <3>1. new \in R /\ new.born = row[e.sub].born /\ new.status # "none" /\ births' = births
      BY <1>0, <1>1, <1>4, <2>1, <2>5 DEF Activate, PeriodEnd
    <3>2. row' \in [Row -> R]
      <4> HIDE DEF R, new
      <4> QED
        BY <2>1, <2>2, <2>3, <2>4, <3>1
    <3>3. \A r \in Row : /\ row'[r].born = row[r].born
                         /\ row'[r].status = "none" <=> row[r].status = "none"
      BY <2>3, <2>5, <3>1 DEF Exists
    <3>4. TableType'
      BY <1>0, <3>1, <3>2, <3>3 DEF TableType
    <3> QED
      BY <1>0, <3>1, <3>4
  <2>6. CASE ~Exists(e.sub)
    <3>1. new \in B /\ new.born = births + 1 /\ new.status # "none" /\ births' = births + 1
      BY <1>0, <1>1, <1>4, <2>0, <2>6 DEF Activate, PeriodEnd
    <3>2. row' \in [Row -> B]
      <4> HIDE DEF B, R, new
      <4> QED
        BY <2>2, <2>3, <2>4, <3>1
    <3>3. TableType'
      <4> HIDE DEF new
      <4> QED
        BY <1>0, <2>3, <3>1, <3>2, RowBorn
    <3> QED
      BY <1>0, <3>1, <3>3
  <2> QED
    BY <2>5, <2>6
<1>5. CASE ExpireRow(e)
  <2>1. CASE Exists(e.sub)
    <3>0. 0 .. births \subseteq 0 .. births + 1 /\ births + 1 \in 0 .. births + 1
          /\ Forever \in 0 .. Forever
      BY <1>0 DEF Forever
    <3>1. \A r \in Row : row[r] \in B /\ [row[r] EXCEPT !.status = "expired"] \in B
      BY <1>0, <3>0 DEF TableType
    <3>2. [status |-> "active", end |-> Forever, born |-> births + 1] \in B
      BY <1>0, <3>0
    <3>3. row' \in [Row -> B] /\ births' = births + 1
      <4> HIDE DEF B
      <4> QED
        BY <1>0, <1>5, <2>1, <3>1, <3>2 DEF ExpireRow
    <3>4. /\ row'["free"].born = births + 1 /\ row'["free"].status # "none"
          /\ \A r \in Row : r # "free" => /\ row'[r].born = row[r].born
                                          /\ row'[r].status = "none" <=> row[r].status = "none"
      <4>1. \A r \in Row : row[r] \in R
        BY <1>0 DEF TableType
      <4> QED
        BY <1>0, <1>5, <2>1, <4>1 DEF ExpireRow, Exists
    <3>5. TableType'
      BY <1>0, <3>3, <3>4, RowBorn
    <3> QED
      BY <1>0, <3>3, <3>5
  <2>2. CASE ~Exists(e.sub)
    BY <1>0, <1>5, <2>2 DEF ExpireRow, table, TableType
  <2> QED
    BY <2>1, <2>2
<1> QED
  BY <1>0, <1>1, <1>2, <1>3, <1>4, <1>5 DEF Dispatch, HookKind, PeriodEnd

\* What the workers do with the webhooks.
LEMMA WorkerTypes ==
    ASSUME IInv, RestType, NEW w \in Worker,
           (\E e \in hooks : Receive(w, e)) \/ Lose(w) \/ Apply(w)
    PROVE  RestType'
<1>0. /\ births \in Nat /\ births <= births /\ ServiceType /\ MarkType /\ TableType
      /\ CountType /\ ReadingType /\ work \in [Worker -> SUBSET hooks]
  BY DEF IInv, RowInv, WorkInv, RestType
<1>1. UNCHANGED <<now, life, hooks, manual, reading>>
  BY DEF Receive, Lose, Apply, service
<1>2. ServiceType'
  BY <1>0, <1>1 DEF ServiceType
<1>3. MarkType'
  <2>1. ASSUME NEW e \in hooks, Receive(w, e) PROVE MarkType'
    <3>1. got' \subseteq {f.n : f \in hooks}
      BY <1>0, <2>1 DEF Receive, MarkType
    <3>2. seen' \subseteq seen \cup {EventId(e)}
      BY <2>1 DEF Receive, Mark
    <3> QED
      BY <1>0, <1>1, <3>1, <3>2 DEF MarkType, EventId
  <2> QED
    BY <1>0, <1>1, <2>1 DEF Lose, Apply, MarkType, EventId
<1>4. CountType'
  <2>1. faults' = faults \/ (faults < MaxFaults /\ faults' = faults + 1)
    BY DEF Receive, Lose, Apply
  <2> QED
    BY <1>0, <1>1, <2>1, SubscriptionsAssumption DEF CountType
<1>5. TableType' /\ births' \in Nat /\ births <= births'
  <2>1. CASE Apply(w)
    <3>1. PICK e \in work[w] : Dispatch(e)
      BY <2>1 DEF Apply
    <3>2. e \in hooks
      BY <1>0, <3>1
    <3> QED
      BY <3>1, <3>2, DispatchTypes
  <2>2. CASE UNCHANGED table
    BY <1>0, <2>2 DEF table, TableType
  <2> QED
    BY <2>1, <2>2 DEF Receive, Lose
<1>6. ReadingType'
  BY <1>0, <1>1, <1>5, ReadingGrows
<1> QED
  BY <1>2, <1>3, <1>4, <1>5, <1>6 DEF RestType

\* Cancelling a row leaves its number, and whether it exists.
LEMMA CancelledTypes ==
    ASSUME births \in Nat, TableType
    PROVE  /\ Cancelled \in [Row -> [status : Status \cup {"none"}, end : 0 .. Forever,
                                     born : 0 .. births]]
           /\ \A r \in Row : /\ Cancelled[r].born = row[r].born
                             /\ Cancelled[r].status = "none" <=> row[r].status = "none"
<1>1. \A r \in Row : row[r] \in [status : Status \cup {"none"}, end : 0 .. Forever,
                                 born : 0 .. births]
  BY DEF TableType
<1> QED
  BY <1>1 DEF Cancelled, Active, Status

\* Subscribe and Cancel.
LEMMA ManualTypes ==
    ASSUME IInv, RestType, Manual PROVE RestType'
<1> USE SubscriptionsAssumption
<1> DEFINE B == [status : Status \cup {"none"}, end : 0 .. Forever, born : 0 .. births + 1]
           m == [status |-> "active", end |-> now + Term, born |-> births + 1]
<1>0. /\ births \in Nat /\ births <= births /\ births <= births + 1 /\ births + 1 \in Nat
      /\ ServiceType /\ MarkType /\ TableType
      /\ CountType /\ ReadingType /\ now \in Nat /\ "manual" \in Row
  BY DEF IInv, RowInv, HookInv, RestType, Row
<1>1. UNCHANGED <<now, life, hooks, got, seen, reading, faults>>
  BY DEF Manual, service
<1>2. ServiceType' /\ MarkType'
  BY <1>0, <1>1 DEF ServiceType, MarkType, EventId
<1>3. CountType'
  BY <1>0, <1>1 DEF CountType, Manual
<1>4. CASE row' = Cancelled /\ UNCHANGED births
  <2>1. TableType'
    BY <1>0, <1>4, CancelledTypes DEF TableType
  <2> QED
    BY <1>0, <1>1, <1>2, <1>3, <1>4, <2>1, ReadingGrows DEF RestType
<1>5. CASE row' = [Cancelled EXCEPT !["manual"] = m] /\ births' = births + 1
  <2>1. m \in B /\ m.born = births + 1 /\ m.status # "none"
    BY <1>0 DEF Status, Forever, ServiceType
  <2>2. Cancelled \in [Row -> B]
    <3>1. 0 .. births \subseteq 0 .. births + 1
      BY <1>0
    <3> QED
      BY <1>0, <3>1, CancelledTypes
  <2>3. /\ row' \in [Row -> B] /\ row'["manual"] = m
        /\ \A r \in Row : r # "manual" => row'[r] = Cancelled[r]
    <3> HIDE DEF B, m
    <3> QED
      BY <1>0, <1>5, <2>1, <2>2
  <2>4. TableType'
    <3> HIDE DEF m
    <3> QED
      BY <1>0, <1>5, <2>1, <2>3, CancelledTypes, RowBorn
  <2> QED
    BY <1>0, <1>1, <1>2, <1>3, <1>5, <2>4, ReadingGrows DEF RestType
<1> QED
  BY <1>4, <1>5 DEF Manual

\* A reader finds the newest row, and writes down that it has expired.
LEMMA ReaderTypes ==
    ASSUME IInv, RestType, NEW q \in Reader, FindExpired(q) \/ WriteExpired(q) PROVE RestType'
<1>0. /\ births \in Nat /\ ServiceType /\ MarkType /\ TableType /\ CountType /\ ReadingType
  BY DEF IInv, RowInv, RestType
<1>1. UNCHANGED <<now, life, hooks, got, seen, births, manual, faults>>
  BY DEF FindExpired, WriteExpired, service, table
<1>2. ServiceType' /\ MarkType' /\ CountType'
  BY <1>0, <1>1 DEF ServiceType, MarkType, CountType, EventId
<1>3. CASE FindExpired(q)
  <2>1. Newest \in Row /\ row[Newest].born \in 0 .. births
    BY <1>0, <1>3, NewestIsActive DEF FindExpired, TableType
  <2>2. ReadingType'
    BY <1>0, <1>1, <1>3, <2>1 DEF FindExpired, ReadingType
  <2>3. TableType'
    BY <1>0, <1>3 DEF FindExpired, table, TableType
  <2> QED
    BY <1>2, <2>2, <2>3 DEF RestType
<1>4. CASE WriteExpired(q)
  <2>1. ReadingType'
    BY <1>0, <1>1, <1>4 DEF WriteExpired, ReadingType
  <2>2. PICK f \in reading[q] :
          row' = IF f[1] \in Active /\ row[f[1]].born = f[2]
                 THEN [row EXCEPT ![f[1]] = [@ EXCEPT !.status = "expired"]] ELSE row
    BY <1>4 DEF WriteExpired
  <2>3. CASE row' = row
    BY <1>0, <1>1, <1>2, <2>1, <2>3 DEF TableType, RestType
  <2>4. CASE f[1] \in Active /\ row' = [row EXCEPT ![f[1]] = [@ EXCEPT !.status = "expired"]]
    <3>1. PICK r \in Row : r = f[1] /\ row[r].status = "active"
      BY <2>4 DEF Active
    <3>2. row[r] \in [status : Status \cup {"none"}, end : 0 .. Forever, born : 0 .. births]
      BY <1>0, <3>1 DEF TableType
    <3>3. /\ [row[r] EXCEPT !.status = "expired"]
               = [status |-> "expired", end |-> row[r].end, born |-> row[r].born]
          /\ row[r].end \in 0 .. Forever /\ "expired" \in Status
      BY <3>2 DEF Status
    <3>4. row' = [row EXCEPT ![r] = [status |-> "expired", end |-> row[r].end,
                                     born |-> row[r].born]]
      BY <2>4, <3>1, <3>3
    <3>5. TableType'
      BY <1>0, <1>1, <3>1, <3>3, <3>4, RowChanges
    <3> QED
      BY <1>2, <2>1, <3>5 DEF RestType
  <2> QED
    BY <2>2, <2>3, <2>4
<1> QED
  BY <1>3, <1>4

\* Every step keeps the types.
LEMMA TypeStep ==
    ASSUME IInv, RestType, [Next]_vars PROVE RestType'
<1>1. ASSUME NEW s \in Sub,
             Purchase(s) \/ Renew(s) \/ Decline(s) \/ Quit(s) \/ Expire(s) \/ Update(s)
      PROVE  RestType'
  <2>1. {"live", "past_due", "cancelled", "ended"} \subseteq LifeState /\ life[s] \in LifeState
    BY DEF RestType, ServiceType, LifeState
  <2> QED
    BY <1>1, <2>1, ServiceTypes DEF Purchase, Renew, Decline, Quit, Expire, Update
<1>2. CASE Tick
  <2>1. UNCHANGED <<life, hooks, got, seen, row, births, reading, manual, faults>>
    BY <1>2 DEF Tick, service, table
  <2>2. now < Horizon /\ now' = now + 1 /\ now \in Nat /\ Horizon \in Nat
    BY <1>2, SubscriptionsAssumption DEF Tick, IInv, HookInv
  <2>3. ServiceType' /\ MarkType' /\ CountType'
    BY <2>1, <2>2 DEF RestType, ServiceType, MarkType, CountType, EventId
  <2>4. TableType' /\ ReadingType'
    BY <2>1 DEF RestType, TableType, ReadingType
  <2> QED
    BY <2>3, <2>4 DEF RestType
<1>3. CASE UNCHANGED vars
  <2>1. UNCHANGED <<now, life, hooks, got, seen, row, births, reading, manual, faults>>
    BY <1>3 DEF vars, service, table
  <2>2. ServiceType' /\ MarkType' /\ CountType'
    BY <2>1 DEF RestType, ServiceType, MarkType, CountType, EventId
  <2>3. TableType' /\ ReadingType'
    BY <2>1 DEF RestType, TableType, ReadingType
  <2> QED
    BY <2>2, <2>3 DEF RestType
<1> QED
  BY <1>1, <1>2, <1>3, WorkerTypes, ManualTypes, ReaderTypes DEF Next

-----------------------------------------------------------------------------
(* The theorems.                                                           *)

\* Whatever webhooks are lost, late, repeated or overtaken, and whatever a slow reader
\* writes down: nobody is served a paid plan beyond the time that was paid for.
THEOREM PaidCorrect == Spec => []ServedIsPaid
<1>1. ASSUME IInv PROVE ServedIsPaid
  <2>1. SUFFICES ASSUME Served \in Sub PROVE now <= paid[Served]
    BY DEF ServedIsPaid
  <2>2. Served = Newest /\ ~IsExpired(Newest)
    BY <2>1, SubscriptionsAssumption DEF Served
  <2>3. /\ now \in Nat /\ paid[Served] \in Nat
        /\ row[Served].end \in Nat /\ row[Served].end <= paid[Served]
    BY <1>1, <2>1 DEF IInv, HookInv, RowInv, RowType, Row
  <2> QED
    BY <2>2, <2>3 DEF IsExpired
<1> QED
  BY <1>1, InvInit, InvStep, PTL DEF Spec

\* However many copies of a webhook come at the same time, to however many workers, it
\* is applied at most once (markEventSeen).
THEOREM AppliedCorrect == Spec => []AppliedOnce
<1>1. IInv => AppliedOnce
  BY DEF IInv, WorkInv, AppliedOnce
<1> QED
  BY <1>1, InvInit, InvStep, PTL DEF Spec

\* However the webhooks and the calls interleave: no variable leaves its type, no two
\* rows have the same number, and a reader that finds an active row finds a newest one.
THEOREM TypeCorrect == Spec => []TypeOK
<1>1. ASSUME IInv, RestType PROVE TypeOK
  <2>1. /\ births \in Nat /\ now \in 0 .. Horizon /\ life \in [Sub -> LifeState]
        /\ paid \in [Sub -> 0 .. now + Term]
    BY <1>1, SubscriptionsAssumption
       DEF IInv, RowInv, HookInv, RestType, ServiceType
  <2>2. /\ hooks \subseteq Hook /\ \A e, f \in hooks : e.n = f.n => e = f
        /\ work \in [Worker -> SUBSET hooks] /\ applied \in [1 .. MaxHooks -> Nat]
    BY <1>1 DEF IInv, HookInv, WorkInv
  <2>3. MarkType /\ TableType /\ CountType /\ ReadingType
    BY <1>1 DEF RestType
  <2> QED
    BY <2>1, <2>2, <2>3 DEF TypeOK, LifeState, MarkType, TableType, CountType, ReadingType
<1> QED
  BY <1>1, InvInit, InvStep, TypeInit, TypeStep, PTL DEF Spec
=============================================================================
