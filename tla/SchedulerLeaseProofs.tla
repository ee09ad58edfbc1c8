------------------------ MODULE SchedulerLeaseProofs ------------------------
(***************************************************************************)
(* Proofs about SchedulerLease, for every set of processes and all timings *)
(* that satisfy TimingAssumption.                                          *)
(***************************************************************************)
EXTENDS SchedulerLease, TLAPS

\* How long ago, at most, the UPSERT executed that a confident process p
\* last heard of: one period if it has missed a renewal, one more while
\* the next call is under way, the time since then, and the part of the
\* period the first call may have taken before the ticker was created.
Allowed(p) ==
    (IF misses[p] = 0 THEN 0 ELSE RenewIn)
    + (IF Calling(p) THEN RenewIn ELSE 0)
    + clk[p] + CallTimeout

BeliefIsRecent ==
    \A p \in Process : Confident(p) => holder = p /\ TTL - left <= Allowed(p)

WonIsRecent ==
    \A p \in Process :
        Calling(p) /\ stmt[p] = "won" => holder = p /\ TTL - left <= clk[p]

CallsAreShort == \A p \in Process : Calling(p) => clk[p] <= CallTimeout

FirstCallIsNotHeld == \A p \in Process : pc[p] \in {"new", "first"} => ~held[p]

LateDeleteIsOfTheGone ==
    \A p \in Process : "delete" \in orphan[p] => pc[p] \in {"stopped", "dead"}

IInv ==
    /\ TypeOK
    /\ BeliefIsRecent
    /\ WonIsRecent
    /\ CallsAreShort
    /\ FirstCallIsNotHeld
    /\ LateDeleteIsOfTheGone

-----------------------------------------------------------------------------
(* Type correctness *)

\* The variables keep their types in the initial states.
LEMMA InitType == Init => TypeOK
  BY NoOneAssumption, TimingAssumption DEF Init, TypeOK, PC, Looping

\* Every step keeps the types: the lease never counts below -1, and no
\* timer runs past the point where it fires.
LEMMA NextType == TypeOK /\ [Next]_vars => TypeOK'
<1> SUFFICES ASSUME TypeOK, [Next]_vars PROVE TypeOK'
  OBVIOUS
<1> USE NoOneAssumption, TimingAssumption
<1>1. CASE Tick
  <2>1. ASSUME NEW p \in Process PROVE clk'[p] \in 0 .. RenewIn
    BY <1>1, SMT DEF Tick, Due, Timed, Live, Looping, TypeOK
  <2>2. clk' \in [Process -> 0 .. RenewIn]
    BY <1>1, <2>1 DEF Tick
  <2>3. left' \in -1 .. TTL
    BY <1>1 DEF Tick, Expired, TypeOK
  <2> QED BY <1>1, <2>2, <2>3 DEF Tick, TypeOK
<1>2. ASSUME NEW p \in Process, Step(p) PROVE TypeOK'
  <2>1. CASE Start(p)
    BY <2>1 DEF Start, Begin, TypeOK, PC, Looping
  <2>2. CASE Renew(p)
    BY <2>2 DEF Renew, Begin, TypeOK, PC, Looping
  <2>3. CASE Execute(p)
    BY <2>3 DEF Execute, Upsert, dbVars, TypeOK
  <2>4. CASE Answer(p)
    BY <2>4 DEF Answer, BackToSelect, TypeOK, PC, Looping
  <2>5. CASE Fail(p)
    BY <2>5 DEF Fail, Abandon, BackToSelect, TypeOK, PC, Looping
  <2>6. CASE Stop(p)
    BY <2>6 DEF Stop, TypeOK
  <2>7. CASE ExitLoop(p)
    BY <2>7 DEF ExitLoop, TypeOK, PC
  <2>8. CASE Release(p)
    BY <2>8 DEF Release, TypeOK, PC
  <2>9. CASE Released(p)
    BY <2>9 DEF Released, Delete, dbVars, TypeOK, PC
  <2>10. CASE ReleaseFails(p)
    BY <2>10 DEF ReleaseFails, Abandon, TypeOK, PC
  <2>11. CASE LateStatement(p)
    BY <2>11 DEF LateStatement, Upsert, Delete, dbVars, TypeOK
  <2>12. CASE Crash(p)
    BY <2>12 DEF Crash, Abandon, dbVars, TypeOK, PC
  <2> QED BY <1>2, <2>1, <2>2, <2>3, <2>4, <2>5, <2>6, <2>7, <2>8, <2>9,
             <2>10, <2>11, <2>12 DEF Step
<1>3. CASE UNCHANGED vars
  BY <1>3 DEF vars, TypeOK
<1> QED BY <1>1, <1>2, <1>3 DEF Next

\* Every reachable state is well typed: the countdown of the row stops at
\* -1, and every timer fires by its deadline.
THEOREM TypeCorrect == Spec => []TypeOK
  BY InitType, NextType, PTL DEF Spec

-----------------------------------------------------------------------------
(* The inductive invariant *)

\* At first nobody believes to lead.
LEMMA InitIInv == Init => IInv
<1> SUFFICES ASSUME Init PROVE IInv
  OBVIOUS
<1>1. TypeOK
  BY InitType
<1> QED
  BY <1>1 DEF Init, IInv, BeliefIsRecent, WonIsRecent, CallsAreShort,
     FirstCallIsNotHeld, LateDeleteIsOfTheGone, Confident, Live, Calling, Looping

\* A confident process owns an unexpired row: two periods and two call
\* timeouts fit into the ttl.
LEMMA RecentIsTrue ==
    ASSUME IInv, NEW p \in Process, Confident(p)
    PROVE  holder = p /\ left >= 0 /\ ~Expired
<1> USE TimingAssumption
<1>1. clk[p] \in Int /\ RenewIn \in Int /\ CallTimeout \in Int
  BY DEF IInv, TypeOK
<1>2. CASE Calling(p)
  <2>1. clk[p] <= CallTimeout
    BY <1>2 DEF IInv, CallsAreShort
  <2>2. Allowed(p) <= 2 * RenewIn + 2 * CallTimeout
    BY <1>1, <1>2, <2>1 DEF Allowed
  <2> QED BY <2>2, <1>1 DEF IInv, TypeOK, BeliefIsRecent, Expired, Allowed
<1>3. CASE ~Calling(p)
  <2>1. clk[p] <= RenewIn
    BY DEF IInv, TypeOK
  <2>2. Allowed(p) <= 2 * RenewIn + CallTimeout
    BY <1>1, <1>3, <2>1 DEF Allowed
  <2> QED BY <2>2, <1>1 DEF IInv, TypeOK, BeliefIsRecent, Expired, Allowed
<1> QED BY <1>2, <1>3

\* A call that won still has its row when the answer arrives.
LEMMA WonIsTrue ==
    ASSUME IInv, NEW p \in Process, Calling(p), stmt[p] = "won"
    PROVE  holder = p /\ left >= 0 /\ ~Expired
  BY TimingAssumption DEF IInv, TypeOK, WonIsRecent, CallsAreShort, Expired

\* Running statements only ever adds to a row that is safe: an UPSERT of q
\* leaves the unexpired row of another process p alone.
LEMMA UpsertKeeps ==
    ASSUME TypeOK, NEW p \in Process, NEW q \in Process, Upsert(q),
           holder = p, ~Expired
    PROVE  holder' = p /\ left' \in {left, TTL}
  BY TimingAssumption, NoOneAssumption DEF TypeOK, Upsert, Winnable, Expired, dbVars

\* A bound on the age of the row survives a step that renews the row or
\* leaves it alone.
LEMMA AgeKept ==
    ASSUME NEW old \in Int, NEW new \in {old, TTL}, NEW a \in Nat, TTL - old <= a
    PROVE  TTL - new <= a
  BY TimingAssumption

\* Every step keeps the invariant.
LEMMA NextIInv == IInv /\ [Next]_vars => IInv'
<1> SUFFICES ASSUME IInv, [Next]_vars PROVE IInv'
  OBVIOUS
<1> USE TimingAssumption
<1>t. TypeOK /\ TypeOK'
  BY NextType DEF IInv
<1>i. TTL \in Int /\ left \in Int /\ left' \in Int
  BY <1>t DEF TypeOK
<1>c. \A p \in Process : clk[p] \in Nat
  BY <1>t DEF TypeOK
<1>1. CASE Tick
  <2>1. \A p \in Process : Calling(p) => clk[p] < CallTimeout
    BY <1>1, <1>t DEF Tick, Due, Calling, TypeOK
  <2>2. \A p \in Process : Live(p) => clk'[p] = clk[p] + 1
    BY <1>1 DEF Tick, Timed
  <2>3. \A p \in Process : (Confident(p)' <=> Confident(p)) /\ (Calling(p)' <=> Calling(p))
    BY <1>1 DEF Tick, Confident, Calling, Live
  <2>4. \A p \in Process : Confident(p) => Allowed(p)' = Allowed(p) + 1
    BY <1>1, <1>t, <2>2, <2>3 DEF Tick, Allowed, Confident, TypeOK
  <2>5. holder' = holder /\ (~Expired => left' = left - 1)
    BY <1>1 DEF Tick
  <2>6. BeliefIsRecent'
    <3> SUFFICES ASSUME NEW p \in Process, Confident(p)'
                 PROVE  holder' = p /\ TTL - left' <= Allowed(p)'
      BY DEF BeliefIsRecent
    <3>1. Confident(p) /\ ~Expired
      BY <2>3, RecentIsTrue
    <3>2. holder = p /\ TTL - left <= Allowed(p) /\ Allowed(p) \in Int
      BY <3>1, <1>t DEF IInv, BeliefIsRecent, Allowed, TypeOK
    <3> QED BY <3>1, <3>2, <2>4, <2>5, <1>t DEF TypeOK
  <2>7. WonIsRecent'
    <3> SUFFICES ASSUME NEW p \in Process, Calling(p)', stmt'[p] = "won"
                 PROVE  holder' = p /\ TTL - left' <= clk'[p]
      BY DEF WonIsRecent
    <3>1. Calling(p) /\ stmt[p] = "won" /\ Live(p)
      BY <2>3, <1>1 DEF Tick, Calling, Live, Looping
    <3>2. ~Expired
      BY <3>1, WonIsTrue
    <3>3. holder = p /\ TTL - left <= clk[p]
      BY <3>1 DEF IInv, WonIsRecent
    <3> QED BY <3>1, <3>2, <3>3, <2>2, <2>5, <1>t DEF TypeOK
  <2>8. CallsAreShort'
    <3> SUFFICES ASSUME NEW p \in Process, Calling(p)' PROVE clk'[p] <= CallTimeout
      BY DEF CallsAreShort
    <3>1. Calling(p) /\ Live(p)
      BY <2>3 DEF Calling, Live, Looping
    <3> QED BY <3>1, <2>1, <2>2, <1>t DEF TypeOK
  <2> QED BY <1>1, <1>t, <2>6, <2>7, <2>8
          DEF Tick, IInv, FirstCallIsNotHeld, LateDeleteIsOfTheGone
<1>2. ASSUME NEW q \in Process, Step(q) PROVE IInv'
  <2>1. CASE Start(q)
    BY <2>1, <1>t DEF Start, Begin, IInv, TypeOK, BeliefIsRecent, WonIsRecent,
       CallsAreShort, FirstCallIsNotHeld, LateDeleteIsOfTheGone, Confident, Live,
       Calling, Looping, Allowed
  <2>2. CASE Renew(q)
    BY <2>2, <1>t DEF Renew, Begin, IInv, TypeOK, BeliefIsRecent, WonIsRecent,
       CallsAreShort, FirstCallIsNotHeld, LateDeleteIsOfTheGone, Confident, Live,
       Calling, Looping, Allowed
  <2>3. CASE Execute(q)
    <3>1. Upsert(q) /\ UNCHANGED <<pc, clk, held, misses, orphan>>
      BY <2>3 DEF Execute
    <3>2. \A p \in Process : (Confident(p)' <=> Confident(p)) /\ (Calling(p)' <=> Calling(p))
              /\ Allowed(p)' = Allowed(p) /\ Allowed(p) \in Nat
      BY <3>1, <1>t DEF Confident, Calling, Live, Allowed, TypeOK
    <3>3. BeliefIsRecent'
      <4> SUFFICES ASSUME NEW p \in Process, Confident(p)'
                   PROVE  holder' = p /\ TTL - left' <= Allowed(p)'
        BY DEF BeliefIsRecent
      <4>1. Confident(p) /\ Upsert(q)
        BY <3>1, <3>2
      <4>2. holder = p /\ ~Expired /\ TTL - left <= Allowed(p)
        BY <4>1, RecentIsTrue DEF IInv, BeliefIsRecent
      <4>3. holder' = p /\ left' \in {left, TTL}
        BY <4>1, <4>2, <1>t, UpsertKeeps
      <4> QED BY <3>2, <4>2, <4>3, <1>i, AgeKept
    <3>4. WonIsRecent'
      <4> SUFFICES ASSUME NEW p \in Process, Calling(p)', stmt'[p] = "won"
                   PROVE  holder' = p /\ TTL - left' <= clk'[p]
        BY DEF WonIsRecent
      <4>1. CASE p = q
        BY <4>1, <2>3, <3>1, <1>t DEF Execute, Upsert, TypeOK
      <4>2. CASE p # q
        <5>1. Calling(p) /\ stmt[p] = "won"
          BY <4>2, <2>3, <3>2, <1>t DEF Execute, TypeOK
        <5>2. holder = p /\ ~Expired /\ TTL - left <= clk[p]
          BY <5>1, WonIsTrue DEF IInv, WonIsRecent
        <5>3. Upsert(q) /\ clk' = clk
          BY <3>1
        <5>4. holder' = p /\ left' \in {left, TTL}
          BY <5>2, <5>3, <1>t, UpsertKeeps
        <5> QED BY <5>2, <5>3, <5>4, <1>i, <1>c, AgeKept
      <4> QED BY <4>1, <4>2
    <3> QED BY <1>t, <3>1, <3>2, <3>3, <3>4
            DEF IInv, CallsAreShort, FirstCallIsNotHeld, LateDeleteIsOfTheGone
  <2>4. CASE Answer(q)
    <3>1. UNCHANGED <<holder, left>> /\ Calling(q)
      BY <2>4 DEF Answer, BackToSelect
    <3>2. BeliefIsRecent'
      <4> SUFFICES ASSUME NEW p \in Process, Confident(p)'
                   PROVE  holder = p /\ TTL - left <= Allowed(p)'
        BY <3>1 DEF BeliefIsRecent
      <4>1. CASE p = q
        <5>1. stmt[q] = "won"
          BY <4>1, <2>4, <1>t DEF Answer, Confident, TypeOK
        <5>2. holder = q /\ TTL - left <= clk[q] /\ clk[q] <= CallTimeout
          BY <5>1, <3>1 DEF IInv, WonIsRecent, CallsAreShort
        <5>3. Allowed(q)' = clk'[q] + CallTimeout /\ clk'[q] \in {0, clk[q]}
          BY <2>4, <1>t DEF Answer, BackToSelect, Allowed, Calling, TypeOK
        <5> QED BY <4>1, <5>2, <5>3, <1>t DEF TypeOK
      <4>2. CASE p # q
        <5>1. Confident(p) /\ Allowed(p)' = Allowed(p)
          BY <4>2, <2>4, <1>t DEF Answer, BackToSelect, Confident, Live, Calling,
             Allowed, TypeOK
        <5> QED BY <5>1 DEF IInv, BeliefIsRecent
      <4> QED BY <4>1, <4>2
    <3> QED BY <2>4, <3>2, <1>t DEF Answer, BackToSelect, IInv, TypeOK, WonIsRecent,
         CallsAreShort, FirstCallIsNotHeld, LateDeleteIsOfTheGone, Calling, Looping
  <2>5. CASE Fail(q)
    <3>1. UNCHANGED <<holder, left, held>> /\ Calling(q)
      BY <2>5 DEF Fail, BackToSelect
    <3>2. \A p \in Process : Confident(p)' => Confident(p)
      BY <2>5, <1>t DEF Fail, BackToSelect, Confident, Live, Calling, Looping, TypeOK
    <3>3. \A p \in Process : Confident(p)' => Allowed(p)' = Allowed(p)
      BY <2>5, <1>t DEF Fail, BackToSelect, Confident, Live, Calling, Looping,
         Allowed, TypeOK, IInv, FirstCallIsNotHeld
    <3>4. BeliefIsRecent'
      BY <3>1, <3>2, <3>3 DEF IInv, BeliefIsRecent
    <3> QED BY <2>5, <1>t, <3>4 DEF Fail, Abandon, BackToSelect, IInv, TypeOK, WonIsRecent,
         CallsAreShort, FirstCallIsNotHeld, LateDeleteIsOfTheGone, Calling, Looping
  <2>6. CASE Stop(q)
    BY <2>6, <1>t DEF Stop, IInv, BeliefIsRecent, WonIsRecent, CallsAreShort,
       FirstCallIsNotHeld, LateDeleteIsOfTheGone, Confident, Live, Calling, Allowed
  <2>7. CASE ExitLoop(q)
    BY <2>7, <1>t DEF ExitLoop, IInv, TypeOK, BeliefIsRecent, WonIsRecent, CallsAreShort,
       FirstCallIsNotHeld, LateDeleteIsOfTheGone, Confident, Live, Calling, Looping, Allowed
  <2>8. CASE Release(q)
    BY <2>8, <1>t DEF Release, IInv, TypeOK, BeliefIsRecent, WonIsRecent, CallsAreShort,
       FirstCallIsNotHeld, LateDeleteIsOfTheGone, Confident, Live, Calling, Looping, Allowed
  <2>9. CASE Released(q)
    BY <2>9, <1>t DEF Released, Delete, dbVars, IInv, TypeOK, BeliefIsRecent, WonIsRecent,
       CallsAreShort, FirstCallIsNotHeld, LateDeleteIsOfTheGone, Confident, Live,
       Calling, Looping, Allowed
  <2>10. CASE ReleaseFails(q)
    BY <2>10, <1>t DEF ReleaseFails, Abandon, IInv, TypeOK, BeliefIsRecent, WonIsRecent,
       CallsAreShort, FirstCallIsNotHeld, LateDeleteIsOfTheGone, Confident, Live,
       Calling, Looping, Allowed
  <2>11. CASE LateStatement(q)
    <3>1. UNCHANGED <<pc, stmt, clk, held, misses>>
      BY <2>11 DEF LateStatement
    <3>2. \A p \in Process : (Confident(p)' <=> Confident(p)) /\ (Calling(p)' <=> Calling(p))
              /\ Allowed(p)' = Allowed(p) /\ Allowed(p) \in Nat
      BY <3>1, <1>t DEF Confident, Calling, Live, Allowed, TypeOK
    <3>3. \/ Upsert(q)
          \/ Delete(q) /\ pc[q] \in {"stopped", "dead"}
      BY <2>11, <1>t DEF LateStatement, IInv, LateDeleteIsOfTheGone, TypeOK
    <3>4. ASSUME NEW p \in Process, holder = p, ~Expired, Live(p)
          PROVE  holder' = p /\ left' \in {left, TTL}
      <4>1. CASE Upsert(q)
        <5>1. Upsert(q)
          BY <4>1
        <5> QED BY <5>1, <3>4, <1>t, UpsertKeeps
      <4>2. CASE Delete(q) /\ pc[q] \in {"stopped", "dead"}
        BY <4>2, <3>4, <1>i DEF Delete, Live, Looping, dbVars
      <4> QED BY <3>3, <4>1, <4>2
    <3>5. BeliefIsRecent'
      <4> SUFFICES ASSUME NEW p \in Process, Confident(p)'
                   PROVE  holder' = p /\ TTL - left' <= Allowed(p)'
        BY DEF BeliefIsRecent
      <4>1. Confident(p) /\ Live(p)
        BY <3>2 DEF Confident
      <4>2. holder = p /\ ~Expired /\ TTL - left <= Allowed(p)
        BY <4>1, RecentIsTrue DEF IInv, BeliefIsRecent
      <4>3. holder' = p /\ left' \in {left, TTL}
        BY <3>4, <4>1, <4>2
      <4> QED BY <3>2, <4>2, <4>3, <1>i, AgeKept
    <3>6. WonIsRecent'
      <4> SUFFICES ASSUME NEW p \in Process, Calling(p)', stmt'[p] = "won"
                   PROVE  holder' = p /\ TTL - left' <= clk'[p]
        BY DEF WonIsRecent
      <4>1. Calling(p) /\ stmt[p] = "won" /\ Live(p)
        BY <3>1, <3>2 DEF Calling, Live, Looping
      <4>2. holder = p /\ ~Expired /\ TTL - left <= clk[p]
        BY <4>1, WonIsTrue DEF IInv, WonIsRecent
      <4>3. holder' = p /\ left' \in {left, TTL} /\ clk' = clk
        BY <3>1, <3>4, <4>1, <4>2
      <4> QED BY <4>2, <4>3, <1>i, <1>c, AgeKept
    <3>7. LateDeleteIsOfTheGone'
      BY <2>11, <1>t DEF LateStatement, IInv, LateDeleteIsOfTheGone, TypeOK
    <3> QED BY <1>t, <3>1, <3>2, <3>5, <3>6, <3>7
            DEF IInv, CallsAreShort, FirstCallIsNotHeld
  <2>12. CASE Crash(q)
    BY <2>12, <1>t DEF Crash, Abandon, dbVars, IInv, TypeOK, BeliefIsRecent, WonIsRecent,
       CallsAreShort, FirstCallIsNotHeld, LateDeleteIsOfTheGone, Confident, Live,
       Calling, Looping, Allowed
  <2> QED BY <1>2, <2>1, <2>2, <2>3, <2>4, <2>5, <2>6, <2>7, <2>8, <2>9,
             <2>10, <2>11, <2>12 DEF Step
<1>3. CASE UNCHANGED vars
  BY <1>3, <1>t DEF vars, IInv, BeliefIsRecent, WonIsRecent, CallsAreShort,
     FirstCallIsNotHeld, LateDeleteIsOfTheGone, Confident, Live, Calling, Allowed
<1> QED BY <1>1, <1>2, <1>3 DEF Next

\* The invariant holds for ever.
LEMMA Inductive == Spec => []IInv
  BY InitIInv, NextIInv, PTL DEF Spec

\* For every set of processes and all such timings, a live process whose
\* flag is set and that missed at most one renewal owns the unexpired row.
THEOREM BeliefCorrect == Spec => []ConfidentBeliefIsTrue
<1>1. IInv => ConfidentBeliefIsTrue
  BY RecentIsTrue DEF ConfidentBeliefIsTrue
<1> QED BY Inductive, <1>1, PTL

-----------------------------------------------------------------------------
(* The renew loops implement exclusive tenures *)

\* The leader, when there is one, is the owner of the row and the only
\* confident process.
LeaderIsOwner ==
    \/ Leader = NoOne /\ \A p \in Process : ~Confident(p)
    \/ /\ Leader \in Process /\ Confident(Leader)
       /\ Leader = Owner /\ ~Expired
       /\ \A p \in Process : Confident(p) => p = Leader

\* Who leads by right owns the row.
LEMMA LeaderOwns == IInv => LeaderIsOwner
<1> SUFFICES ASSUME IInv PROVE LeaderIsOwner
  OBVIOUS
<1>1. CASE \A p \in Process : ~Confident(p)
  <2>1. Leader = NoOne
    BY <1>1 DEF Leader
  <2> QED BY <1>1, <2>1 DEF LeaderIsOwner
<1>2. CASE \E p \in Process : Confident(p)
  <2>1. Leader \in Process /\ Confident(Leader)
    BY <1>2 DEF Leader
  <2>2. holder = Leader /\ ~Expired
    BY <2>1, RecentIsTrue
  <2>3. \A p \in Process : Confident(p) => p = holder
    BY RecentIsTrue
  <2> QED BY <2>1, <2>2, <2>3 DEF LeaderIsOwner, Owner
<1> QED BY <1>1, <1>2

\* A step either leaves the row alone or leaves every process with its
\* flag and its confidence; and it never hands an unexpired row to another.
LEMMA RowOrConfidence ==
    ASSUME TypeOK, Next
    PROVE  /\ \/ UNCHANGED dbVars
              \/ UNCHANGED held /\ \A p \in Process : Confident(p)' <=> Confident(p)
           /\ Owner = NoOne \/ Owner' = NoOne \/ Owner' = Owner
<1> USE NoOneAssumption, TimingAssumption
<1>1. CASE Tick
  BY <1>1 DEF Tick, Confident, Live, Owner, Expired, TypeOK
<1>2. ASSUME NEW q \in Process, Step(q)
      PROVE  /\ \/ UNCHANGED dbVars
                \/ UNCHANGED held /\ \A p \in Process : Confident(p)' <=> Confident(p)
             /\ Owner = NoOne \/ Owner' = NoOne \/ Owner' = Owner
  <2>1. CASE UNCHANGED dbVars
    BY <2>1 DEF dbVars, Owner, Expired
  <2>2. CASE (Upsert(q) \/ Delete(q)) /\ UNCHANGED <<held, misses>>
             /\ \A p \in Process : Live(p)' <=> Live(p)
    <3>1. \A p \in Process : Confident(p)' <=> Confident(p)
      BY <2>2 DEF Confident
    <3>2. Owner = NoOne \/ Owner' = NoOne \/ Owner' = Owner
      BY <2>2 DEF Upsert, Delete, Winnable, Owner, Expired, dbVars, TypeOK
    <3> QED BY <2>2, <3>1, <3>2
  <2>3. CASE Execute(q)
    <3>1. Upsert(q) /\ UNCHANGED <<pc, held, misses>>
      BY <2>3 DEF Execute
    <3> QED BY <3>1, <2>2 DEF Live
  <2>4. CASE LateStatement(q)
    <3>1. (Upsert(q) \/ Delete(q)) /\ UNCHANGED <<pc, held, misses>>
      BY <2>4 DEF LateStatement
    <3> QED BY <3>1, <2>2 DEF Live
  <2>5. CASE Released(q)
    <3>1. Delete(q) /\ UNCHANGED <<held, misses>>
      BY <2>5 DEF Released
    <3>2. \A p \in Process : Live(p)' <=> Live(p)
      BY <2>5 DEF Released, Live, Looping, TypeOK
    <3> QED BY <3>1, <3>2, <2>2
  <2> QED BY <1>2, <2>1, <2>3, <2>4, <2>5 DEF Step, Start, Renew, Begin, Answer, Fail,
             BackToSelect, Stop, ExitLoop, Release, ReleaseFails, Crash, dbVars
<1> QED BY <1>1, <1>2 DEF Next

\* A flag changes only in the process that takes the step: it is set
\* together with confidence and cleared together with it.
LEMMA FlagOrNothing ==
    ASSUME TypeOK, Next
    PROVE  \/ UNCHANGED held
           \/ \E q \in Process :
                /\ \A p \in Process \ {q} : /\ held'[p] = held[p]
                                            /\ Confident(p)' <=> Confident(p)
                /\ \/ held'[q] /\ Confident(q)'
                   \/ ~held'[q] /\ ~Confident(q)'
<1>1. CASE Tick
  BY <1>1 DEF Tick
<1>2. ASSUME NEW q \in Process, Answer(q) \/ Crash(q)
      PROVE  /\ \A p \in Process \ {q} : held'[p] = held[p] /\ (Confident(p)' <=> Confident(p))
             /\ (held'[q] /\ Confident(q)') \/ (~held'[q] /\ ~Confident(q)')
  BY <1>2 DEF Answer, Crash, BackToSelect, Confident, Live, Looping, TypeOK
<1>3. ASSUME NEW q \in Process, Step(q) PROVE Answer(q) \/ Crash(q) \/ UNCHANGED held
  BY <1>3 DEF Step, Start, Renew, Begin, Execute, Fail, BackToSelect, Stop, ExitLoop,
     Release, Released, ReleaseFails, LateStatement
<1> QED BY <1>1, <1>2, <1>3 DEF Next

\* Every step of the lease is a step of tenures or leaves them alone.
LEMMA TenureStep ==
    ASSUME IInv, IInv', [Next]_vars, LeaderIsOwner, LeaderIsOwner'
    PROVE  [Tenure!Next]_(Tenure!vars)
<1> USE NoOneAssumption
<1>o. Owner \in Process \cup {NoOne} /\ Owner' \in Process \cup {NoOne}
  BY DEF IInv, TypeOK, Owner
<1>b. \A p \in Process : Confident(p) => p \in Believes
  BY DEF Confident, Believes
<1>n. \A p \in Process : Confident(p)' => p \in Believes'
  BY DEF Confident, Believes
<1>1. CASE UNCHANGED vars
  BY <1>1 DEF vars, Tenure!vars, Owner, Leader, Confident, Live, Expired, Believes
<1>2. CASE Next /\ UNCHANGED dbVars /\ UNCHANGED held
  <2>1. Owner' = Owner /\ Believes' = Believes
    BY <1>2 DEF dbVars, Owner, Expired, Believes
  <2>2. CASE Leader = NoOne /\ Leader' # NoOne
    <3>1. Leader' \in Process /\ Leader' = Owner /\ Leader' \in Believes
      BY <2>1, <2>2, <1>n DEF LeaderIsOwner
    <3>2. Tenure!Act(Owner)
      BY <2>1, <2>2, <3>1 DEF Tenure!Act
    <3> QED BY <3>1, <3>2 DEF Tenure!Next, Tenure!Step
  <2>3. CASE Leader # NoOne /\ Leader' = NoOne
    BY <2>1, <2>3 DEF LeaderIsOwner, Tenure!LoseTouch, Tenure!Next, Tenure!Step
  <2> QED BY <2>1, <2>2, <2>3 DEF LeaderIsOwner, Tenure!vars
<1>3. CASE Next /\ UNCHANGED dbVars /\ ~ UNCHANGED held
  <2>1. PICK q \in Process :
          /\ \A p \in Process \ {q} : held'[p] = held[p] /\ (Confident(p)' <=> Confident(p))
          /\ (held'[q] /\ Confident(q)') \/ (~held'[q] /\ ~Confident(q)')
    BY <1>3, FlagOrNothing DEF IInv
  <2>2. Owner' = Owner
    BY <1>3 DEF dbVars, Owner, Expired
  <2>3. CASE held'[q] /\ Confident(q)'
    <3>1. Believes' = Believes \cup {q}
      BY <2>1, <2>3 DEF Believes
    <3>2. Leader' = q /\ Owner = q
      BY <2>2, <2>3 DEF LeaderIsOwner
    <3>3. CASE Leader = NoOne
      <4>1. Tenure!Act(q)
        BY <2>2, <3>1, <3>2, <3>3 DEF Tenure!Act
      <4> QED BY <4>1 DEF Tenure!Next, Tenure!Step
    <3>4. CASE Leader # NoOne
      <4>1. Leader = q /\ q \in Believes
        BY <3>2, <3>4, <1>b DEF LeaderIsOwner
      <4> QED BY <2>2, <3>1, <3>2, <4>1 DEF Tenure!vars
    <3> QED BY <3>3, <3>4
  <2>4. CASE ~held'[q] /\ ~Confident(q)'
    <3>1. Believes' = Believes \ {q}
      BY <2>1, <2>4 DEF Believes
    <3>2. CASE Leader = q
      <4>1. Leader' = NoOne
        BY <2>2, <2>4, <3>2 DEF LeaderIsOwner
      <4>2. Tenure!StepDown(q)
        BY <2>2, <3>1, <3>2, <4>1 DEF Tenure!StepDown
      <4> QED BY <4>2 DEF Tenure!Next, Tenure!Step
    <3>3. CASE Leader # q
      <4>1. Leader' = Leader
        <5>1. CASE Leader = NoOne
          BY <2>1, <2>4, <5>1 DEF LeaderIsOwner
        <5>2. CASE Leader # NoOne
          <6>1. Leader \in Process \ {q} /\ Confident(Leader)
            BY <3>3, <5>2 DEF LeaderIsOwner
          <6>2. \E p \in Process \ {q} : p = Leader /\ Confident(p)'
            BY <2>1, <6>1
          <6> QED BY <6>2 DEF LeaderIsOwner
        <5> QED BY <5>1, <5>2
      <4>2. CASE q \in Believes
        <5>1. Tenure!Forget(q)
          BY <2>2, <3>1, <3>3, <4>1, <4>2 DEF Tenure!Forget
        <5> QED BY <5>1 DEF Tenure!Next, Tenure!Step
      <4>3. CASE q \notin Believes
        <5>1. Believes' = Believes
          BY <3>1, <4>3
        <5> QED BY <2>2, <4>1, <5>1 DEF Tenure!vars
      <4> QED BY <4>2, <4>3
    <3> QED BY <3>2, <3>3
  <2> QED BY <2>1, <2>3, <2>4
<1>4. CASE Next /\ UNCHANGED held /\ \A p \in Process : Confident(p)' <=> Confident(p)
  <2>1. Owner = NoOne \/ Owner' = NoOne \/ Owner' = Owner
    BY <1>4, RowOrConfidence DEF IInv
  <2>2. Believes' = Believes
    BY <1>4 DEF Believes
  <2>3. CASE Leader = NoOne
    <3>1. Leader' = NoOne
      BY <1>4, <2>3 DEF LeaderIsOwner
    <3> QED BY <2>1, <2>2, <2>3, <3>1, <1>o
            DEF Tenure!Next, Tenure!Step, Tenure!Grant, Tenure!Vacate, Tenure!vars
  <2>4. CASE Leader # NoOne
    <3>1. Leader' = Leader
      BY <1>4 DEF Leader
    <3> QED BY <2>2, <2>4, <3>1 DEF LeaderIsOwner, Tenure!vars
  <2> QED BY <2>3, <2>4
<1> QED BY <1>1, <1>2, <1>3, <1>4, RowOrConfidence DEF IInv

\* Leadership is handed over only through a vacant row, and the row never
\* ends under a leader that missed at most one renewal: SchedulerLease
\* implements LeaderTenure.
THEOREM ImplementsTenure == Spec => TenureSpec
<1>1. Init => Tenure!Init
  BY DEF Init, Tenure!Init, Owner, Leader, Confident, Live, Looping, Expired, Believes
<1>2. IInv /\ IInv' /\ LeaderIsOwner /\ LeaderIsOwner' /\ [Next]_vars
          => [Tenure!Next]_(Tenure!vars)
  BY TenureStep
<1> QED BY <1>1, <1>2, Inductive, LeaderOwns, PTL DEF Spec, TenureSpec, Tenure!Spec
=============================================================================
