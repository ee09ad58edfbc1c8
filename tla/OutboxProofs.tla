------------------------------ MODULE OutboxProofs -------------------------------
(***************************************************************************)
(* For any number of flushers, events, sinks and faults and any batch size, *)
(* the outbox of module Outbox keeps the promise of module AtLeastOnce.     *)
(***************************************************************************)
EXTENDS Outbox, TLAPS

Rows == {"none", "open", "gone", "pending", "consumed", "dead"}

(* A locked row is pending, and only one flusher has it.                   *)
Locks ==
    /\ \A f \in Flusher : \A e \in batch[f] : row[e] = "pending"
    /\ \A f, g \in Flusher : f # g => batch[f] \intersect batch[g] = {}

(* A flusher between batches holds nothing, and starts at the first sink.  *)
Idle ==
    \A f \in Flusher :
        phase[f] # "working" => batch[f] = {} /\ DOMAIN mark[f] = {} /\ sink[f] = 1

(* What a flusher wrote is justified by what the sinks answered.           *)
MarksJustified ==
    \A f \in Flusher : \A e \in DOMAIN mark[f] :
        /\ mark[f][e] = "consumed" => heard[e] = 1 .. Sinks
        /\ mark[f][e] = "dead" => e \in condemned

(* The sinks before the one that is asked have accepted the current row.   *)
SinksInOrder ==
    \A f \in Flusher, e \in Event : Current(f, e) => 1 .. sink[f] - 1 \subseteq heard[e]

OutboxInv == TypeOK /\ Locks /\ Idle /\ MarksJustified /\ SinksInOrder

-----------------------------------------------------------------------------
\* At first the table is empty and the flushers are idle.
LEMMA InitOutboxInv == Init => OutboxInv
<1> SUFFICES ASSUME Init PROVE OutboxInv
    OBVIOUS
<1>1. DOMAIN << >> = {}
    OBVIOUS
<1>2. TypeOK
    BY <1>1, OutboxAssumption DEF Init, TypeOK, Event
<1>3. Locks /\ Idle /\ MarksJustified
    BY <1>1 DEF Init, Locks, Idle, MarksJustified
<1>4. SinksInOrder
    BY DEF Init, SinksInOrder, Current
<1> QED
    BY <1>2, <1>3, <1>4 DEF OutboxInv

(* A producer's step touches a row that no flusher can have.               *)
LEMMA ProducerKeepsInv ==
    ASSUME OutboxInv, NEW e \in Event, Enqueue(e) \/ CommitBusiness(e) \/ RollbackBusiness(e)
    PROVE  OutboxInv'
<1>1. /\ row[e] \in {"none", "open"}
      /\ \E st \in {"open", "pending", "gone"} : SetRow(e, st)
    BY DEF Enqueue, CommitBusiness, RollbackBusiness
<1>2. UNCHANGED <<phase, batch, mark, sink, heard, condemned, faults>>
    BY <1>1 DEF SetRow, flusher, world
<1>3. /\ row' \in [Event -> Rows]
      /\ \A d \in Event : d # e => row'[d] = row[d]
    BY <1>1 DEF SetRow, OutboxInv, TypeOK, Rows
<1>4. TypeOK'
    BY <1>2, <1>3 DEF OutboxInv, TypeOK, Rows
<1>5. Locks'
    <2>1. \A f \in Flusher : e \notin batch[f]
        BY <1>1 DEF OutboxInv, Locks
    <2> QED
        BY <2>1, <1>2, <1>3 DEF OutboxInv, Locks, TypeOK
<1>6. (Idle /\ MarksJustified)'
    BY <1>2 DEF OutboxInv, Idle, MarksJustified
<1>7. SinksInOrder'
    BY <1>2 DEF OutboxInv, SinksInOrder, Current
<1> QED
    BY <1>4, <1>5, <1>6, <1>7 DEF OutboxInv

(* A claim takes rows that nobody holds.                                   *)
LEMMA ClaimKeepsInv ==
    ASSUME OutboxInv, NEW f \in Flusher, NEW B \in SUBSET Event, Claim(f, B)
    PROVE  OutboxInv'
<1> USE DEF OutboxInv
<1>1. /\ phase[f] = "draining"
      /\ phase' = [phase EXCEPT ![f] = "working"]
      /\ batch' = [batch EXCEPT ![f] = B]
      /\ UNCHANGED <<row, mark, sink, heard, condemned, faults>>
    BY DEF Claim, world
<1>2. \A e \in B : row[e] = "pending" /\ \A g \in Flusher : e \notin batch[g]
    BY DEF Claim, Oldest, Available
<1>3. batch[f] = {} /\ DOMAIN mark[f] = {} /\ sink[f] = 1
    BY <1>1 DEF Idle
<1>4. TypeOK'
    BY <1>1, <1>3 DEF TypeOK
<1>5. Locks'
    BY <1>1, <1>2 DEF Locks, TypeOK
<1>6. Idle'
    BY <1>1 DEF Idle, TypeOK
<1>7. MarksJustified'
    BY <1>1 DEF MarksJustified
<1>8. SinksInOrder'
    <2> SUFFICES ASSUME NEW g \in Flusher, NEW e \in Event, Current(g, e)'
                 PROVE  1 .. sink[g] - 1 \subseteq heard[e]
        BY <1>1 DEF SinksInOrder
    <2>1. CASE g = f
        BY <2>1, <1>3
    <2>2. CASE g # f
        <3>1. Current(g, e)
            BY <2>2, <1>1 DEF Current, TypeOK
        <3> QED
            BY <3>1 DEF SinksInOrder
    <2> QED
        BY <2>1, <2>2
<1> QED
    BY <1>4, <1>5, <1>6, <1>7, <1>8

(* Falling asleep and waking touch nothing but the phase.                  *)
LEMMA RestKeepsInv ==
    ASSUME OutboxInv, NEW f \in Flusher, Sleep(f) \/ ClaimFails(f) \/ Poll(f)
    PROVE  OutboxInv'
<1> USE DEF OutboxInv
<1>1. /\ phase[f] # "working"
      /\ \E ph \in {"asleep", "draining"} : phase' = [phase EXCEPT ![f] = ph]
      /\ UNCHANGED <<row, batch, mark, sink, heard, condemned>>
      /\ faults' \in 0 .. MaxFaults
    BY OutboxAssumption DEF Sleep, ClaimFails, Poll, world, TypeOK
<1>2. TypeOK'
    BY <1>1 DEF TypeOK
<1>3. (Locks /\ MarksJustified)'
    BY <1>1 DEF Locks, MarksJustified
<1>4. Idle'
    BY <1>1 DEF Idle, TypeOK
<1>5. SinksInOrder'
    <2> SUFFICES ASSUME NEW g \in Flusher, NEW e \in Event, Current(g, e)'
                 PROVE  1 .. sink[g] - 1 \subseteq heard[e]
        BY <1>1 DEF SinksInOrder
    <2>1. Current(g, e)
        BY <1>1 DEF Current, TypeOK
    <2> QED
        BY <2>1 DEF SinksInOrder
<1> QED
    BY <1>2, <1>3, <1>4, <1>5

(* Of two rows of a batch one comes first, so a flusher has one current row. *)
LEMMA OneCurrent ==
    ASSUME NEW f \in Flusher, NEW d \in Event, NEW e \in Event, Current(f, d), Current(f, e)
    PROVE  d = e
BY OutboxAssumption DEF Current, Event

(* Being through with a row adds its mark and touches no other mark.       *)
LEMMA ThroughWrites ==
    ASSUME DOMAIN mark = Flusher, NEW f \in Flusher, NEW e, NEW m, Through(f, e, m)
    PROVE  /\ DOMAIN mark'[f] = DOMAIN mark[f] \union {e}
           /\ mark'[f][e] = m
           /\ \A d \in DOMAIN mark[f] : d # e => mark'[f][d] = mark[f][d]
           /\ sink' = [sink EXCEPT ![f] = 1]
           /\ DOMAIN mark' = Flusher
<1>1. mark'[f] = [d \in DOMAIN mark[f] \union {e} |-> IF d = e THEN m ELSE mark[f][d]]
    BY DEF Through
<1> QED
    BY <1>1 DEF Through

(* A sink that accepts is heard of, and what it justifies may be written.  *)
LEMMA AcceptKeepsInv ==
    ASSUME OutboxInv, NEW f \in Flusher, NEW e \in Event, Accept(f, e)
    PROVE  OutboxInv'
<1> USE DEF OutboxInv
<1>1. /\ Current(f, e)
      /\ heard' = [heard EXCEPT ![e] = @ \union {sink[f]}]
      /\ UNCHANGED <<row, phase, batch, condemned, faults>>
      /\ \/ sink[f] = Sinks /\ Through(f, e, "consumed")
         \/ sink[f] < Sinks /\ sink' = [sink EXCEPT ![f] = @ + 1] /\ mark' = mark
    BY DEF Accept
<1>2. /\ e \in batch[f] /\ e \notin DOMAIN mark[f] /\ phase[f] = "working"
      /\ sink[f] \in 1 .. Sinks /\ Sinks \in Nat \ {0}
      /\ 1 .. sink[f] - 1 \subseteq heard[e]
    BY <1>1, OutboxAssumption DEF Current, TypeOK, SinksInOrder
<1>3. /\ heard'[e] = heard[e] \union {sink[f]}
      /\ \A d \in Event : heard[d] \subseteq heard'[d] /\ heard'[d] \subseteq 1 .. Sinks
      /\ heard' \in [Event -> SUBSET (1 .. Sinks)]
    BY <1>1, <1>2 DEF TypeOK
<1>4. 1 .. sink[f] \subseteq heard'[e]
    BY <1>2, <1>3
<1>5. \A g \in Flusher : g # f => mark'[g] = mark[g] /\ sink'[g] = sink[g]
    BY <1>1 DEF Through, TypeOK
<1>6. (Locks /\ Idle)'
    <2>1. Locks'
        BY <1>1 DEF Locks
    <2>2. Idle'
        BY <1>1, <1>2, <1>5 DEF Idle
    <2> QED
        BY <2>1, <2>2
<1>7. CASE sink[f] = Sinks /\ Through(f, e, "consumed")
    <2>1. /\ DOMAIN mark'[f] = DOMAIN mark[f] \union {e}
          /\ mark'[f][e] = "consumed"
          /\ \A d \in DOMAIN mark[f] : mark'[f][d] = mark[f][d]
          /\ sink' = [sink EXCEPT ![f] = 1]
          /\ DOMAIN mark' = Flusher
        BY <1>7, <1>2, ThroughWrites DEF TypeOK
    <2>2. TypeOK'
        <3>1. \A g \in Flusher : DOMAIN mark'[g] \subseteq batch[g]
            BY <1>2, <1>5, <2>1 DEF TypeOK
        <3>2. \A g \in Flusher : \A d \in DOMAIN mark'[g] :
                mark'[g][d] \in {"consumed", "pending", "dead"}
            BY <1>5, <2>1 DEF TypeOK
        <3>3. sink' \in [Flusher -> 1 .. Sinks]
            BY <1>2, <2>1 DEF TypeOK
        <3> QED
            BY <1>1, <1>3, <2>1, <3>1, <3>2, <3>3 DEF TypeOK
    <2>3. MarksJustified'
        <3> SUFFICES ASSUME NEW g \in Flusher, NEW d \in DOMAIN mark'[g]
                     PROVE  /\ mark'[g][d] = "consumed" => heard'[d] = 1 .. Sinks
                            /\ mark'[g][d] = "dead" => d \in condemned
            BY <1>1 DEF MarksJustified
        <3>1. CASE g = f /\ d = e
            BY <3>1, <2>1, <1>3, <1>4, <1>7
        <3>2. CASE ~(g = f /\ d = e)
            <4>1. d \in DOMAIN mark[g] /\ mark'[g][d] = mark[g][d] /\ d \in Event
                BY <3>2, <2>1, <1>5 DEF TypeOK
            <4> QED
                BY <4>1, <1>3 DEF MarksJustified
        <3> QED
            BY <3>1, <3>2
    <2>4. SinksInOrder'
        <3> SUFFICES ASSUME NEW g \in Flusher, NEW d \in Event, Current(g, d)'
                     PROVE  1 .. sink'[g] - 1 \subseteq heard'[d]
            BY DEF SinksInOrder
        <3>1. CASE g = f
            BY <3>1, <2>1 DEF TypeOK
        <3>2. CASE g # f
            <4>1. Current(g, d)
                BY <3>2, <1>1, <1>5 DEF Current
            <4> QED
                BY <4>1, <3>2, <1>3, <1>5 DEF SinksInOrder
        <3> QED
            BY <3>1, <3>2
    <2> QED
        BY <1>6, <2>2, <2>3, <2>4
<1>8. CASE sink[f] < Sinks /\ sink' = [sink EXCEPT ![f] = @ + 1] /\ mark' = mark
    <2>1. TypeOK'
        BY <1>1, <1>2, <1>3, <1>8 DEF TypeOK
    <2>2. MarksJustified'
        <3> SUFFICES ASSUME NEW g \in Flusher, NEW d \in DOMAIN mark'[g]
                     PROVE  /\ mark'[g][d] = "consumed" => heard'[d] = 1 .. Sinks
                            /\ mark'[g][d] = "dead" => d \in condemned'
            BY DEF MarksJustified
        <3>1. d \in DOMAIN mark[g] /\ mark'[g][d] = mark[g][d]
            BY <1>8
        <3>2. /\ mark[g][d] = "consumed" => heard[d] = 1 .. Sinks
              /\ mark[g][d] = "dead" => d \in condemned
            BY <3>1 DEF MarksJustified
        <3>3. d \in Event
            BY <3>1 DEF TypeOK
        <3> QED
            BY <3>1, <3>2, <3>3, <1>1, <1>3
    <2>3. SinksInOrder'
        <3> SUFFICES ASSUME NEW g \in Flusher, NEW d \in Event, Current(g, d)'
                     PROVE  1 .. sink'[g] - 1 \subseteq heard'[d]
            BY DEF SinksInOrder
        <3>1. Current(g, d)
            BY <1>1, <1>8 DEF Current
        <3>2. CASE g = f
            <4>1. d = e
                BY <3>1, <3>2, <1>1, OneCurrent
            <4>2. sink'[g] - 1 = sink[f]
                BY <3>2, <1>2, <1>8 DEF TypeOK
            <4> QED
                BY <4>1, <4>2, <1>4
        <3>3. CASE g # f
            BY <3>1, <3>3, <1>3, <1>5 DEF SinksInOrder
        <3> QED
            BY <3>2, <3>3
    <2> QED
        BY <1>6, <2>1, <2>2, <2>3
<1> QED
    BY <1>1, <1>7, <1>8

(* A row that fails is written back as pending, one that is condemned as dead. *)
LEMMA RefusalKeepsInv ==
    ASSUME OutboxInv, NEW f \in Flusher, NEW e \in Event, Fail(f, e) \/ GiveUp(f, e)
    PROVE  OutboxInv'
<1> USE DEF OutboxInv
<1>1. /\ Current(f, e)
      /\ UNCHANGED <<row, phase, batch, heard>>
      /\ condemned \subseteq condemned' /\ condemned' \subseteq Event
      /\ faults' \in 0 .. MaxFaults
      /\ \/ Through(f, e, "pending")
         \/ Through(f, e, "dead") /\ e \in condemned'
    BY OutboxAssumption DEF Fail, GiveUp, world, TypeOK
<1>2. e \in batch[f] /\ phase[f] = "working" /\ Sinks \in Nat \ {0}
    BY <1>1, OutboxAssumption DEF Current
<1>3. \A g \in Flusher : g # f => mark'[g] = mark[g] /\ sink'[g] = sink[g]
    BY <1>1 DEF Through, TypeOK
<1>4. /\ DOMAIN mark'[f] = DOMAIN mark[f] \union {e}
      /\ \/ mark'[f][e] = "pending"
         \/ mark'[f][e] = "dead" /\ e \in condemned'
      /\ \A d \in DOMAIN mark[f] : d # e => mark'[f][d] = mark[f][d]
      /\ sink' = [sink EXCEPT ![f] = 1]
      /\ DOMAIN mark' = Flusher
    <2>1. CASE Through(f, e, "pending")
        BY <2>1, ThroughWrites DEF TypeOK
    <2>2. CASE Through(f, e, "dead") /\ e \in condemned'
        BY <2>2, ThroughWrites DEF TypeOK
    <2> QED
        BY <1>1, <2>1, <2>2
<1>5. TypeOK'
    <2>1. \A g \in Flusher : DOMAIN mark'[g] \subseteq batch[g]
        BY <1>2, <1>3, <1>4 DEF TypeOK
    <2>2. \A g \in Flusher : \A d \in DOMAIN mark'[g] :
            mark'[g][d] \in {"consumed", "pending", "dead"}
        BY <1>3, <1>4 DEF TypeOK
    <2>3. sink' \in [Flusher -> 1 .. Sinks]
        BY <1>2, <1>4 DEF TypeOK
    <2> QED
        BY <1>1, <1>4, <2>1, <2>2, <2>3 DEF TypeOK
<1>6. Locks'
    BY <1>1 DEF Locks
<1>7. Idle'
    BY <1>1, <1>2, <1>3 DEF Idle
<1>8. MarksJustified'
    <2> SUFFICES ASSUME NEW g \in Flusher, NEW d \in DOMAIN mark'[g]
                 PROVE  /\ mark'[g][d] = "consumed" => heard[d] = 1 .. Sinks
                        /\ mark'[g][d] = "dead" => d \in condemned'
        BY <1>1 DEF MarksJustified
    <2>1. CASE g = f /\ d = e
        BY <2>1, <1>4
    <2>2. CASE ~(g = f /\ d = e)
        <3>1. d \in DOMAIN mark[g] /\ mark'[g][d] = mark[g][d]
            BY <2>2, <1>3, <1>4
        <3> QED
            BY <3>1, <1>1 DEF MarksJustified
    <2> QED
        BY <2>1, <2>2
<1>9. SinksInOrder'
    <2> SUFFICES ASSUME NEW g \in Flusher, NEW d \in Event, Current(g, d)'
                 PROVE  1 .. sink'[g] - 1 \subseteq heard[d]
        BY <1>1 DEF SinksInOrder
    <2>1. CASE g = f
        BY <2>1, <1>4 DEF TypeOK
    <2>2. CASE g # f
        <3>1. Current(g, d)
            BY <2>2, <1>1, <1>3 DEF Current
        <3> QED
            BY <3>1, <2>2, <1>3 DEF SinksInOrder
    <2> QED
        BY <2>1, <2>2
<1> QED
    BY <1>5, <1>6, <1>7, <1>8, <1>9

(* A batch that ends frees its rows, with the marks or without them.       *)
LEMMA EndKeepsInv ==
    ASSUME OutboxInv, NEW f \in Flusher, Commit(f) \/ LoseBatch(f)
    PROVE  OutboxInv'
<1> USE DEF OutboxInv
<1>1. /\ \E ph \in {"asleep", "draining"} : EndBatch(f, ph)
      /\ faults' \in 0 .. MaxFaults
    BY OutboxAssumption DEF Commit, LoseBatch, TypeOK
<1>2. /\ \E ph \in {"asleep", "draining"} : phase' = [phase EXCEPT ![f] = ph]
      /\ batch' = [batch EXCEPT ![f] = {}]
      /\ mark' = [mark EXCEPT ![f] = << >>]
      /\ sink' = [sink EXCEPT ![f] = 1]
      /\ UNCHANGED <<heard, condemned>>
    BY <1>1 DEF EndBatch, world
<1>3. /\ row' \in [Event -> Rows]
      /\ \A d \in Event : d \notin batch[f] => row'[d] = row[d]
    <2>1. CASE LoseBatch(f)
        BY <2>1 DEF LoseBatch, TypeOK, Rows
    <2>2. CASE Commit(f)
        <3>1. /\ DOMAIN mark[f] = batch[f]
              /\ row' = [d \in Event |-> IF d \in batch[f] THEN mark[f][d] ELSE row[d]]
            BY <2>2 DEF Commit
        <3>2. \A d \in batch[f] : mark[f][d] \in Rows
            BY <3>1 DEF TypeOK, Rows
        <3> QED
            BY <3>1, <3>2 DEF TypeOK, Rows
    <2> QED
        BY <2>1, <2>2
<1>4. /\ DOMAIN << >> = {}
      /\ batch'[f] = {} /\ mark'[f] = << >> /\ sink'[f] = 1 /\ phase'[f] # "working"
      /\ \A g \in Flusher : g # f => /\ batch'[g] = batch[g] /\ mark'[g] = mark[g]
                                     /\ sink'[g] = sink[g] /\ phase'[g] = phase[g]
    BY <1>2 DEF TypeOK
<1>5. TypeOK'
    <2>1. Sinks \in Nat \ {0}
        BY OutboxAssumption
    <2>2. \A g \in Flusher :
            /\ DOMAIN mark'[g] \subseteq batch'[g]
            /\ \A d \in DOMAIN mark'[g] : mark'[g][d] \in {"consumed", "pending", "dead"}
        BY <1>4 DEF TypeOK
    <2>3. /\ phase' \in [Flusher -> {"asleep", "draining", "working"}]
          /\ batch' \in [Flusher -> SUBSET Event]
          /\ sink' \in [Flusher -> 1 .. Sinks]
        BY <1>2, <2>1 DEF TypeOK
    <2> QED
        BY <1>1, <1>2, <1>3, <2>2, <2>3 DEF TypeOK, Rows
<1>6. Locks'
    <2>1. \A g \in Flusher : \A d \in batch'[g] : d \in Event /\ row'[d] = "pending"
        <3>1. \A g \in Flusher : batch'[g] \subseteq Event
            BY <1>5 DEF TypeOK
        <3>2. \A g \in Flusher : g # f => \A d \in batch[g] : row[d] = "pending" /\ d \notin batch[f]
            BY DEF Locks
        <3>3. \A g \in Flusher : \A d \in batch'[g] : g # f /\ d \in batch[g]
            BY <1>4
        <3> QED
            BY <1>3, <3>1, <3>2, <3>3
    <2>2. \A g, h \in Flusher : g # h => batch'[g] \intersect batch'[h] = {}
        BY <1>4 DEF Locks
    <2> QED
        BY <2>1, <2>2 DEF Locks
<1>7. Idle'
    BY <1>4 DEF Idle
<1>8. MarksJustified'
    BY <1>2, <1>4 DEF MarksJustified
<1>9. SinksInOrder'
    <2> SUFFICES ASSUME NEW g \in Flusher, NEW d \in Event, Current(g, d)'
                 PROVE  1 .. sink'[g] - 1 \subseteq heard[d]
        BY <1>2 DEF SinksInOrder
    <2>1. g # f /\ Current(g, d)
        BY <1>4 DEF Current
    <2> QED
        BY <2>1, <1>4 DEF SinksInOrder
<1> QED
    BY <1>5, <1>6, <1>7, <1>8, <1>9

-----------------------------------------------------------------------------
\* Every step keeps the invariant.
LEMMA NextKeepsInv == OutboxInv /\ [Next]_vars => OutboxInv'
<1> SUFFICES ASSUME OutboxInv, [Next]_vars PROVE OutboxInv'
    OBVIOUS
<1>1. CASE UNCHANGED vars
    <2>1. UNCHANGED <<row, phase, batch, mark, sink, heard, condemned, faults>>
        BY <1>1 DEF vars
    <2> QED
        <3>1. TypeOK'
            BY <2>1 DEF OutboxInv, TypeOK
        <3>2. Locks' /\ Idle'
            BY <2>1 DEF OutboxInv, Locks, Idle
        <3>3. MarksJustified'
            BY <2>1 DEF OutboxInv, MarksJustified
        <3>4. SinksInOrder'
            BY <2>1 DEF OutboxInv, SinksInOrder, Current
        <3> QED
            BY <3>1, <3>2, <3>3, <3>4 DEF OutboxInv
<1>2. ASSUME NEW e \in Event, Enqueue(e) \/ CommitBusiness(e) \/ RollbackBusiness(e)
      PROVE  OutboxInv'
    BY <1>2, ProducerKeepsInv
<1>3. ASSUME NEW f \in Flusher,
             Sleep(f) \/ ClaimFails(f) \/ Poll(f) \/ Commit(f) \/ LoseBatch(f)
      PROVE  OutboxInv'
    BY <1>3, RestKeepsInv, EndKeepsInv
<1>4. ASSUME NEW f \in Flusher, NEW B \in SUBSET Event, Claim(f, B)
      PROVE  OutboxInv'
    BY <1>4, ClaimKeepsInv
<1>5. ASSUME NEW f \in Flusher, NEW e \in Event, Accept(f, e) \/ Fail(f, e) \/ GiveUp(f, e)
      PROVE  OutboxInv'
    BY <1>5, AcceptKeepsInv, RefusalKeepsInv
<1> QED
    BY <1>1, <1>2, <1>3, <1>4, <1>5 DEF Next

(* The strengthened invariant holds in every reachable state.              *)
LEMMA Inductive == Spec => []OutboxInv
BY InitOutboxInv, NextKeepsInv, PTL DEF Spec

(* The variables keep their types: a flusher marks only rows of its batch, *)
(* and never asks a sink that MultiHandler does not have.                  *)
THEOREM TypeCorrect == Spec => []TypeOK
<1>1. OutboxInv => TypeOK
    BY DEF OutboxInv
<1> QED
    BY <1>1, Inductive, PTL

(* Consume's SKIP LOCKED claim: each row is exclusively claimed by exactly *)
(* one transaction, and only while it is pending.                          *)
THEOREM ClaimsAreExclusive == Spec => []Locks
<1>1. OutboxInv => Locks
    BY DEF OutboxInv
<1> QED
    BY <1>1, Inductive, PTL

-----------------------------------------------------------------------------
Life(e) == IF row[e] \in {"none", "open", "gone"} THEN "absent" ELSE row[e]

(* Every step of the outbox is a step of the queue, or invisible to it.    *)
LEMMA StepIsQueueStep ==
    ASSUME OutboxInv, [Next]_vars
    PROVE  [Queue!QNext]_(Queue!qvars)
<1> USE DEF OutboxInv
<1> DEFINE life == [e \in Event |-> Life(e)]
<1>1. ASSUME UNCHANGED <<row, heard, condemned>> PROVE UNCHANGED Queue!qvars
    BY <1>1 DEF Queue!qvars
<1>2. ASSUME NEW e \in Event, Enqueue(e) \/ RollbackBusiness(e)
      PROVE  UNCHANGED Queue!qvars
    <2>1. \A d \in Event : Life(d)' = Life(d)
        BY <1>2 DEF Enqueue, RollbackBusiness, SetRow, Life, TypeOK
    <2> QED
        BY <1>2, <2>1 DEF Queue!qvars, Life, Enqueue, RollbackBusiness, SetRow, world
<1>3. ASSUME NEW e \in Event, CommitBusiness(e) PROVE Queue!Publish(e)
    <2>1. /\ Life(e) = "absent" /\ Life(e)' = "pending"
          /\ \A d \in Event : d # e => Life(d)' = Life(d)
        BY <1>3 DEF CommitBusiness, SetRow, Life, TypeOK
    <2>2. life' = [life EXCEPT ![e] = "pending"]
        BY <2>1
    <2>3. UNCHANGED <<heard, condemned>>
        BY <1>3 DEF CommitBusiness, SetRow, world
    <2> QED
        BY <2>1, <2>2, <2>3 DEF Queue!Publish, Queue!Absent, Life
<1>4. ASSUME NEW f \in Flusher, NEW e \in Event, Current(f, e)
      PROVE  /\ Queue!Pending(e) /\ sink[f] \in 1 .. Sinks
             /\ 1 .. sink[f] - 1 \subseteq heard[e]
    <2>1. row[e] = "pending"
        BY <1>4 DEF Current, Locks
    <2> QED
        BY <1>4, <2>1 DEF Queue!Pending, SinksInOrder, TypeOK
<1>5. ASSUME NEW f \in Flusher, NEW e \in Event, Accept(f, e)
      PROVE  Queue!Hear(e, sink[f])
    BY <1>4, <1>5 DEF Accept, Queue!Hear
<1>6. ASSUME NEW f \in Flusher, NEW e \in Event, GiveUp(f, e)
      PROVE  Queue!Condemn(e, sink[f])
    BY <1>4, <1>6 DEF GiveUp, Queue!Condemn
<1>7. ASSUME NEW f \in Flusher, Commit(f)
      PROVE  Queue!QNext \/ UNCHANGED Queue!qvars
    <2>1. /\ DOMAIN mark[f] = batch[f] /\ batch[f] \subseteq Event
          /\ row' = [e \in Event |-> IF e \in batch[f] THEN mark[f][e] ELSE row[e]]
          /\ UNCHANGED <<heard, condemned>>
        BY <1>7 DEF Commit, EndBatch, world, TypeOK
    <2>2. PICK done \in SUBSET Event, given_up \in SUBSET Event :
            /\ done = {e \in batch[f] : mark[f][e] = "consumed"}
            /\ given_up = {e \in batch[f] : mark[f][e] = "dead"}
        BY <2>1
    <2>3. \A e \in batch[f] :
            row[e] = "pending" /\ mark[f][e] \in {"consumed", "pending", "dead"}
        BY <2>1 DEF Locks, TypeOK
    <2>4. \A e \in Event :
            Life(e)' = IF e \in done THEN "consumed"
                       ELSE IF e \in given_up THEN "dead" ELSE Life(e)
        BY <2>1, <2>2, <2>3 DEF Life
    <2>5. CASE done \union given_up = {}
        BY <2>1, <2>4, <2>5 DEF Queue!qvars, Life
    <2>6. CASE done \union given_up # {}
        <3>1. \A e \in done : Queue!Pending(e) /\ heard[e] = 1 .. Sinks
            BY <2>1, <2>2, <2>3 DEF Queue!Pending, MarksJustified
        <3>2. \A e \in given_up : Queue!Pending(e) /\ e \in condemned
            BY <2>1, <2>2, <2>3 DEF Queue!Pending, MarksJustified
        <3>3. done \intersect given_up = {}
            BY <2>2
        <3>4. Queue!Settle(done, given_up)
            BY <2>1, <2>4, <2>6, <3>1, <3>2, <3>3 DEF Queue!Settle, Life
        <3> QED
            BY <3>4 DEF Queue!QNext
    <2> QED
        BY <2>5, <2>6
<1>8. ASSUME NEW f \in Flusher, NEW B \in SUBSET Event, Claim(f, B)
      PROVE  UNCHANGED <<row, heard, condemned>>
    BY <1>8 DEF Claim, world
<1>9. ASSUME NEW f \in Flusher, Sleep(f) \/ ClaimFails(f) \/ Poll(f) \/ LoseBatch(f)
      PROVE  UNCHANGED <<row, heard, condemned>>
    BY <1>9 DEF Sleep, ClaimFails, Poll, LoseBatch, EndBatch, world
<1>10. ASSUME NEW f \in Flusher, NEW e \in Event, Fail(f, e)
       PROVE  UNCHANGED <<row, heard, condemned>>
    BY <1>10 DEF Fail, world
<1>11. CASE UNCHANGED vars
    BY <1>1, <1>11 DEF vars
<1>12. CASE Next
    <2>1. ASSUME NEW e \in Event, CommitBusiness(e) PROVE Queue!QNext
        BY <1>3, <2>1 DEF Queue!QNext
    <2>2. ASSUME NEW f \in Flusher, NEW e \in Event, Accept(f, e) \/ GiveUp(f, e)
          PROVE  Queue!QNext
        <3>1. sink[f] \in 1 .. Sinks
            BY DEF TypeOK
        <3> QED
            BY <1>5, <1>6, <2>2, <3>1 DEF Queue!QNext
    <2> QED
        BY <1>1, <1>2, <1>7, <1>8, <1>9, <1>10, <1>12, <2>1, <2>2 DEF Next
<1> QED
    BY <1>11, <1>12

(* The outbox is a queue that delivers at least once: what its sinks hear  *)
(* and when its rows settle is what module AtLeastOnce allows, whatever    *)
(* the number of replicas and however often a batch is lost.               *)
THEOREM ImplementsQueue == Spec => QueueSpec
<1>1. Init => Queue!QInit
    BY DEF Init, Queue!QInit
<1>2. OutboxInv /\ [Next]_vars => [Queue!QNext]_(Queue!qvars)
    BY StepIsQueueStep
<1> QED
    BY <1>1, <1>2, Inductive, PTL DEF Spec, QueueSpec, Queue!QSpec
==============================================================================
