--------------------------- MODULE KeyRotationProofs ---------------------------
(***************************************************************************)
(* What KeyRotation guarantees for every number of processes and keys and  *)
(* for all windows the assumption allows.                                  *)
(***************************************************************************)
EXTENDS KeyRotation, TLAPS

Working == {"listing", "swapping", "pruning", "marking"}

-----------------------------------------------------------------------------
(* The inductive invariant, in three layers.                               *)

\* A table with keys has an active one, and what a process has read is of keys made.
TypeInv ==
    /\ TypeOK
    /\ Keys # {} => ActiveKeys # {}
    /\ \A p \in Process :
        /\ pc[p] \in Working => Keys # {}
        /\ signer[p] <= last
        /\ read[p].signer <= last /\ read[p].upto <= last

\* Of a table that the seed filled first, no seed under way finds the key of the
\* environment pruned.
SeedInv ==
    /\ Keys = {} => last = EnvKey /\ ~unseeded
    /\ \A p \in Process : pc[p] = "seeding" /\ Keys # {} /\ ~unseeded =>
            EnvKey \in Keys /\ demoted[EnvKey] \in {Never, now}

\* Whoever has seen the newest key, or is about to install it, signs with it, unless a
\* late seed has demoted it.
NewestInv ==
    \A p \in Process :
        /\ Up(p) /\ upto[p] = last /\ last \in Current => signer[p] = last
        /\ pc[p] = "swapping" /\ read[p].upto = last /\ last \in Current => read[p].signer = last

\* A ring holds keys made before it was read, and is never older than the last.
RingInv ==
    \A p \in Process :
        /\ ring[p] \subseteq 1 .. upto[p]
        /\ pc[p] = "swapping" =>
            /\ upto[p] <= read[p].upto
            /\ read[p].keys \subseteq 1 .. read[p].upto

\* A token of a covered key lives no longer than TTL after the demotion of it.
TokenInv ==
    \A t \in token :
        /\ t.until > now
        /\ Covered(t.key) =>
            /\ Keys = {} => t.key = EnvKey
            /\ Keys # {} => /\ t.key \in Keys
                            /\ demoted[t.key] = Never \/ t.until <= demoted[t.key] + TTL

\* The keys that rings must know: the active one and those of the tokens.
Needed == Current \cup {t.key : t \in token}

\* A needed key, if it is covered, is in every ring that may know it.
KnownInv ==
    \A p \in Process : \A k \in Needed :
        Covered(k) =>
            /\ Up(p) /\ k <= upto[p] => k \in ring[p]
            /\ pc[p] = "swapping" /\ k <= read[p].upto => k \in read[p].keys

-----------------------------------------------------------------------------
(* What the operators do.                                                  *)

\* The ring that is read from a table with keys signs with the active one.
LEMMA LoadedFacts ==
    ASSUME TypeInv, Keys # {}
    PROVE  /\ Loaded \in RingRead
           /\ Loaded.signer \in ActiveKeys
           /\ ActiveKeys \subseteq Loaded.keys
           /\ Loaded.keys \subseteq Keys
           /\ Loaded.upto = last
<1>1. ActiveKeys # {} /\ ActiveKeys \subseteq Keys
  BY DEF TypeInv, ActiveKeys
<1>2. Loaded.signer \in ActiveKeys
  BY <1>1 DEF Loaded
<1>3. Keys \subseteq Key /\ last \in Key
  BY KeyRotationAssumption DEF TypeInv, TypeOK, Key
<1> QED
  BY <1>1, <1>2, <1>3 DEF Loaded, RingRead, ActiveKeys

\* A key that is appended is the only active one, and the others keep their times.
LEMMA AppendFacts ==
    ASSUME TypeInv, NEW k \in 1 .. MaxKeys, Append(k)
    PROVE  /\ Keys' = Keys \cup {k}
           /\ ActiveKeys' = {k}
           /\ made' \in [Keys' -> 0 .. now]
           /\ demoted' \in [Keys' -> {Never} \cup 0 .. now]
           /\ \A i \in Keys \ {k} :
                demoted'[i] = IF demoted[i] = Never THEN now ELSE demoted[i]
<1> USE DEF Append
<1>1. /\ Keys' = Keys \cup {k}
      /\ DOMAIN demoted' = Keys \cup {k}
  BY DEF Keys
<1>2. /\ now \in Nat
      /\ made \in [Keys -> 0 .. now]
      /\ demoted \in [Keys -> {Never} \cup 0 .. now]
      /\ Never \notin 0 .. now
  BY DEF TypeInv, TypeOK, Never
<1>3. \A i \in Keys \ {k} : demoted'[i] = IF demoted[i] = Never THEN now ELSE demoted[i]
  OBVIOUS
<1>4. demoted'[k] = Never
  OBVIOUS
<1>5. ActiveKeys' = {k}
  <2>1. \A i \in Keys \ {k} : demoted'[i] # Never
    BY <1>2, <1>3
  <2> QED
    BY <2>1, <1>1, <1>4 DEF ActiveKeys
<1>6. made' \in [Keys' -> 0 .. now]
  BY <1>1, <1>2
<1>7. demoted' \in [Keys' -> {Never} \cup 0 .. now]
  BY <1>1, <1>2
<1> QED
  BY <1>1, <1>3, <1>5, <1>6, <1>7

\* A pruning that succeeds takes no active key, one that fails takes none.
LEMMA PruneFacts ==
    ASSUME TypeInv, NEW p \in Process, Prune(p)
    PROVE  /\ Keys' \subseteq Keys
           /\ ActiveKeys' = ActiveKeys
           /\ made' \in [Keys' -> 0 .. now]
           /\ demoted' \in [Keys' -> {Never} \cup 0 .. now]
           /\ \A i \in Keys' : demoted'[i] = demoted[i]
           /\ \A i \in Keys \ Keys' : demoted[i] # Never /\ demoted[i] < now - Keep
<1>1. /\ made \in [Keys -> 0 .. now]
      /\ demoted \in [Keys -> {Never} \cup 0 .. now]
  BY DEF TypeInv, TypeOK
<1>2. CASE UNCHANGED <<made, demoted>>
  <2>1. Keys' = Keys /\ ActiveKeys' = ActiveKeys
    BY <1>2 DEF Keys, ActiveKeys
  <2> QED
    BY <1>1, <1>2, <2>1
<1>3. CASE /\ made' = [k \in Keys \ Prunable |-> made[k]]
           /\ demoted' = [k \in Keys \ Prunable |-> demoted[k]]
  <2>1. Keys' = Keys \ Prunable
    BY <1>3 DEF Keys
  <2>2. \A i \in Keys' : demoted'[i] = demoted[i]
    BY <1>3, <2>1
  <2>3. ActiveKeys' = ActiveKeys
    BY <2>1, <2>2 DEF ActiveKeys, Prunable
  <2>4. made' \in [Keys' -> 0 .. now] /\ demoted' \in [Keys' -> {Never} \cup 0 .. now]
    BY <1>1, <1>3, <2>1
  <2>5. \A i \in Keys \ Keys' : demoted[i] # Never /\ demoted[i] < now - Keep
    BY <2>1 DEF Prunable
  <2> QED
    BY <2>1, <2>2, <2>3, <2>4, <2>5
<1> QED
  BY <1>2, <1>3 DEF Prune

-----------------------------------------------------------------------------
(* Type correctness.                                                       *)

\* At first every variable has its type.
LEMMA TypeInit == Init => TypeInv
<1> SUFFICES ASSUME Init PROVE TypeInv
  OBVIOUS
<1> USE KeyRotationAssumption DEF Init
<1>1. Keys = {} /\ DOMAIN demoted = {}
  BY DEF Keys
<1>2. made \in [Keys -> 0 .. now] /\ demoted \in [Keys -> {Never} \cup 0 .. now]
  BY <1>1
<1>b. unseeded \in BOOLEAN /\ manual \in BOOLEAN
  OBVIOUS
<1>3. TypeOK
  BY <1>1, <1>2, <1>b DEF TypeOK, ActiveKeys, EnvKey, Key, State, RingRead, NoRing
<1> QED
  BY <1>1, <1>3 DEF TypeInv, Working, EnvKey, NoRing

\* What a process installs keeps the types, if it is a ring of keys made.
LEMMA TypeInstall ==
    ASSUME TypeInv, NEW p \in Process, NEW r \in RingRead, Install(p, r),
           r.signer <= last, r.upto <= last
    PROVE  /\ ring' \in [Process -> SUBSET Key]
           /\ signer' \in [Process -> Key]
           /\ upto' \in [Process -> 1 .. last]
           /\ \A q \in Process : signer'[q] <= last
  BY KeyRotationAssumption DEF TypeInv, TypeOK, Install, RingRead, Key

\* Every step keeps the types.
LEMMA TypeStep ==
    ASSUME TypeInv, [Next]_vars PROVE TypeInv'
<1> USE KeyRotationAssumption
<1>0. /\ TypeOK /\ now \in Nat /\ last \in Nat /\ last \in Key /\ last >= 1
      /\ Never \notin Nat
  BY DEF TypeInv, TypeOK, Key, Never
<1>e. EnvRing \in RingRead /\ NoRing \in RingRead
  BY DEF EnvRing, NoRing, RingRead, Key, EnvKey
<1>1. ASSUME NEW p \in Process, Boot(p) PROVE TypeInv'
  <2> DEFINE r == IF Keys # {} THEN Loaded ELSE EnvRing
  <2>1. r \in RingRead /\ r.signer <= last /\ r.upto <= last
    <3>1. CASE Keys = {}
      BY <1>0, <1>e, <3>1 DEF EnvRing, EnvKey
    <3>2. CASE Keys # {}
      <4>1. /\ Loaded \in RingRead /\ Loaded.signer \in Keys /\ Loaded.upto = last
        BY <3>2, LoadedFacts DEF ActiveKeys
      <4>2. Keys \subseteq 1 .. last
        BY <1>0 DEF TypeOK
      <4> QED
        BY <1>0, <3>2, <4>1, <4>2
    <3> QED
      BY <3>1, <3>2
  <2>2. Install(p, r)
    BY <1>1 DEF Boot
  <2>3. /\ ring' \in [Process -> SUBSET Key]
        /\ signer' \in [Process -> Key]
        /\ upto' \in [Process -> 1 .. last]
        /\ \A q \in Process : signer'[q] <= last
    BY <2>1, <2>2, TypeInstall
  <2>4. /\ pc' \in [Process -> State]
        /\ \A q \in Process : pc'[q] \in Working => pc[q] \in Working
    BY <1>0, <1>1 DEF Boot, Goto, TypeOK, State, Working
  <2> QED
    BY <1>1, <2>3, <2>4 DEF Boot, TypeInv, TypeOK, Keys, ActiveKeys, table
<1>2. ASSUME NEW p \in Process, BootBlind(p) PROVE TypeInv'
  <2>1. EnvRing.signer <= last /\ EnvRing.upto <= last
    BY <1>0 DEF EnvRing, EnvKey
  <2>2. /\ ring' \in [Process -> SUBSET Key]
        /\ signer' \in [Process -> Key]
        /\ upto' \in [Process -> 1 .. last]
        /\ \A q \in Process : signer'[q] <= last
    BY <1>2, <1>e, <2>1, TypeInstall DEF BootBlind
  <2>3. /\ pc' \in [Process -> State]
        /\ \A q \in Process : pc'[q] \in Working => pc[q] \in Working
    BY <1>0, <1>2 DEF BootBlind, Goto, TypeOK, State, Working
  <2> QED
    BY <1>2, <2>2, <2>3 DEF BootBlind, TypeInv, TypeOK, Keys, ActiveKeys, table
<1>3. ASSUME NEW p \in Process, Seed(p) PROVE TypeInv'
  <2>1. /\ pc' \in [Process -> State]
        /\ \A q \in Process : pc'[q] \in Working => pc[q] \in Working
    BY <1>0, <1>3 DEF Seed, Goto, TypeOK, State, Working
  <2>2. CASE Append(EnvKey) /\ UNCHANGED faults
    <3>1. EnvKey \in 1 .. MaxKeys /\ EnvKey \in 1 .. last
      BY <1>0 DEF EnvKey, Key
    <3>2. /\ Keys' = Keys \cup {EnvKey}
          /\ ActiveKeys' = {EnvKey}
          /\ made' \in [Keys' -> 0 .. now]
          /\ demoted' \in [Keys' -> {Never} \cup 0 .. now]
      BY <2>2, <3>1, AppendFacts
    <3> QED
      BY <1>3, <2>1, <2>2, <3>1, <3>2 DEF Seed, TypeInv, TypeOK
  <2>3. CASE UNCHANGED <<made, demoted>>
    BY <1>3, <2>1, <2>3 DEF Seed, TypeInv, TypeOK, Keys, ActiveKeys
  <2> QED
    BY <1>3, <2>2, <2>3 DEF Seed
<1>4. ASSUME NEW p \in Process, Crash(p) PROVE TypeInv'
  <2>1. NoRing.signer <= last /\ NoRing.upto <= last
    BY <1>0 DEF NoRing, EnvKey
  <2>2. /\ ring' \in [Process -> SUBSET Key]
        /\ signer' \in [Process -> Key]
        /\ upto' \in [Process -> 1 .. last]
        /\ \A q \in Process : signer'[q] <= last
    BY <1>4, <1>e, <2>1, TypeInstall DEF Crash
  <2>3. /\ pc' \in [Process -> State]
        /\ \A q \in Process : pc'[q] \in Working => pc[q] \in Working
    BY <1>0, <1>4 DEF Crash, Goto, TypeOK, State, Working
  <2>4. /\ read' \in [Process -> RingRead]
        /\ \A q \in Process : read'[q].signer <= last /\ read'[q].upto <= last
    BY <1>0, <1>4, <1>e, <2>1 DEF Crash, TypeInv, TypeOK
  <2>5. /\ queue' \in Nat
        /\ queuedAt' \in [Process -> {Long} \cup 0 .. now]
        /\ faults' \in 0 .. MaxFaults
    BY <1>0, <1>4 DEF Crash, TypeOK
  <2> QED
    BY <1>4, <2>2, <2>3, <2>4, <2>5 DEF Crash, TypeInv, TypeOK, Keys, ActiveKeys, table
<1>5. ASSUME NEW p \in Process, Trigger(p) PROVE TypeInv'
  <2>1. /\ queue' \in Nat /\ queuedAt' \in [Process -> {Long} \cup 0 .. now]
        /\ faults' \in 0 .. MaxFaults
    BY <1>0, <1>5 DEF Trigger, TypeOK
  <2> QED
    BY <1>5, <2>1 DEF Trigger, TypeInv, TypeOK, Keys, ActiveKeys, table
<1>6. ASSUME Operator PROVE TypeInv'
  BY <1>0, <1>6 DEF Operator, TypeInv, TypeOK, Keys, ActiveKeys, table, own
<1>7. ASSUME NEW p \in Process, Rotate(p) PROVE TypeInv'
  <2>1. last + 1 \in 1 .. MaxKeys
    BY <1>0, <1>7 DEF Rotate
  <2>2. /\ Keys' = Keys \cup {last + 1}
        /\ ActiveKeys' = {last + 1}
        /\ made' \in [Keys' -> 0 .. now]
        /\ demoted' \in [Keys' -> {Never} \cup 0 .. now]
    BY <1>7, <2>1, AppendFacts DEF Rotate
  <2>3. pc' \in [Process -> State] /\ queue' \in Nat
    BY <1>0, <1>7 DEF Rotate, Goto, TypeOK, State
  <2>4. last' \in Key /\ Keys' \subseteq 1 .. last' /\ last <= last' /\ 1 .. last \subseteq 1 .. last'
    <3>1. last' = last + 1 /\ last' \in Key /\ last <= last'
      BY <1>0, <1>7, <2>1 DEF Rotate, Key
    <3>2. 1 .. last \subseteq 1 .. last' /\ last + 1 \in 1 .. last'
      BY <1>0, <3>1
    <3>3. Keys \subseteq 1 .. last
      BY <1>0 DEF TypeOK
    <3> QED
      BY <2>2, <3>1, <3>2, <3>3
  <2>5. token' \subseteq [key : 1 .. last', until : 0 .. now + TTL]
    BY <1>0, <1>7, <2>4 DEF Rotate, TypeOK
  <2>6. /\ upto' \in [Process -> 1 .. last']
        /\ \A q \in Process : signer'[q] <= last' /\ read'[q].signer <= last' /\ read'[q].upto <= last'
    BY <1>0, <1>7 DEF Rotate, TypeInv, TypeOK, RingRead, Key
  <2>7. unseeded' \in BOOLEAN
    BY <1>7 DEF Rotate
  <2> QED
    BY <1>7, <2>2, <2>3, <2>4, <2>5, <2>6, <2>7 DEF Rotate, TypeInv, TypeOK
<1>8. ASSUME NEW p \in Process, List(p) PROVE TypeInv'
  <2>1. Keys # {}
    BY <1>8 DEF List, TypeInv, Working
  <2>2. Loaded \in RingRead /\ Loaded.signer <= last /\ Loaded.upto <= last
    <3>1. Loaded \in RingRead /\ Loaded.signer \in ActiveKeys /\ Loaded.upto = last
      BY <2>1, LoadedFacts
    <3>2. ActiveKeys \subseteq 1 .. last
      BY <1>0 DEF TypeOK, ActiveKeys
    <3>3. Loaded.signer \in 1 .. last
      BY <3>1, <3>2
    <3>4. last \in Nat
      BY <1>0
    <3>5. Loaded.signer <= last /\ last <= last
      BY <3>3, <3>4
    <3> QED
      BY <3>1, <3>5
  <2>3. /\ read' \in [Process -> RingRead]
        /\ \A q \in Process : read'[q].signer <= last /\ read'[q].upto <= last
    BY <1>0, <1>8, <2>2 DEF List, TypeInv, TypeOK
  <2>4. pc' \in [Process -> State]
    BY <1>0, <1>8 DEF List, Goto, TypeOK, State
  <2> QED
    BY <1>8, <2>1, <2>3, <2>4 DEF List, TypeInv, TypeOK, Keys, ActiveKeys, table
<1>9. ASSUME NEW p \in Process, Swap(p) PROVE TypeInv'
  <2>1. Keys # {}
    BY <1>9 DEF Swap, TypeInv, Working
  <2>2. /\ ring' \in [Process -> SUBSET Key]
        /\ signer' \in [Process -> Key]
        /\ upto' \in [Process -> 1 .. last]
        /\ \A q \in Process : signer'[q] <= last
    BY <1>0, <1>9, TypeInstall DEF Swap, TypeInv, TypeOK
  <2>3. /\ read' \in [Process -> RingRead]
        /\ \A q \in Process : read'[q].signer <= last /\ read'[q].upto <= last
    BY <1>0, <1>9, <1>e DEF Swap, TypeInv, TypeOK, NoRing, EnvKey
  <2>4. pc' \in [Process -> State]
    BY <1>0, <1>9 DEF Swap, Goto, TypeOK, State
  <2> QED
    BY <1>9, <2>1, <2>2, <2>3, <2>4 DEF Swap, TypeInv, TypeOK, Keys, ActiveKeys, table
<1>10. ASSUME NEW p \in Process, Prune(p) PROVE TypeInv'
  <2>1. /\ Keys' \subseteq Keys
        /\ ActiveKeys' = ActiveKeys
        /\ made' \in [Keys' -> 0 .. now]
        /\ demoted' \in [Keys' -> {Never} \cup 0 .. now]
    BY <1>10, PruneFacts
  <2>2. pc' \in [Process -> State] /\ faults' \in 0 .. MaxFaults
    BY <1>0, <1>10 DEF Prune, Goto, TypeOK, State
  <2>3. Keys # {}
    BY <1>10 DEF Prune, TypeInv, Working
  <2>4. ActiveKeys \subseteq Keys'
    BY <2>1 DEF ActiveKeys
  <2> QED
    BY <1>10, <2>1, <2>2, <2>3, <2>4 DEF Prune, TypeInv, TypeOK
<1>11. ASSUME NEW p \in Process, Finish(p) PROVE TypeInv'
  <2>1. /\ pc' \in [Process -> State]
        /\ \A q \in Process : pc'[q] \in Working => pc[q] \in Working
    BY <1>0, <1>11 DEF Finish, Goto, TypeOK, State, Working
  <2> QED
    BY <1>11, <2>1 DEF Finish, TypeInv, TypeOK, Keys, ActiveKeys, table
<1>12. ASSUME NEW p \in Process, Fail(p) PROVE TypeInv'
  <2>1. /\ pc' \in [Process -> State]
        /\ \A q \in Process : pc'[q] \in Working => pc[q] \in Working
    BY <1>0, <1>12 DEF Fail, Goto, TypeOK, State, Working
  <2>2. /\ read' \in [Process -> RingRead]
        /\ \A q \in Process : read'[q].signer <= last /\ read'[q].upto <= last
    BY <1>0, <1>12, <1>e DEF Fail, TypeInv, TypeOK, NoRing, EnvKey
  <2>3. queue' \in Nat /\ faults' \in 0 .. MaxFaults
    BY <1>0, <1>12 DEF Fail, TypeOK
  <2> QED
    BY <1>12, <2>1, <2>2, <2>3 DEF Fail, TypeInv, TypeOK, Keys, ActiveKeys, table
<1>13. ASSUME NEW p \in Process, Sign(p) PROVE TypeInv'
  <2>1. token' \subseteq [key : 1 .. last, until : 0 .. now + TTL]
    <3>1. signer[p] \in 1 .. last
      BY <1>0 DEF TypeInv, TypeOK, Key
    <3>2. now + TTL \in 0 .. now + TTL
      BY <1>0
    <3> DEFINE t == [key |-> signer[p], until |-> now + TTL]
    <3>3. t \in [key : 1 .. last, until : 0 .. now + TTL]
      BY <3>1, <3>2
    <3>4. token' \subseteq token \cup {t}
      BY <1>13 DEF Sign
    <3>5. token \subseteq [key : 1 .. last, until : 0 .. now + TTL]
      BY <1>0 DEF TypeOK
    <3> HIDE DEF t
    <3> QED
      BY <3>3, <3>4, <3>5
  <2> QED
    BY <1>13, <2>1 DEF Sign, TypeInv, TypeOK, Keys, ActiveKeys, table, own
<1>14. ASSUME Tick PROVE TypeInv'
  <2>1. now' = now + 1 /\ now' \in 0 .. Horizon /\ 0 .. now \subseteq 0 .. now'
    BY <1>0, <1>14 DEF Tick, TypeOK
  <2>2. token' \subseteq [key : 1 .. last, until : 0 .. now' + TTL]
    BY <1>0, <1>14, <2>1 DEF Tick, TypeOK
  <2>3. /\ made' \in [Keys' -> 0 .. now']
        /\ demoted' \in [Keys' -> {Never} \cup 0 .. now']
        /\ queuedAt' \in [Process -> {Long} \cup 0 .. now']
    BY <1>0, <1>14, <2>1 DEF Tick, TypeOK, Keys, table, own
  <2> QED
    BY <1>14, <2>1, <2>2, <2>3 DEF Tick, TypeInv, TypeOK, Keys, ActiveKeys, table, own
<1>15. CASE UNCHANGED vars
  BY <1>15 DEF TypeInv, TypeOK, Keys, ActiveKeys, table, own, vars
<1> QED
  BY <1>1, <1>2, <1>3, <1>4, <1>5, <1>6, <1>7, <1>8, <1>9, <1>10, <1>11, <1>12, <1>13,
     <1>14, <1>15 DEF Next, Handle

-----------------------------------------------------------------------------
(* The seed comes first.                                                   *)

\* At first the table has no key and no process seeds it.
LEMMA SeedInit == Init => SeedInv
  BY DEF Init, SeedInv, Keys

\* Every step keeps what is known of an empty table and of its seeding.
LEMMA SeedStep ==
    ASSUME TypeInv, SeedInv, [Next]_vars PROVE SeedInv'
<1> USE KeyRotationAssumption
<1>0. /\ now \in Nat /\ last \in Nat /\ last \in Key /\ last >= 1
      /\ pc \in [Process -> State]
      /\ \A p \in Process : pc[p] \in Working => Keys # {}
      /\ Never \notin Nat
  BY DEF TypeInv, TypeOK, Key, Never
<1>1. ASSUME NEW p \in Process, Boot(p) PROVE SeedInv'
  BY <1>0, <1>1 DEF Boot, Goto, SeedInv, Keys, table
<1>2. ASSUME NEW p \in Process, BootBlind(p) \/ Crash(p) PROVE SeedInv'
  BY <1>0, <1>2 DEF BootBlind, Crash, Goto, SeedInv, Keys, table, Working, State
<1>3. ASSUME NEW p \in Process, Seed(p) PROVE SeedInv'
  <2>1. CASE EnvKey \notin Keys /\ Append(EnvKey)
    <3>1. Keys' = Keys \cup {EnvKey} /\ ActiveKeys' = {EnvKey}
      BY <1>0, <2>1, AppendFacts DEF Key, EnvKey
    <3>2. demoted'[EnvKey] = Never
      BY <3>1 DEF ActiveKeys
    <3> QED
      BY <1>0, <1>3, <3>1, <3>2 DEF Seed, Goto, SeedInv
  <2>2. CASE UNCHANGED <<made, demoted>>
    BY <1>0, <1>3, <2>2 DEF Seed, Goto, SeedInv, Keys
  <2> QED
    BY <1>3, <2>1, <2>2 DEF Seed
<1>4. ASSUME NEW p \in Process, Trigger(p) PROVE SeedInv'
  BY <1>0, <1>4 DEF Trigger, Due, ActiveKeys, SeedInv, Keys, table
<1>5. ASSUME Operator PROVE SeedInv'
  BY <1>5 DEF Operator, SeedInv, Keys, table, own
<1>6. ASSUME NEW p \in Process, Rotate(p) PROVE SeedInv'
  <2>1. last + 1 \in 1 .. MaxKeys /\ last + 1 # EnvKey
    BY <1>0, <1>6 DEF Rotate, EnvKey
  <2>2. /\ Keys' = Keys \cup {last + 1}
        /\ \A i \in Keys \ {last + 1} : demoted'[i] = IF demoted[i] = Never THEN now ELSE demoted[i]
    BY <1>6, <2>1, AppendFacts DEF Rotate
  <2>3. ~unseeded' => ~unseeded /\ Keys # {}
    BY <1>6 DEF Rotate
  <2>4. \A q \in Process : pc'[q] = "seeding" => pc[q] = "seeding"
    BY <1>0, <1>6 DEF Rotate, Goto
  <2>5. Keys' # {} /\ now' = now
    BY <1>6, <2>2 DEF Rotate
  <2>6. ASSUME NEW q \in Process, pc'[q] = "seeding", ~unseeded'
        PROVE  EnvKey \in Keys' /\ demoted'[EnvKey] \in {Never, now}
    <3>1. EnvKey \in Keys /\ demoted[EnvKey] \in {Never, now}
      BY <2>3, <2>4, <2>6 DEF SeedInv
    <3> QED
      BY <2>1, <2>2, <3>1
  <2> QED
    BY <2>5, <2>6 DEF SeedInv
<1>7. ASSUME NEW p \in Process, List(p) \/ Swap(p) \/ Finish(p) \/ Fail(p) PROVE SeedInv'
  BY <1>0, <1>7 DEF List, Swap, Finish, Fail, Goto, SeedInv, Keys, table, Working
<1>8. ASSUME NEW p \in Process, Prune(p) PROVE SeedInv'
  <2>1. /\ Keys' \subseteq Keys
        /\ ActiveKeys' = ActiveKeys
        /\ \A i \in Keys' : demoted'[i] = demoted[i]
        /\ \A i \in Keys \ Keys' : demoted[i] # Never /\ demoted[i] < now - Keep
    BY <1>8, PruneFacts
  <2>2. Keys' # {}
    <3>1. ActiveKeys # {}
      BY <1>0, <1>8 DEF Prune, TypeInv, Working
    <3> QED
      BY <2>1, <3>1 DEF ActiveKeys
  <2>3. \A q \in Process : pc'[q] = "seeding" => pc[q] = "seeding"
    BY <1>0, <1>8 DEF Prune, Goto
  <2>4. ASSUME NEW q \in Process, pc'[q] = "seeding", ~unseeded'
        PROVE  EnvKey \in Keys' /\ demoted'[EnvKey] \in {Never, now}
    <3>1. EnvKey \in Keys /\ demoted[EnvKey] \in {Never, now}
      BY <1>8, <2>1, <2>2, <2>3, <2>4 DEF SeedInv, Prune
    <3>2. EnvKey \in Keys'
      BY <1>0, <2>1, <3>1
    <3> QED
      BY <2>1, <3>1, <3>2
  <2> QED
    BY <1>8, <2>2, <2>3, <2>4 DEF Prune, SeedInv
<1>9. ASSUME NEW p \in Process, Sign(p) PROVE SeedInv'
  BY <1>9 DEF Sign, SeedInv, Keys, table, own
<1>10. ASSUME Tick PROVE SeedInv'
  BY <1>10 DEF Tick, SeedInv, Keys, table, own
<1>11. CASE UNCHANGED vars
  BY <1>11 DEF SeedInv, Keys, table, own, vars
<1> QED
  BY <1>1, <1>2, <1>3, <1>4, <1>5, <1>6, <1>7, <1>8, <1>9, <1>10, <1>11 DEF Next, Handle

-----------------------------------------------------------------------------
(* The newest key signs.                                                   *)

\* At first no process is up, so none signs.
LEMMA NewestInit == Init => NewestInv
  BY DEF Init, NewestInv, Up, Current, Keys

\* What may be active does not change but by a new key, or the seed of a table that a
\* rotation filled.
LEMMA CurrentKept ==
    ASSUME TypeInv, SeedInv, [Next]_vars
    PROVE  \/ Current' = Current /\ last' = last /\ unseeded' = unseeded
           \/ Current' = {EnvKey} /\ last' = last /\ last # EnvKey /\ unseeded /\ unseeded'
           \/ Current' = {last'} /\ last' = last + 1 /\ (unseeded => unseeded')
<1> USE KeyRotationAssumption
<1>0. last \in Nat /\ last \in Key /\ last >= 1
  BY DEF TypeInv, TypeOK, Key
<1>1. CASE UNCHANGED <<made, demoted, last, unseeded>>
  BY <1>1 DEF Current, ActiveKeys, Keys
<1>2. ASSUME NEW p \in Process, Seed(p), EnvKey \notin Keys, Append(EnvKey)
      PROVE  \/ Current' = Current /\ last' = last /\ unseeded' = unseeded
             \/ Current' = {EnvKey} /\ last' = last /\ last # EnvKey /\ unseeded /\ unseeded'
  <2>1. Current' = {EnvKey} /\ last' = last /\ unseeded' = unseeded
    <3>1. Keys' = Keys \cup {EnvKey} /\ ActiveKeys' = {EnvKey}
      BY <1>0, <1>2, AppendFacts DEF Key, EnvKey
    <3> QED
      BY <1>2, <3>1 DEF Current, Seed
  <2>2. CASE Keys = {}
    BY <2>1, <2>2 DEF Current
  <2>3. CASE Keys # {}
    <3>1. unseeded
      BY <1>2, <2>3 DEF Seed, SeedInv
    <3>2. last # EnvKey
      <4>1. PICK k \in Keys : k # EnvKey /\ k \in 1 .. last
        BY <1>2, <2>3 DEF TypeInv, TypeOK
      <4> QED
        BY <1>0, <4>1 DEF EnvKey
    <3> QED
      BY <2>1, <3>1, <3>2
  <2> QED
    BY <2>2, <2>3
<1>3. ASSUME NEW p \in Process, Rotate(p)
      PROVE  Current' = {last'} /\ last' = last + 1 /\ (unseeded => unseeded')
  <2>1. last + 1 \in 1 .. MaxKeys
    BY <1>0, <1>3 DEF Rotate
  <2>2. Keys' = Keys \cup {last + 1} /\ ActiveKeys' = {last + 1}
    BY <1>3, <2>1, AppendFacts DEF Rotate
  <2>3. unseeded => unseeded'
    BY <1>3 DEF Rotate
  <2> QED
    BY <1>3, <2>2, <2>3 DEF Current, Rotate
<1>4. ASSUME NEW p \in Process, Prune(p)
      PROVE  Current' = Current /\ last' = last /\ unseeded' = unseeded
  <2>1. ActiveKeys' = ActiveKeys
    BY <1>4, PruneFacts
  <2>2. Keys # {} /\ ActiveKeys # {}
    BY <1>4 DEF Prune, TypeInv, Working
  <2>3. Keys' # {}
    BY <2>1, <2>2 DEF ActiveKeys
  <2> QED
    BY <1>4, <2>1, <2>2, <2>3 DEF Current, Prune
<1>5. ASSUME NEW p \in Process, Seed(p), UNCHANGED <<made, demoted>>
      PROVE  UNCHANGED <<made, demoted, last, unseeded>>
  BY <1>5 DEF Seed
<1>6. ASSUME NEW p \in Process,
             Boot(p) \/ BootBlind(p) \/ Crash(p) \/ Trigger(p) \/ List(p) \/ Swap(p)
             \/ Finish(p) \/ Fail(p) \/ Sign(p)
      PROVE  UNCHANGED <<made, demoted, last, unseeded>>
  BY <1>6 DEF Boot, BootBlind, Crash, Trigger, List, Swap, Finish, Fail, Sign, table
<1>7. CASE Operator \/ Tick \/ UNCHANGED vars
  BY <1>1, <1>7 DEF Operator, Tick, vars, table
<1> QED
  BY <1>1, <1>2, <1>3, <1>4, <1>5, <1>6, <1>7 DEF Next, Handle, Seed

\* A ring read now, from the table or the environment, signs with the newest key it
\* saw, if that key is active.
LEMMA RingReadNow ==
    ASSUME TypeInv
    PROVE  /\ Keys # {} /\ last \in Current => Loaded.signer = last
           /\ EnvRing.upto = last => EnvRing.signer = last
<1>1. ASSUME Keys # {}, last \in Current PROVE Loaded.signer = last
  <2>1. last \in ActiveKeys /\ Loaded.signer \in ActiveKeys
    BY <1>1, LoadedFacts DEF Current
  <2> QED
    BY <2>1 DEF TypeInv, TypeOK
<1> QED
  BY <1>1 DEF EnvRing

\* Every step keeps those who have seen the newest key signing with it.
LEMMA NewestStep ==
    ASSUME TypeInv, SeedInv, NewestInv, [Next]_vars PROVE NewestInv'
<1> USE DEF NewestInv
<1>0. /\ pc \in [Process -> State] /\ last \in Nat
      /\ upto \in [Process -> 1 .. last] /\ read \in [Process -> RingRead]
      /\ signer \in [Process -> Key] /\ ring \in [Process -> SUBSET Key]
      /\ \A q \in Process : read[q].upto <= last
      /\ EnvKey \in Nat
  BY KeyRotationAssumption DEF TypeInv, TypeOK, Key, EnvKey
<1>1. ASSUME NEW p \in Process, Boot(p) PROVE NewestInv'
  <2>1. UNCHANGED <<Current, last, read>>
    BY <1>1 DEF Boot, Current, Keys, ActiveKeys, table
  <2>2. \A q \in Process : q # p => UNCHANGED <<pc[q], signer[q], upto[q]>>
    BY <1>0, <1>1 DEF Boot, Install, Goto
  <2>3. signer'[p] = last \/ upto'[p] # last \/ last \notin Current
    BY <1>0, <1>1, RingReadNow DEF Boot, Install
  <2>4. pc'[p] # "swapping"
    BY <1>0, <1>1 DEF Boot, Goto
  <2> QED
    BY <2>1, <2>2, <2>3, <2>4 DEF Up
<1>2. ASSUME NEW p \in Process, BootBlind(p) PROVE NewestInv'
  <2>1. UNCHANGED <<Current, last, read>>
    BY <1>2 DEF BootBlind, Current, Keys, ActiveKeys, table
  <2>2. \A q \in Process : q # p => UNCHANGED <<pc[q], signer[q], upto[q]>>
    BY <1>0, <1>2 DEF BootBlind, Install, Goto
  <2>3. signer'[p] = last \/ upto'[p] # last \/ last \notin Current
    BY <1>0, <1>2, RingReadNow DEF BootBlind, Install
  <2>4. pc'[p] # "swapping"
    BY <1>0, <1>2 DEF BootBlind, Goto
  <2> QED
    BY <2>1, <2>2, <2>3, <2>4 DEF Up
<1>3. ASSUME NEW p \in Process, Seed(p) PROVE NewestInv'
  <2>1. UNCHANGED <<signer, upto, read, last>> /\ pc[p] = "seeding"
    BY <1>3 DEF Seed
  <2>2. Current' = Current \/ last \notin Current'
    <3>1. last' # last + 1
      BY <1>0, <2>1
    <3> QED
      BY <3>1, CurrentKept
  <2>3. \A q \in Process : pc'[q] = pc[q] \/ (Up(q) /\ pc'[q] = "up")
    BY <1>0, <1>3 DEF Seed, Goto, Up
  <2> QED
    BY <2>1, <2>2, <2>3 DEF Up
<1>4. ASSUME NEW p \in Process, Crash(p) PROVE NewestInv'
  <2>1. UNCHANGED <<Current, last>>
    BY <1>4 DEF Crash, Current, Keys, ActiveKeys, table
  <2>2. \A q \in Process : q # p => UNCHANGED <<pc[q], signer[q], upto[q], read[q]>>
    BY <1>0, <1>4 DEF Crash, Install, Goto
  <2>3. pc'[p] = "down"
    BY <1>0, <1>4 DEF Crash, Goto
  <2> QED
    BY <2>1, <2>2, <2>3 DEF Up
<1>5. ASSUME NEW p \in Process, Rotate(p) PROVE NewestInv'
  <2>1. last' = last + 1 /\ UNCHANGED <<signer, upto, read>>
    BY <1>5 DEF Rotate
  <2>2. \A q \in Process : upto'[q] # last' /\ read'[q].upto # last'
    <3>1. \A q \in Process : upto[q] \in 1 .. last /\ read[q].upto \in Key
      BY <1>0 DEF RingRead
    <3> QED
      BY <1>0, <2>1, <3>1, KeyRotationAssumption DEF Key
  <2> QED
    BY <2>2
<1>6. ASSUME NEW p \in Process, List(p) PROVE NewestInv'
  <2>1. UNCHANGED <<Current, last, signer, upto>>
    BY <1>6 DEF List, Current, Keys, ActiveKeys, table
  <2>2. \A q \in Process : q # p => UNCHANGED <<pc[q], read[q]>>
    BY <1>0, <1>6 DEF List, Goto
  <2>3. Keys # {} /\ pc[p] = "listing" /\ read'[p] = Loaded
    BY <1>0, <1>6 DEF List, TypeInv, Working
  <2>4. last \in Current => read'[p].signer = last
    BY <2>3, RingReadNow
  <2> QED
    BY <2>1, <2>2, <2>3, <2>4 DEF Up
<1>7. ASSUME NEW p \in Process, Swap(p) PROVE NewestInv'
  <2>1. UNCHANGED <<Current, last>>
    BY <1>7 DEF Swap, Current, Keys, ActiveKeys, table
  <2>2. \A q \in Process : q # p => UNCHANGED <<pc[q], signer[q], upto[q], read[q]>>
    BY <1>0, <1>7 DEF Swap, Install, Goto
  <2>3. /\ pc[p] = "swapping" /\ pc'[p] = "pruning"
        /\ signer'[p] = read[p].signer /\ upto'[p] = read[p].upto
    BY <1>0, <1>7 DEF Swap, Install, Goto
  <2> QED
    BY <2>1, <2>2, <2>3 DEF Up
<1>8. ASSUME NEW p \in Process, Prune(p) PROVE NewestInv'
  <2>1. UNCHANGED <<signer, upto, read, last>> /\ pc[p] = "pruning"
    BY <1>8 DEF Prune
  <2>2. Current' = Current \/ last \notin Current'
    <3>1. last' # last + 1
      BY <1>0, <2>1
    <3> QED
      BY <3>1, CurrentKept
  <2>3. \A q \in Process : pc'[q] = pc[q] \/ (Up(q) /\ pc'[q] = "marking")
    BY <1>0, <1>8 DEF Prune, Goto, Up
  <2> QED
    BY <2>1, <2>2, <2>3 DEF Up
<1>9. ASSUME NEW p \in Process, Finish(p) \/ Fail(p) PROVE NewestInv'
  <2>1. UNCHANGED <<Current, last, signer, upto>>
    BY <1>9 DEF Finish, Fail, Current, Keys, ActiveKeys, table
  <2>2. \A q \in Process : q # p => UNCHANGED <<pc[q], read[q]>>
    BY <1>0, <1>9 DEF Finish, Fail, Goto
  <2>3. pc[p] # "down" /\ pc'[p] = "up"
    BY <1>0, <1>9 DEF Finish, Fail, Goto
  <2> QED
    BY <2>1, <2>2, <2>3 DEF Up
<1>10. CASE (\E p \in Process : Trigger(p) \/ Sign(p)) \/ Operator \/ Tick \/ UNCHANGED vars
  <2>1. UNCHANGED <<Current, last, pc, signer, upto, read>>
    BY <1>10 DEF Trigger, Sign, Operator, Tick, vars, Current, Keys, ActiveKeys, table, own
  <2> QED
    BY <2>1 DEF Up
<1> QED
  BY <1>1, <1>2, <1>3, <1>4, <1>5, <1>6, <1>7, <1>8, <1>9, <1>10 DEF Next, Handle

-----------------------------------------------------------------------------
(* No live token is lost.                                                  *)

\* Every step keeps what is known of the rings.
LEMMA RingStep ==
    ASSUME TypeInv, RingInv, [Next]_vars PROVE RingInv'
<1> USE DEF RingInv
<1>0. /\ pc \in [Process -> State] /\ last \in Nat /\ last >= 1
      /\ upto \in [Process -> 1 .. last] /\ read \in [Process -> RingRead]
      /\ ring \in [Process -> SUBSET Key]
      /\ \A q \in Process : read[q].upto <= last /\ (pc[q] \in Working => Keys # {})
  BY KeyRotationAssumption DEF TypeInv, TypeOK, Key
<1>l. Keys # {} => Loaded.keys \subseteq 1 .. last /\ Loaded.upto = last
  <2>1. Keys \subseteq 1 .. last
    BY DEF TypeInv, TypeOK
  <2> QED
    BY <2>1, LoadedFacts
<1>e. /\ EnvRing.keys \subseteq 1 .. EnvRing.upto /\ EnvRing.upto <= last
      /\ NoRing.keys \subseteq 1 .. NoRing.upto
  BY <1>0 DEF EnvRing, NoRing, EnvKey
<1>1. ASSUME NEW p \in Process, Boot(p) \/ BootBlind(p) \/ Crash(p) PROVE RingInv'
  <2>1. ring'[p] \subseteq 1 .. upto'[p]
    BY <1>0, <1>1, <1>l, <1>e DEF Boot, BootBlind, Crash, Install
  <2>2. \A q \in Process : q # p => UNCHANGED <<pc[q], ring[q], upto[q], read[q]>>
    BY <1>0, <1>1 DEF Boot, BootBlind, Crash, Install, Goto
  <2>3. pc'[p] # "swapping"
    BY <1>0, <1>1 DEF Boot, BootBlind, Crash, Goto
  <2> QED
    BY <2>1, <2>2, <2>3
<1>2. ASSUME NEW p \in Process, List(p) PROVE RingInv'
  <2>1. UNCHANGED <<ring, upto>> /\ \A q \in Process : q # p => UNCHANGED <<pc[q], read[q]>>
    BY <1>0, <1>2 DEF List, Goto
  <2>2. Keys # {} /\ read'[p] = Loaded
    BY <1>0, <1>2 DEF List, Working
  <2>3. upto[p] <= last
    BY <1>0
  <2> QED
    BY <1>l, <2>1, <2>2, <2>3
<1>3. ASSUME NEW p \in Process, Swap(p) PROVE RingInv'
  <2>1. \A q \in Process : q # p => UNCHANGED <<pc[q], ring[q], upto[q], read[q]>>
    BY <1>0, <1>3 DEF Swap, Install, Goto
  <2>2. /\ pc[p] = "swapping" /\ pc'[p] = "pruning"
        /\ ring'[p] = read[p].keys /\ upto'[p] = read[p].upto
    BY <1>0, <1>3 DEF Swap, Install, Goto
  <2> QED
    BY <2>1, <2>2
<1>4. ASSUME NEW p \in Process, Seed(p) \/ Rotate(p) \/ Prune(p) \/ Finish(p) \/ Fail(p)
      PROVE  RingInv'
  <2>1. UNCHANGED <<ring, upto>> /\ \A q \in Process : q # p => UNCHANGED <<pc[q], read[q]>>
    BY <1>0, <1>4 DEF Seed, Rotate, Prune, Finish, Fail, Goto
  <2>2. pc'[p] # "swapping"
    BY <1>0, <1>4 DEF Seed, Rotate, Prune, Finish, Fail, Goto
  <2> QED
    BY <2>1, <2>2
<1>5. CASE (\E p \in Process : Trigger(p) \/ Sign(p)) \/ Operator \/ Tick \/ UNCHANGED vars
  <2>1. UNCHANGED <<pc, ring, upto, read>>
    BY <1>5 DEF Trigger, Sign, Operator, Tick, vars, own
  <2> QED
    BY <2>1
<1> QED
  BY <1>1, <1>2, <1>3, <1>4, <1>5 DEF Next, Handle

\* Every step keeps what is known of the tokens.
LEMMA TokenStep ==
    ASSUME TypeInv, SeedInv, TokenInv, [Next]_vars PROVE TokenInv'
<1> USE KeyRotationAssumption DEF TokenInv
<1>0. /\ now \in Nat /\ last \in Nat /\ last \in Key /\ last >= 1 /\ Never = -1
      /\ TTL \in Nat \ {0} /\ Keep \in Nat /\ Keep >= TTL
      /\ demoted \in [Keys -> {Never} \cup 0 .. now]
      /\ \A t \in token : t.key \in 1 .. last /\ t.until \in 0 .. now + TTL
      /\ \A t \in token : t.until \in Int
  BY DEF TypeInv, TypeOK, Key, Never
<1>k. ASSUME NEW k \in 1 .. MaxKeys, k \notin Keys, Append(k), UNCHANGED <<now, token>>,
             \A t \in token : Covered(t.key)' => Covered(t.key) /\ (Keys = {} => t.key = k)
      PROVE  TokenInv'
  <2>1. /\ Keys' = Keys \cup {k} /\ ActiveKeys' = {k}
        /\ \A i \in Keys \ {k} : demoted'[i] = IF demoted[i] = Never THEN now ELSE demoted[i]
    BY <1>k, AppendFacts
  <2>2. demoted'[k] = Never
    BY <2>1 DEF ActiveKeys
  <2>3. ASSUME NEW t \in token, Covered(t.key)'
        PROVE  t.key \in Keys' /\ (demoted'[t.key] = Never \/ t.until <= demoted'[t.key] + TTL)
    <3>1. CASE Keys = {}
      BY <1>k, <2>1, <2>2, <2>3, <3>1
    <3>2. CASE Keys # {}
      <4>1. /\ t.key \in Keys /\ t.key # k
            /\ demoted[t.key] = Never \/ t.until <= demoted[t.key] + TTL
        BY <1>k, <2>3, <3>2
      <4>2. demoted'[t.key] = IF demoted[t.key] = Never THEN now ELSE demoted[t.key]
        BY <2>1, <4>1
      <4>3. t.until <= now + TTL
        BY <1>0
      <4> QED
        BY <2>1, <4>1, <4>2, <4>3
    <3> QED
      BY <3>1, <3>2
  <2> QED
    BY <1>k, <2>1, <2>3
<1>1. ASSUME NEW p \in Process, Seed(p), EnvKey \notin Keys, Append(EnvKey) PROVE TokenInv'
  <2>1. EnvKey \in 1 .. MaxKeys
    BY <1>0 DEF EnvKey, Key
  <2>2. UNCHANGED <<now, token, unseeded>>
    BY <1>1 DEF Seed
  <2>3. \A t \in token : Covered(t.key)' => Covered(t.key) /\ (Keys = {} => t.key = EnvKey)
    BY <2>2 DEF Covered
  <2> QED
    BY <1>1, <1>k, <2>1, <2>2, <2>3
<1>2. ASSUME NEW p \in Process, Rotate(p) PROVE TokenInv'
  <2>1. last + 1 \in 1 .. MaxKeys /\ last + 1 \notin Keys
    <3>1. Keys \subseteq 1 .. last
      BY DEF TypeInv, TypeOK
    <3> QED
      BY <1>0, <1>2, <3>1 DEF Rotate
  <2>2. UNCHANGED <<now, token>> /\ Append(last + 1) /\ (~unseeded' => ~unseeded /\ Keys # {})
    BY <1>2 DEF Rotate
  <2>3. \A t \in token : Covered(t.key)' => Covered(t.key) /\ (Keys = {} => t.key = last + 1)
    BY <2>2 DEF Covered
  <2> QED
    BY <1>k, <2>1, <2>2, <2>3
<1>3. ASSUME NEW p \in Process, Prune(p) PROVE TokenInv'
  <2>1. /\ Keys' \subseteq Keys
        /\ \A i \in Keys' : demoted'[i] = demoted[i]
        /\ \A i \in Keys \ Keys' : demoted[i] # Never /\ demoted[i] < now - Keep
    BY <1>3, PruneFacts
  <2>2. Keys # {} /\ UNCHANGED <<now, token, unseeded>>
    BY <1>3 DEF Prune, TypeInv, Working
  <2>3. ASSUME NEW t \in token, Covered(t.key) PROVE t.key \in Keys'
    <3>1. /\ t.key \in Keys /\ t.until > now
          /\ demoted[t.key] = Never \/ t.until <= demoted[t.key] + TTL
      BY <2>2, <2>3
    <3>2. demoted[t.key] \in Int /\ t.until \in Int
      BY <1>0, <3>1
    <3>3. ~(demoted[t.key] # Never /\ demoted[t.key] < now - Keep)
      BY <1>0, <3>1, <3>2
    <3> QED
      BY <2>1, <3>1, <3>3
  <2>4. \A t \in token : Covered(t.key)' => Covered(t.key)
    BY <2>2 DEF Covered
  <2> QED
    BY <2>1, <2>2, <2>3, <2>4
<1>4. ASSUME NEW p \in Process, Sign(p) PROVE TokenInv'
  <2> DEFINE t == [key |-> signer[p], until |-> now + TTL]
  <2>1. /\ token' \subseteq token \cup {u \in {t} : u.key \in Current}
        /\ UNCHANGED <<Keys, demoted, now, unseeded>>
    BY <1>4 DEF Sign, Keys, table
  <2>2. t.until > now
    BY <1>0
  <2>3. ASSUME t.key \in Current
        PROVE  /\ Keys = {} => t.key = EnvKey
               /\ Keys # {} => t.key \in Keys /\ demoted[t.key] = Never
    BY <2>3 DEF Current, ActiveKeys
  <2>4. \A k : Covered(k)' => Covered(k)
    BY <2>1 DEF Covered
  <2> HIDE DEF t
  <2> QED
    BY <2>1, <2>2, <2>3, <2>4
<1>5. ASSUME Tick PROVE TokenInv'
  <2>1. /\ UNCHANGED <<Keys, demoted, unseeded>>
        /\ \A t \in token' : t \in token /\ t.until > now'
    BY <1>5 DEF Tick, Keys, table
  <2> QED
    BY <2>1 DEF Covered
<1>6. ASSUME UNCHANGED <<made, demoted, unseeded, now, token>> PROVE TokenInv'
  BY <1>6 DEF Keys, Covered
<1>7. ASSUME NEW p \in Process, Seed(p), UNCHANGED <<made, demoted>> PROVE TokenInv'
  BY <1>6, <1>7 DEF Seed
<1>8. ASSUME NEW p \in Process,
             Boot(p) \/ BootBlind(p) \/ Crash(p) \/ Trigger(p) \/ List(p) \/ Swap(p)
             \/ Finish(p) \/ Fail(p)
      PROVE  TokenInv'
  BY <1>6, <1>8 DEF Boot, BootBlind, Crash, Trigger, List, Swap, Finish, Fail, table
<1>9. CASE Operator \/ UNCHANGED vars
  BY <1>6, <1>9 DEF Operator, vars, table
<1> QED
  BY <1>1, <1>2, <1>3, <1>4, <1>5, <1>7, <1>8, <1>9 DEF Next, Handle, Seed

\* What is in the table now holds every needed key that is covered.
LEMMA LoadedKnows ==
    ASSUME TypeInv, TokenInv, Keys # {}, NEW k \in Needed, Covered(k)
    PROVE  k \in Loaded.keys
<1>1. CASE k \in Current
  BY <1>1, LoadedFacts DEF Current
<1>2. ASSUME NEW t \in token, t.key = k PROVE k \in Loaded.keys
  <2>1. /\ t.key \in Keys /\ t.until > now
        /\ demoted[t.key] = Never \/ t.until <= demoted[t.key] + TTL
    BY <1>2 DEF TokenInv
  <2>2. /\ now \in Nat /\ t.until \in Int /\ demoted[t.key] \in Int
        /\ TTL \in Nat /\ RingWindow \in Nat /\ RingWindow >= TTL
    BY <2>1, KeyRotationAssumption DEF TypeInv, TypeOK, Never
  <2>3. demoted[t.key] = Never \/ ~(demoted[t.key] < now - RingWindow)
    BY <2>1, <2>2
  <2> QED
    BY <1>2, <2>1, <2>3 DEF Loaded
<1> QED
  BY <1>1, <1>2 DEF Needed

\* A step needs the keys that were needed before, and the one it may make.
LEMMA NeededKept ==
    ASSUME TypeInv, SeedInv, [Next]_vars
    PROVE  \A k \in Needed' : Covered(k)' => Covered(k) /\ (k \in Needed \/ k = last + 1)
<1>1. \A k : Covered(k)' => Covered(k)
  BY CurrentKept DEF Covered
<1>2. \A k \in Current' : Covered(k)' => k \in Current \/ k = last + 1
  BY CurrentKept DEF Covered
<1>3. \A t \in token' : t \in token \/ t.key \in Current
  <2>1. ASSUME NEW p \in Process, Sign(p) PROVE \A t \in token' : t \in token \/ t.key \in Current
    BY <2>1 DEF Sign
  <2>2. ASSUME NEW p \in Process,
               Boot(p) \/ BootBlind(p) \/ Seed(p) \/ Crash(p) \/ Trigger(p) \/ Rotate(p) \/ List(p)
               \/ Swap(p) \/ Prune(p) \/ Finish(p) \/ Fail(p)
        PROVE  token' = token
    BY <2>2 DEF Boot, BootBlind, Seed, Crash, Trigger, Rotate, List, Swap, Prune, Finish, Fail
  <2>3. CASE Operator \/ Tick \/ UNCHANGED vars
    BY <2>3 DEF Operator, Tick, vars
  <2> QED
    BY <2>1, <2>2, <2>3 DEF Next, Handle
<1> QED
  BY <1>1, <1>2, <1>3 DEF Needed

\* Every step keeps the covered keys known.
LEMMA KnownStep ==
    ASSUME TypeInv, SeedInv, TokenInv, KnownInv, [Next]_vars PROVE KnownInv'
<1> USE DEF KnownInv
<1>0. /\ pc \in [Process -> State] /\ last \in Nat /\ last >= 1
      /\ upto \in [Process -> 1 .. last] /\ read \in [Process -> RingRead]
      /\ ring \in [Process -> SUBSET Key]
      /\ \A q \in Process : read[q].upto <= last /\ (pc[q] \in Working => Keys # {})
  BY KeyRotationAssumption DEF TypeInv, TypeOK, Key
<1>n. Needed \subseteq 1 .. last
  <2>1. EnvKey \in 1 .. last
    BY <1>0 DEF EnvKey
  <2>2. ActiveKeys \subseteq 1 .. last /\ \A t \in token : t.key \in 1 .. last
    BY DEF TypeInv, TypeOK, ActiveKeys
  <2> QED
    BY <2>1, <2>2 DEF Current, Needed
<1>e. \A k \in Needed : k <= EnvRing.upto => k \in EnvRing.keys
  BY <1>0, <1>n DEF EnvRing, EnvKey
<1>m. \A q \in Process : ~(last + 1 <= upto[q]) /\ (pc[q] = "swapping" => ~(last + 1 <= read[q].upto))
  <2>1. \A q \in Process : upto[q] \in 1 .. last /\ read[q].upto \in Key
    BY <1>0 DEF RingRead
  <2> QED
    BY <1>0, <2>1, KeyRotationAssumption DEF Key
<1>s. ASSUME NEW q \in Process, UNCHANGED <<ring[q], upto[q]>>, Up(q)' => Up(q),
             pc'[q] = "swapping" => pc[q] = "swapping" /\ UNCHANGED read[q],
             NEW k \in Needed', Covered(k)'
      PROVE  /\ Up(q)' /\ k <= upto'[q] => k \in ring'[q]
             /\ pc'[q] = "swapping" /\ k <= read'[q].upto => k \in read'[q].keys
  <2>1. Covered(k) /\ (k \in Needed \/ k = last + 1)
    BY <1>s, NeededKept
  <2>2. CASE k \in Needed
    BY <1>s, <2>1, <2>2
  <2>3. CASE k = last + 1
    BY <1>m, <1>s, <2>3
  <2> QED
    BY <2>1, <2>2, <2>3
<1>1. ASSUME NEW p \in Process, Boot(p) \/ BootBlind(p) \/ Crash(p) PROVE KnownInv'
  <2>1. UNCHANGED <<Current, token, Needed, unseeded>>
    BY <1>1 DEF Boot, BootBlind, Crash, Current, Keys, ActiveKeys, Needed, table
  <2>2. \A q \in Process : q # p => UNCHANGED <<pc[q], ring[q], upto[q], read[q]>>
    BY <1>0, <1>1 DEF Boot, BootBlind, Crash, Install, Goto
  <2>3. ASSUME NEW k \in Needed, Covered(k), Up(p)', k <= upto'[p] PROVE k \in ring'[p]
    <3>1. CASE Boot(p) /\ Keys # {}
      BY <1>0, <2>3, <3>1, LoadedKnows DEF Boot, Install
    <3>2. CASE (Boot(p) /\ Keys = {}) \/ BootBlind(p)
      BY <1>0, <1>e, <2>3, <3>2 DEF Boot, BootBlind, Install
    <3>3. CASE Crash(p)
      BY <1>0, <2>3, <3>3 DEF Crash, Goto, Up
    <3> QED
      BY <1>1, <3>1, <3>2, <3>3
  <2>4. pc'[p] # "swapping"
    BY <1>0, <1>1 DEF Boot, BootBlind, Crash, Goto
  <2> QED
    BY <2>1, <2>2, <2>3, <2>4 DEF Up, Covered, Needed
<1>2. ASSUME NEW p \in Process,
             Seed(p) \/ Prune(p) \/ Rotate(p) \/ Finish(p) \/ Fail(p) \/ Trigger(p) \/ Sign(p)
      PROVE  KnownInv'
  <2>1. ASSUME NEW q \in Process
        PROVE  /\ Up(q)' => Up(q)
               /\ pc'[q] = "swapping" => pc[q] = "swapping" /\ UNCHANGED read[q]
               /\ UNCHANGED <<ring[q], upto[q]>>
    BY <1>0, <1>2 DEF Seed, Prune, Rotate, Finish, Fail, Trigger, Sign, Goto, Up, own
  <2> QED
    BY <1>s, <2>1
<1>3. ASSUME NEW p \in Process, List(p) PROVE KnownInv'
  <2>1. UNCHANGED <<Current, token, Needed, unseeded, ring, upto>>
    BY <1>3 DEF List, Current, Keys, ActiveKeys, Needed, table
  <2>2. \A q \in Process : q # p => UNCHANGED <<pc[q], read[q]>>
    BY <1>0, <1>3 DEF List, Goto
  <2>3. Keys # {} /\ pc[p] = "listing" /\ read'[p] = Loaded
    BY <1>0, <1>3 DEF List, Working
  <2>4. \A k \in Needed : Covered(k) => k \in read'[p].keys
    BY <2>3, LoadedKnows
  <2> QED
    BY <2>1, <2>2, <2>3, <2>4 DEF Up, Covered, Needed
<1>4. ASSUME NEW p \in Process, Swap(p) PROVE KnownInv'
  <2>1. UNCHANGED <<Current, token, Needed, unseeded>>
    BY <1>4 DEF Swap, Current, Keys, ActiveKeys, Needed, table
  <2>2. \A q \in Process : q # p => UNCHANGED <<pc[q], ring[q], upto[q], read[q]>>
    BY <1>0, <1>4 DEF Swap, Install, Goto
  <2>3. /\ pc[p] = "swapping" /\ pc'[p] = "pruning"
        /\ ring'[p] = read[p].keys /\ upto'[p] = read[p].upto
    BY <1>0, <1>4 DEF Swap, Install, Goto
  <2> QED
    BY <2>1, <2>2, <2>3 DEF Up, Covered, Needed
<1>5. CASE Operator \/ Tick \/ UNCHANGED vars
  <2>1. UNCHANGED <<pc, ring, upto, read>>
    BY <1>5 DEF Operator, Tick, vars, own
  <2> QED
    BY <1>s, <2>1 DEF Up
<1> QED
  BY <1>1, <1>2, <1>3, <1>4, <1>5 DEF Next, Handle

-----------------------------------------------------------------------------
(* The theorems.                                                           *)

\* Type correctness, for every number of processes and every window.
THEOREM TypeCorrect == Spec => []TypeOK
<1>1. TypeInv /\ [Next]_vars => TypeInv'
  BY TypeStep
<1>2. TypeInv => TypeOK
  BY DEF TypeInv
<1> QED
  BY <1>1, <1>2, TypeInit, PTL DEF Spec

\* With or without the trigger, a process that has read the table since the newest
\* key was made signs with that key while it is the active one (AppendActive,
\* seedKeyringFromEnv, Swap).
THEOREM NewestCorrect == Spec => []NewestSigns
<1>1. Init => TypeInv /\ SeedInv /\ NewestInv
  BY TypeInit, SeedInit, NewestInit
<1>2. (TypeInv /\ SeedInv /\ NewestInv) /\ [Next]_vars => (TypeInv /\ SeedInv /\ NewestInv)'
  BY TypeStep, SeedStep, NewestStep
<1>3. NewestInv => NewestSigns
  BY DEF NewestInv, NewestSigns
<1> QED
  BY <1>1, <1>2, <1>3, PTL DEF Spec

\* What every deployment keeps invariant, with the trigger or without.
FreshInv == TypeInv /\ SeedInv /\ RingInv /\ TokenInv /\ KnownInv

\* At first there is no token.
LEMMA FreshInit == Init => FreshInv
<1>1. Init => RingInv /\ TokenInv /\ KnownInv
  BY DEF Init, RingInv, TokenInv, KnownInv, Up
<1> QED
  BY <1>1, TypeInit, SeedInit DEF FreshInv

\* Every step keeps the invariant of covered tokens.
LEMMA FreshStep == FreshInv /\ [Next]_vars => FreshInv'
  BY TypeStep, SeedStep, RingStep, TokenStep, KnownStep DEF FreshInv

\* With the trigger or without, and windows no shorter than a token's life, no process
\* that has read the table since a key was made loses that key while a token of it
\* lives; only the environment's key is lost, when a rotation fills the empty table.
THEOREM FreshCorrect == Spec => []FreshTokensVerify
<1>1. FreshInv /\ [Next]_vars => FreshInv'
  BY FreshStep
<1>2. FreshInv => FreshTokensVerify
  BY DEF FreshInv, KnownInv, Needed, FreshTokensVerify, Verifies
<1> QED
  BY <1>1, <1>2, FreshInit, PTL DEF Spec

\* And no process that stays up begins to refuse a token that it accepted: a ring
\* that is installed is never older than the one it takes the place of.
THEOREM AcceptedCorrect == Spec => AcceptedStaysAccepted
<1> DEFINE Keeps == \A t \in token : \A p \in Process :
                       Covered(t.key) /\ t.until > now' /\ Up(p) /\ pc'[p] # "down" /\ Verifies(p, t)
                       => t.key \in ring'[p]
<1>1. ASSUME FreshInv, [Next]_vars PROVE Keeps \/ UNCHANGED vars
  <2>0. /\ pc \in [Process -> State] /\ ring \in [Process -> SUBSET Key]
        /\ upto \in [Process -> 1 .. last] /\ read \in [Process -> RingRead]
    BY <1>1 DEF FreshInv, TypeInv, TypeOK
  <2>1. ASSUME NEW p \in Process, Swap(p), NEW t \in token, Covered(t.key), t.key \in ring[p]
        PROVE  t.key \in ring'[p]
    <3>1. pc[p] = "swapping" /\ ring'[p] = read[p].keys
      BY <2>0, <2>1 DEF Swap, Install
    <3>2. t.key \in 1 .. upto[p] /\ upto[p] <= read[p].upto
      BY <1>1, <2>1, <3>1 DEF FreshInv, RingInv
    <3>3. last \in Nat /\ read[p].upto \in Nat /\ upto[p] \in Nat
      BY <1>1, <2>0, KeyRotationAssumption DEF FreshInv, TypeInv, TypeOK, RingRead, Key
    <3>4. t.key <= read[p].upto
      BY <3>2, <3>3
    <3> QED
      BY <1>1, <2>1, <3>1, <3>4 DEF FreshInv, KnownInv, Needed
  <2>2. ASSUME NEW p \in Process, Swap(p) PROVE Keeps
    BY <2>0, <2>1, <2>2 DEF Swap, Install, Verifies
  <2>3. ASSUME NEW p \in Process, Boot(p) \/ BootBlind(p) \/ Crash(p) PROVE Keeps
    BY <2>0, <2>3 DEF Boot, BootBlind, Crash, Install, Goto, Verifies, Up
  <2>4. ASSUME UNCHANGED ring PROVE Keeps
    BY <2>4 DEF Verifies
  <2>5. ASSUME NEW p \in Process,
               Seed(p) \/ Trigger(p) \/ Rotate(p) \/ List(p) \/ Prune(p) \/ Finish(p) \/ Fail(p)
               \/ Sign(p)
        PROVE  Keeps
    BY <2>4, <2>5 DEF Seed, Trigger, Rotate, List, Prune, Finish, Fail, Sign, own
  <2>6. CASE Operator \/ Tick
    BY <2>4, <2>6 DEF Operator, Tick, own
  <2> HIDE DEF Keeps
  <2> QED
    BY <1>1, <2>2, <2>3, <2>5, <2>6 DEF Next, Handle
<1>2. FreshInv /\ [Next]_vars => FreshInv' /\ [Keeps]_vars
  BY <1>1, FreshStep
<1> QED
  BY <1>2, FreshInit, PTL DEF Spec, AcceptedStaysAccepted
=============================================================================
