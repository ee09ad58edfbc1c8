------------------------------- MODULE KeyRotation -------------------------------
(***************************************************************************)
(* The keys that sign and verify session tokens (internal/secrets and the  *)
(* jwt_rotation files of cmd/server).  Table jwt_keyring holds the keys;   *)
(* every server process works with a ring of its own, a copy of the table  *)
(* that it takes at boot and when it handles a rotation event.  A trigger  *)
(* in every process queues such an event when the active key has aged, and *)
(* the outbox hands it to one process, again after a failure.              *)
(*                                                                         *)
(* Keys are numbered in the order of their making, as their kids are; key  *)
(* 1 is the one of the environment, the same in every process.  A token is *)
(* the key that signed it, which the table did not know to be demoted, and *)
(* its last moment.  All clocks agree.                                     *)
(***************************************************************************)
EXTENDS Integers, FiniteSets

CONSTANTS
    Process,
    TTL,          \* of a session token
    Keep,         \* KeepRotatedWindow: a demoted key older than this is pruned
    RingWindow,   \* a demoted key older than this is not loaded (72 hours)
    Interval,     \* JWT_ROTATION_INTERVAL
    MaxKeys,      \* bound: keys made
    MaxQueue,     \* bound: rotation events pending
    MaxFaults,    \* bound: crashes, failed handlers, loads, seeds and enqueues
    Horizon       \* bound: the clock stops here

ASSUME KeyRotationAssumption ==
    /\ {TTL, MaxKeys} \subseteq Nat \ {0}
    /\ {Keep, RingWindow, Interval, MaxQueue, MaxFaults, Horizon} \subseteq Nat
    /\ Keep >= TTL /\ RingWindow >= TTL

VARIABLES
    now,
    manual,      \* JWT_ROTATION_INTERVAL is 0, the default: nobody seeds, no trigger
    made,        \* time of making of each key in the table
    demoted,     \* rotated_out_at, Never while the key is active
    last,        \* the newest key made so far
    unseeded,    \* a rotation, not the seed, put the first key into the table
    queue,       \* rotation events pending in the outbox
    pc,          \* what each process is doing
    ring,        \* the keys each process verifies with
    signer,      \* the key it signs with
    upto,        \* the newest key made when it read its ring from the table
    read,        \* the keys, signer and newest key a process has read and not yet installed
    queuedAt,    \* lastEnqueuedAt of its trigger
    token,       \* the tokens in the hands of users that carry a promise
    faults

table == <<made, demoted, last, unseeded>>
own == <<pc, ring, signer, upto, read, queuedAt>>
vars == <<now, manual, table, queue, own, token, faults>>

Key == 1 .. MaxKeys
EnvKey == 1
Never == -1
Long == -(Interval + 1)    \* a lastEnqueuedAt long ago, the zero time

Keys == DOMAIN made
ActiveKeys == {k \in Keys : demoted[k] = Never}
\* The key that new tokens ought to be signed with.
Current == IF Keys = {} THEN {EnvKey} ELSE ActiveKeys

\* Mutant: the ring is built of the active key alone.
LoadedActiveOnly ==
    [keys |-> ActiveKeys, signer |-> CHOOSE k \in ActiveKeys : TRUE, upto |-> last]

\* A ring that was read: ListAll, then BuildKeyringFromStored without the
\* keys demoted longer ago than its window.
Loaded ==
    [keys |-> {k \in Keys : demoted[k] = Never \/ ~(demoted[k] < now - RingWindow)},
     signer |-> CHOOSE k \in ActiveKeys : TRUE,
     upto |-> last]

EnvRing == [keys |-> {EnvKey}, signer |-> EnvKey, upto |-> EnvKey]

NoRing == [keys |-> {}, signer |-> EnvKey, upto |-> EnvKey]

Init ==
    /\ now = 0
    /\ manual \in BOOLEAN
    /\ made = <<>> /\ demoted = <<>>
    /\ last = EnvKey
    /\ unseeded = FALSE
    /\ queue = 0
    /\ pc = [p \in Process |-> "down"]
    /\ ring = [p \in Process |-> {}]
    /\ signer = [p \in Process |-> EnvKey]
    /\ upto = [p \in Process |-> EnvKey]
    /\ read = [p \in Process |-> NoRing]
    /\ queuedAt = [p \in Process |-> Long]
    /\ token = {}
    /\ faults = 0

-----------------------------------------------------------------------------
(* Boot.                                                                   *)

\* Mutant: the new keys verify, the old one goes on signing.
InstallForVerification(p, r) ==
    /\ ring' = [ring EXCEPT ![p] = r.keys]
    /\ upto' = [upto EXCEPT ![p] = r.upto]
    /\ UNCHANGED signer

Install(p, r) ==
    /\ ring' = [ring EXCEPT ![p] = r.keys]
    /\ signer' = [signer EXCEPT ![p] = r.signer]
    /\ upto' = [upto EXCEPT ![p] = r.upto]

Goto(p, where) == pc' = [pc EXCEPT ![p] = where]

\* The keys of the table if it has any; else the key of the environment, to be seeded.
Boot(p) ==
    /\ pc[p] = "down"
    /\ IF Keys # {}
       THEN Install(p, Loaded) /\ Goto(p, "up")
       ELSE Install(p, EnvRing) /\ Goto(p, IF manual THEN "up" ELSE "seeding")
    /\ UNCHANGED <<now, manual, table, queue, read, queuedAt, token, faults>>

\* The table cannot be read or a key not decrypted: the process takes the environment's.
BootBlind(p) ==
    /\ pc[p] = "down"
    /\ faults < MaxFaults
    /\ faults' = faults + 1
    /\ Install(p, EnvRing)
    /\ Goto(p, "up")
    /\ UNCHANGED <<now, manual, table, queue, read, queuedAt, token>>

\* Mutant: the prior active key is left active.
AppendOnly(k) ==
    /\ made' = [i \in Keys \cup {k} |-> IF i = k THEN now ELSE made[i]]
    /\ demoted' = [i \in Keys \cup {k} |-> IF i = k THEN Never ELSE demoted[i]]

\* AppendActive(k): demote the active key and insert k in one transaction.
Append(k) ==
    /\ made' = [i \in Keys \cup {k} |-> IF i = k THEN now ELSE made[i]]
    /\ demoted' = [i \in Keys \cup {k} |->
                       IF i = k THEN Never
                       ELSE IF demoted[i] = Never THEN now ELSE demoted[i]]

\* seedKeyringFromEnv: UNIQUE(kid) refuses the key that another process has seeded.
\* A seed that comes after a rotation of the empty table demotes the rotated key.
Seed(p) ==
    /\ pc[p] = "seeding"
    /\ Goto(p, "up")
    /\ \/ EnvKey \notin Keys /\ Append(EnvKey) /\ UNCHANGED faults
       \/ EnvKey \in Keys /\ UNCHANGED <<made, demoted, faults>>
       \/ /\ faults < MaxFaults
          /\ faults' = faults + 1
          /\ UNCHANGED <<made, demoted>>
    /\ UNCHANGED <<now, manual, last, unseeded, queue, ring, signer, upto, read, queuedAt, token>>

\* A crash gives the event back to the outbox with the transaction that held it.
Crash(p) ==
    /\ pc[p] # "down"
    /\ faults < MaxFaults
    /\ faults' = faults + 1
    /\ Goto(p, "down")
    /\ queue' = IF pc[p] \in {"up", "seeding"} THEN queue ELSE queue + 1
    /\ Install(p, NoRing)
    /\ read' = [read EXCEPT ![p] = NoRing]
    /\ queuedAt' = [queuedAt EXCEPT ![p] = Long]
    /\ UNCHANGED <<now, manual, table, token>>

-----------------------------------------------------------------------------
(* The trigger.                                                            *)

\* Mutant: due at the very moment the interval ends.
DueAtTheHour(p) ==
    /\ \E k \in ActiveKeys : now - made[k] = Interval
    /\ 2 * (now - queuedAt[p]) >= Interval

Due(p) ==
    /\ \E k \in ActiveKeys : now - made[k] >= Interval
    /\ 2 * (now - queuedAt[p]) >= Interval

\* The moment is noted before the event is queued: a failed insert loses the event
\* and still makes the trigger wait; the bounded clock leaves room for that wait.
Trigger(p) ==
    /\ pc[p] \notin {"down", "seeding"}
    /\ ~manual
    /\ Due(p)
    /\ queuedAt' = [queuedAt EXCEPT ![p] = now]
    /\ \/ queue < MaxQueue /\ queue' = queue + 1 /\ UNCHANGED faults
       \/ /\ faults < MaxFaults /\ 2 * (Horizon - now) >= Interval
          /\ faults' = faults + 1
          /\ UNCHANGED queue
    /\ UNCHANGED <<now, manual, table, pc, ring, signer, upto, read, token>>

\* INSERT INTO outbox_events by hand, whatever the table holds.
Operator ==
    /\ queue < MaxQueue
    /\ queue' = queue + 1
    /\ UNCHANGED <<now, manual, table, own, token, faults>>

-----------------------------------------------------------------------------
(* The handler of a rotation event, in the flusher of one process.         *)

\* The claim, the new key and AppendActive.  The key of the environment does not
\* come into a table that a rotation fills first.
Rotate(p) ==
    /\ pc[p] = "up"
    /\ queue > 0
    /\ last < MaxKeys
    /\ queue' = queue - 1
    /\ last' = last + 1
    /\ Append(last + 1)
    /\ unseeded' = (unseeded \/ Keys = {})
    /\ Goto(p, "listing")
    /\ UNCHANGED <<now, manual, ring, signer, upto, read, queuedAt, token, faults>>

List(p) ==
    /\ pc[p] = "listing"
    /\ read' = [read EXCEPT ![p] = Loaded]
    /\ Goto(p, "swapping")
    /\ UNCHANGED <<now, manual, table, queue, ring, signer, upto, queuedAt, token, faults>>

Swap(p) ==
    /\ pc[p] = "swapping"
    /\ Install(p, read[p])
    /\ read' = [read EXCEPT ![p] = NoRing]
    /\ Goto(p, "pruning")
    /\ UNCHANGED <<now, manual, table, queue, queuedAt, token, faults>>

\* Mutant: the age of a key is taken for the time since its demotion.
PrunableByAge == {k \in Keys : demoted[k] # Never /\ made[k] < now - Keep}

Prunable == {k \in Keys : demoted[k] # Never /\ demoted[k] < now - Keep}

\* A failure of the pruning is only logged.
Prune(p) ==
    /\ pc[p] = "pruning"
    /\ Goto(p, "marking")
    /\ \/ /\ made' = [k \in Keys \ Prunable |-> made[k]]
          /\ demoted' = [k \in Keys \ Prunable |-> demoted[k]]
          /\ UNCHANGED faults
       \/ /\ faults < MaxFaults
          /\ faults' = faults + 1
          /\ UNCHANGED <<made, demoted>>
    /\ UNCHANGED <<now, manual, last, unseeded, queue, ring, signer, upto, read, queuedAt, token>>

\* The flusher commits the event as consumed.
Finish(p) ==
    /\ pc[p] = "marking"
    /\ Goto(p, "up")
    /\ UNCHANGED <<now, manual, table, queue, ring, signer, upto, read, queuedAt, token, faults>>

\* An error before the swap, or the loss of the mark at the end: the event comes again.
Fail(p) ==
    /\ pc[p] \in {"listing", "swapping", "marking"}
    /\ faults < MaxFaults
    /\ faults' = faults + 1
    /\ queue' = queue + 1
    /\ read' = [read EXCEPT ![p] = NoRing]
    /\ Goto(p, "up")
    /\ UNCHANGED <<now, manual, table, ring, signer, upto, queuedAt, token>>

-----------------------------------------------------------------------------
(* Tokens and time.                                                        *)

Live(t) == t.until > now

\* writeAuthSuccess: signed with the active key of the ring at hand.  A token of a key
\* that the table has already demoted carries no promise and is not kept, and of the
\* others of a key only the one that lives longest: it is refused last of all.
Sign(p) ==
    /\ pc[p] \notin {"down", "seeding"}
    /\ LET t == [key |-> signer[p], until |-> now + TTL]
       IN token' = IF t.key \in Current THEN {u \in token : u.key # t.key} \cup {t} ELSE token
    /\ UNCHANGED <<now, manual, table, queue, own, faults>>

\* Tokens past their end are forgotten; nobody accepts them any more.  The seed
\* follows the look at the table at once, in far less than any window.
Tick ==
    /\ now < Horizon
    /\ \A p \in Process : pc[p] # "seeding"
    /\ now' = now + 1
    /\ token' = {t \in token : t.until > now + 1}
    /\ UNCHANGED <<manual, table, queue, own, faults>>

Handle(p) == Rotate(p) \/ List(p) \/ Swap(p) \/ Prune(p) \/ Finish(p)

Next ==
    \/ \E p \in Process :
        \/ Boot(p) \/ BootBlind(p) \/ Seed(p) \/ Crash(p)
        \/ Trigger(p)
        \/ Handle(p) \/ Fail(p)
        \/ Sign(p)
    \/ Operator
    \/ Tick

Spec == Init /\ [][Next]_vars

\* Processes are restarted, tickers tick, the flusher polls, time goes on.
Fairness ==
    /\ WF_vars(Tick)
    /\ \A p \in Process :
        /\ WF_vars(Boot(p)) /\ WF_vars(Seed(p))
        /\ WF_vars(Trigger(p)) /\ WF_vars(Handle(p))

FairSpec == Spec /\ Fairness

-----------------------------------------------------------------------------
(* Properties.                                                             *)

State == {"down", "seeding", "up", "listing", "swapping", "pruning", "marking"}
RingRead == [keys : SUBSET Key, signer : Key, upto : Key]

\* Type correctness: a key is in the table with both its times, one at most is
\* active, and the queue holds no more than was put in it.
TypeOK ==
    /\ now \in 0 .. Horizon
    /\ manual \in BOOLEAN /\ unseeded \in BOOLEAN
    /\ last \in Key
    /\ Keys \subseteq 1 .. last
    /\ made \in [Keys -> 0 .. now]
    /\ demoted \in [Keys -> {Never} \cup 0 .. now]
    /\ \A k, l \in ActiveKeys : k = l
    /\ queue \in Nat
    /\ pc \in [Process -> State]
    /\ ring \in [Process -> SUBSET Key]
    /\ signer \in [Process -> Key]
    /\ upto \in [Process -> 1 .. last]
    /\ read \in [Process -> RingRead]
    /\ queuedAt \in [Process -> {Long} \cup 0 .. now]
    /\ token \subseteq [key : 1 .. last, until : 0 .. now + TTL]
    /\ faults \in 0 .. MaxFaults

Up(p) == pc[p] # "down"
Verifies(p, t) == t.key \in ring[p]

\* The keys whose tokens the grace period covers.  Left out is the key of the
\* environment once a rotation filled the empty table: the ring is built of rows, and
\* that key has none (jwt_rotation_handler.go:159), or gets one late from a seed that
\* lost the race.
Covered(k) == k = EnvKey => ~unseeded

\* A token signed with the key that was the active one is good to its end at
\* every process that has read the table since that key was made, with or without the
\* trigger: whatever is rotated, pruned, seeded, read late or read again, no process
\* loses a covered key whose tokens still live (BuildKeyringFromStored,
\* PruneRotatedOutBefore, Handle).
FreshTokensVerify ==
    \A t \in token : \A p \in Process :
        Covered(t.key) /\ Up(p) /\ t.key <= upto[p] => Verifies(p, t)

\* A process that has read its ring since the newest key was made signs with that
\* key while it is the active one: two rotations at once, or a ring read before the
\* other and installed after it, leave no process that believes to be up to date with
\* an old key (AppendActive, Swap).
NewestSigns ==
    \A p \in Process : Up(p) /\ upto[p] = last /\ last \in Current => signer[p] = last

\* A process that stays up never starts to refuse a live token that it signed or
\* accepted while the key of it was the active one, if the key is covered
\* (jwt_rotation_handler.go:36).
AcceptedStaysAccepted ==
    [][\A t \in token : \A p \in Process :
         Covered(t.key) /\ t.until > now' /\ Up(p) /\ pc'[p] # "down" /\ Verifies(p, t)
         => t.key \in ring'[p]]_vars

\* An active key that has aged is replaced where the trigger is on, as long as there
\* are keys to make: an enqueue that fails keeps its trigger silent for half an
\* interval, and failed handlers, lost marks and crashes too only delay the rotation
\* (jwt_rotation_trigger.go:147).
RotationHappens ==
    \A k \in Key \ {MaxKeys} :
        (k \in ActiveKeys /\ now - made[k] >= Interval /\ ~manual)
        ~> (k \notin ActiveKeys \/ last = MaxKeys)
=============================================================================
