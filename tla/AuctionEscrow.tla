------------------------------ MODULE AuctionEscrow ------------------------------
(***************************************************************************)
(* The same market as it runs: each request is a database transaction of   *)
(* some session that locks its listing, then one wallet after the other,   *)
(* computes the new balances in the program and writes them at the end.    *)
(*                                                                         *)
(* The order of the wallet locks is the code's.  TransferWithTx sorts its  *)
(* two; a bid takes the bidder's and then that of the bidder it beats, and *)
(* a settlement takes the winner's first, so sessions can deadlock, and    *)
(* the database makes one of them fail.                                    *)
(***************************************************************************)
EXTENDS AuctionLedger, FiniteSets, FiniteSetsExt

CONSTANTS
    Session,      \* connections to the database
    Loop,         \* the one the settlement loop works on
    MaxRequests,  \* bound: requests users make
    MaxAborts,    \* bound: transactions lost to crashes and timeouts
    MaxPrice,     \* bound: price of a bid
    Horizon       \* bound: where the clock stops

ASSUME EscrowAssumption ==
    /\ Loop \in Session
    /\ MaxRequests \in Nat /\ MaxAborts \in Nat /\ MaxPrice \in Nat
    /\ Horizon \in Nat
    /\ \* The end moves by less than Window per bid: every auction can be due.
       Horizon >= Duration + MaxRequests * (IF Window = 0 THEN 0 ELSE Window - 1)

VARIABLES
    tx,        \* the transaction of each session
    ledger,    \* sum of each wallet's wallet_ledger_entries
    requests,  \* requests made by users
    aborts     \* transactions lost

vars == <<ledgerVars, tx, ledger, requests, aborts>>

-----------------------------------------------------------------------------
(* A transaction: the operation and its arguments, the time it read, the   *)
(* postings to make, and the wallets it locked so far with the balance it  *)
(* will write and the sum of the ledger entries it inserted.               *)

Idle == [op |-> "idle"]

Busy(s) == tx[s].op # "idle"

Begin(s, op, a, u, x, postings) ==
    tx' = [tx EXCEPT ![s] = [op |-> op, auction |-> a, user |-> u, price |-> x,
                             at |-> now, todo |-> postings, wallet |-> <<>>]]

\* Mutant: the listing is read without FOR UPDATE.
ListingFreeUnlocked(a) == a \in Auction

\* FOR UPDATE on the listing, held to the end of the transaction.
ListingFree(a) ==
    \A s \in Session : Busy(s) => tx[s].auction # a

Init ==
    /\ LedgerInit
    /\ tx = [s \in Session |-> Idle]
    /\ ledger = Funds
    /\ requests = 0
    /\ aborts = 0

-----------------------------------------------------------------------------
(* The postings, each an amount for one wallet.                            *)

Posting(u, d) == <<u, d>>

\* ReleaseHoldWithTx for each of some bids: only an active hold pays back.  The
\* database lists them in any order, but no auction has two.
Refunds(is) ==
    LET due == {i \in is : bids[i].hold = "active"}
        Nth(k) == CHOOSE i \in due : Cardinality({j \in due : j < i}) = k - 1
    IN  [k \in 1 .. Cardinality(due) |-> Posting(bids[Nth(k)].bidder, bids[Nth(k)].price)]

\* TransferWithTx locks the lower of the two first, whatever it is to do there.
Transfer(from, to, x) ==
    IF from < to THEN <<Posting(from, 0), Posting(to, x), Posting(from, -x)>>
    ELSE <<Posting(to, x), Posting(from, -x)>>

\* CaptureHoldWithTx gives the hold back, then transfers.
Capture(i, to) == Refunds({i}) \o Transfer(bids[i].bidder, to, bids[i].price)

ActiveBids(a) == {i \in DOMAIN bids : bids[i].auction = a /\ bids[i].status = "active"}

Top(a) == listing[a].top

BidPostings(a, u, x) ==
    <<Posting(u, -x)>> \o IF Top(a) = 0 THEN <<>> ELSE Refunds({Top(a)})

\* Mutant: the settlement pays the seller but never debits the winner again.
SettlePostingsOnlyCredit(a) ==
    IF Winner(a) THEN Refunds({Top(a)}) \o <<Posting(Seller[a], TopPrice(a))>>
    ELSE Refunds(ActiveBids(a))

SettlePostings(a) ==
    IF Winner(a)
    THEN Capture(Top(a), Seller[a]) \o Refunds(ActiveBids(a) \ {Top(a)})
    ELSE Refunds(ActiveBids(a))

-----------------------------------------------------------------------------
(* A transaction begins when it gets the listing lock, and the checks made *)
(* under that lock let it go on.                                           *)

Request == requests < MaxRequests /\ requests' = requests + 1

Enter(s, a) == ~Busy(s) /\ ListingFree(a) /\ Open(a)

UserSession == Session \ {Loop}

OpenBid(s, a, u, x) ==
    /\ Enter(s, a) /\ Request
    /\ Acceptable(a, u, x, now)
    /\ Begin(s, "bid", a, u, x, BidPostings(a, u, x))
    /\ UNCHANGED <<ledgerVars, ledger, aborts>>

OpenPurchase(s, a, u) ==
    /\ Enter(s, a) /\ Request
    /\ u # Seller[a]
    /\ Begin(s, "purchase", a, u, Ask[a], Transfer(u, Seller[a], Ask[a]))
    /\ UNCHANGED <<ledgerVars, ledger, aborts>>

\* Credit locks no listing.
OpenRecharge(s, u) ==
    /\ ~Busy(s) /\ Request
    /\ Begin(s, "recharge", "none", u, 1, <<Posting(u, 1)>>)
    /\ UNCHANGED <<ledgerVars, ledger, aborts>>

\* Mutant: a settlement on demand does not look at the clock.
DueAtOnce(a) == a \in Auction

Due(a) == now >= listing[a].endsAt

OpenSettle(s, a) ==
    /\ Enter(s, a)
    /\ Due(a)
    /\ Begin(s, "settle", a, Seller[a], 0, SettlePostings(a))
    /\ UNCHANGED <<ledgerVars, ledger, aborts>>

\* Mutant: the loop looks for auctions with a bid.
LoopSettleOfBids(a) == Top(a) # 0 /\ OpenSettle(Loop, a) /\ UNCHANGED requests

\* Every 5 seconds, one due auction after the other.
LoopSettle(a) == OpenSettle(Loop, a) /\ UNCHANGED requests

\* By the seller, on demand.
SellerSettle(s, a) == OpenSettle(s, a) /\ Request

\* One UPDATE by the seller, which waits for the listing lock.
Cancel(a) ==
    /\ ListingFree(a)
    /\ CancelListing(a)
    /\ Request
    /\ UNCHANGED <<tx, ledger, aborts>>

-----------------------------------------------------------------------------
(* Working through the postings.                                           *)

Locked(s, u) == Busy(s) /\ u \in DOMAIN tx[s].wallet

Working(s) == Busy(s) /\ tx[s].todo # <<>>

\* Mutant: accounts are read without FOR UPDATE.
WalletFreeUnlocked(s) == Busy(s)

\* FOR UPDATE on the account that the next posting is for.
WalletFree(s) == \A r \in Session \ {s} : ~Locked(r, Head(tx[s].todo)[1])

\* What the program computes from what it reads under the lock.
Balanced(s) ==
    LET u == Head(tx[s].todo)[1]
        d == Head(tx[s].todo)[2]
        was == IF Locked(s, u) THEN tx[s].wallet[u]
               ELSE [balance |-> balance[u], entries |-> 0]
    IN  [balance |-> was.balance + d, entries |-> was.entries + d]

Posted(s) ==
    LET u == Head(tx[s].todo)[1]
        held == tx[s].wallet
    IN  /\ tx' = [tx EXCEPT ![s] =
                     [@ EXCEPT !.todo = Tail(tx[s].todo),
                               !.wallet = [w \in DOMAIN held \union {u} |->
                                             IF w = u THEN Balanced(s) ELSE held[w]]]]
        /\ UNCHANGED <<ledgerVars, ledger, requests, aborts>>

\* Mutant: the debit does not look at the balance.
PostUnchecked(s) ==
    /\ Working(s) /\ WalletFree(s)
    /\ Posted(s)

Post(s) ==
    /\ Working(s) /\ WalletFree(s)
    /\ Balanced(s).balance >= 0
    /\ Posted(s)

Rollback(s) ==
    /\ tx' = [tx EXCEPT ![s] = Idle]
    /\ UNCHANGED <<ledgerVars, ledger, requests>>

\* ErrInsufficientBalance
Refuse(s) ==
    /\ Working(s) /\ WalletFree(s)
    /\ Balanced(s).balance < 0
    /\ Rollback(s)
    /\ UNCHANGED aborts

Blocks(q, r) == Working(r) /\ q # r /\ Locked(q, Head(tx[r].todo)[1])

\* The database ends one of the sessions that wait for one another in a ring.
Deadlocked(s) ==
    \E C \in SUBSET Session : s \in C /\ \A r \in C :
        (\E q \in C : Blocks(q, r)) /\ (\E q \in C : Blocks(r, q))

BreakDeadlock(s) ==
    /\ Deadlocked(s)
    /\ Rollback(s)
    /\ UNCHANGED aborts

\* The process dies, the connection breaks, the clone of the agent fails.
Abort(s) ==
    /\ Busy(s) /\ aborts < MaxAborts
    /\ aborts' = aborts + 1
    /\ Rollback(s)

-----------------------------------------------------------------------------
(* The end of a transaction: what it wrote becomes visible at once.        *)

Ended(s, op) == Busy(s) /\ tx[s].todo = <<>> /\ tx[s].op = op

\* UPDATE wallet_accounts SET balance_minor: the computed value, not a change.
WriteWallets(s) ==
    /\ balance' = [u \in User |-> IF Locked(s, u) THEN tx[s].wallet[u].balance ELSE balance[u]]
    /\ ledger' = [u \in User |-> ledger[u] + (IF Locked(s, u) THEN tx[s].wallet[u].entries ELSE 0)]
    /\ tx' = [tx EXCEPT ![s] = Idle]
    /\ UNCHANGED <<now, requests, aborts>>

CommitBid(s) ==
    LET t == tx[s] IN
    /\ Ended(s, "bid")
    /\ bids' = Append(LetGo(t.auction, "outbid"), NewBid(t.auction, t.user, t.price))
    /\ listing' = Topped(t.auction, AntiSnipe(listing[t.auction].endsAt, t.at))
    /\ UNCHANGED recharged
    /\ WriteWallets(s)

CommitPurchase(s) ==
    /\ Ended(s, "purchase")
    /\ listing' = [listing EXCEPT ![tx[s].auction].status = "sold"]
    /\ UNCHANGED <<bids, recharged>>
    /\ WriteWallets(s)

CommitRecharge(s) ==
    /\ Ended(s, "recharge")
    /\ recharged' = recharged + 1
    /\ UNCHANGED <<bids, listing>>
    /\ WriteWallets(s)

\* Mutant: an unsold auction closes and keeps the hold.
SettledWithoutRelease(a) == [i \in DOMAIN bids |->
    IF i = Top(a) /\ Winner(a)
    THEN [bids[i] EXCEPT !.status = "won", !.hold = "captured"] ELSE bids[i]]

\* Every other active bid is refunded, the winner's hold is captured.
Settled(a) == [i \in DOMAIN bids |->
    IF i = Top(a) /\ Winner(a)
    THEN [bids[i] EXCEPT !.status = "won", !.hold = "captured"]
    ELSE IF i \in ActiveBids(a) THEN Released(bids[i], "refunded") ELSE bids[i]]

CommitSettle(s) ==
    LET a == tx[s].auction IN
    /\ Ended(s, "settle")
    /\ bids' = Settled(a)
    /\ listing' = Closed(a, IF Winner(a) THEN "sold" ELSE "cancelled")
    /\ UNCHANGED recharged
    /\ WriteWallets(s)

Tick ==
    /\ now < Horizon
    /\ now' = now + 1
    /\ UNCHANGED <<balance, bids, listing, recharged, tx, ledger, requests, aborts>>

-----------------------------------------------------------------------------
Commit(s) == CommitBid(s) \/ CommitPurchase(s) \/ CommitRecharge(s) \/ CommitSettle(s)

Next ==
    \/ \E s \in UserSession, a \in Auction, u \in User :
         \/ \E x \in 1 .. MaxPrice : OpenBid(s, a, u, x)
         \/ OpenPurchase(s, a, u)
    \/ \E s \in UserSession, u \in User : OpenRecharge(s, u)
    \/ \E s \in UserSession, a \in Auction : SellerSettle(s, a)
    \/ \E a \in Auction : LoopSettle(a) \/ Cancel(a)
    \/ \E s \in Session :
         Post(s) \/ Refuse(s) \/ BreakDeadlock(s) \/ Abort(s) \/ Commit(s)
    \/ Tick

(* The clock runs; a session goes on; the loop comes back to a due auction; *)
(* a session that waits for a wallet gets it in its turn, as the database   *)
(* queues the waiters of a row.                                             *)
Fairness ==
    /\ WF_vars(Tick)
    /\ \A a \in Auction : WF_vars(LoopSettle(a))
    /\ \A s \in Session :
         /\ SF_vars(Post(s))
         /\ WF_vars(Refuse(s) \/ BreakDeadlock(s) \/ Commit(s))

Spec == Init /\ [][Next]_vars

FairSpec == Spec /\ Fairness

-----------------------------------------------------------------------------
Wallet == [balance : Nat, entries : Int]

TxOK(t) ==
    \/ t = Idle
    \/ /\ t.op \in {"bid", "purchase", "recharge", "settle"}
       /\ t.auction \in Auction \union {"none"} /\ t.user \in User /\ t.price \in Nat /\ t.at \in 0 .. now
       /\ \A k \in DOMAIN t.todo : t.todo[k][1] \in User /\ t.todo[k][2] \in Int
       /\ DOMAIN t.wallet \subseteq User
       /\ \A u \in DOMAIN t.wallet : t.wallet[u] \in Wallet

TypeOK ==
    /\ LedgerTypeOK
    /\ \A s \in Session : TxOK(tx[s])
    /\ ledger \in [User -> Nat]
    /\ requests \in 0 .. MaxRequests
    /\ aborts \in 0 .. MaxAborts

Total(f, S) == FoldSet(LAMBDA e, n : n + f[e], 0, S)

(* The accounting model of wallet_holds.go, "Balance and ledger move        *)
(* together": the balance written from a value read earlier in the          *)
(* transaction is the sum of the wallet's entries, in every interleaving.   *)
BooksBalance == balance = ledger

(* Money is in a wallet or in a hold and nowhere else: what the users had   *)
(* plus what was paid in is what the wallets and the active holds contain   *)
(* (HoldFundsWithTx, ReleaseHoldWithTx, CaptureHoldWithTx, TransferWithTx). *)
MoneyConserved ==
    Total(balance, User)
      + Total([i \in DOMAIN bids |-> bids[i].price],
              {i \in DOMAIN bids : bids[i].hold = "active"})
      = Total(Funds, User) + recharged

(* The settlement loop closes every auction, through lost transactions,     *)
(* deadlocks and bids that move the end.                                    *)
EventuallySettled == \A a \in Auction : <>(~Open(a))
==============================================================================
