------------------------------ MODULE AuctionLedger ------------------------------
(***************************************************************************)
(* What the auction market of marketplace_auction_adapter.go and the       *)
(* wallet of wallet_holds.go promise together: every request is one step   *)
(* on the wallets, the bids and the listings.  A bid takes its price out   *)
(* of the bidder's wallet into a hold and gives the hold of the bid it     *)
(* beats back; the settlement turns the hold of the top bid into a payment *)
(* to the seller, or gives it back when the reserve is not met.            *)
(*                                                                         *)
(* AuctionEscrow shows that transactions which lock row after row, die,    *)
(* deadlock and start again implement these steps.                         *)
(*                                                                         *)
(* Auctions exist and are open from the first state on; one currency; the  *)
(* orders, the clone of the agent and the bindings made after the commit   *)
(* do not touch money and are left out.                                    *)
(***************************************************************************)
EXTENDS Integers, Sequences

CONSTANTS
    User,        \* users, numbered: the wallet locks accounts in this order
    Auction,     \* listings with mode 'auction'
    Seller,      \* Seller[a]: who put a up
    Ask,         \* Ask[a]: starting price, and price of an outright purchase
    Reserve,     \* Reserve[a]: 0 when the seller set none
    Increment,   \* auction_min_increment_minor
    Window,      \* auction_anti_snipe_seconds
    Duration,    \* auction_ends_at of every auction, at the start
    Funds        \* Funds[u]: what u's wallet holds at the start

ASSUME LedgerAssumption ==
    /\ User \subseteq Nat
    /\ Seller \in [Auction -> User]
    /\ Ask \in [Auction -> Nat \ {0}]
    /\ Reserve \in [Auction -> Nat]
    /\ Increment \in Nat /\ Window \in Nat /\ Duration \in Nat
    /\ Funds \in [User -> Nat]

VARIABLES
    now,         \* the clock
    balance,     \* wallet_accounts.balance_minor
    bids,        \* agent_market_bids with the hold of each, in order of insertion
    listing,     \* agent_market_listings; top is the index in bids, 0 for none
    recharged    \* how often one unit was paid in

ledgerVars == <<now, balance, bids, listing, recharged>>

Bid == [auction : Auction, bidder : User, price : Nat \ {0},
        status : {"active", "outbid", "won", "refunded"},
        hold : {"active", "released", "captured"}]

LedgerInit ==
    /\ now = 0
    /\ balance = Funds
    /\ bids = <<>>
    /\ listing = [a \in Auction |->
         [status |-> "active", top |-> 0, endsAt |-> Duration, settled |-> FALSE]]
    /\ recharged = 0

-----------------------------------------------------------------------------
(* The rules of the auction.                                               *)

Open(a) == listing[a].status = "active"

Held(a) == {i \in DOMAIN bids : bids[i].auction = a /\ bids[i].hold = "active"}

TopPrice(a) == IF listing[a].top = 0 THEN 0 ELSE bids[listing[a].top].price

MinNextBid(a) ==
    IF TopPrice(a) = 0 THEN Ask[a]
    ELSE TopPrice(a) + (IF Increment < 1 THEN 1 ELSE Increment)

\* A bid at time t leaves at least Window for the next one.
AntiSnipe(ends, t) == IF t + Window > ends THEN t + Window ELSE ends

Winner(a) == listing[a].top # 0 /\ TopPrice(a) >= Reserve[a]

\* The seller may not bid, a bid comes before the end and beats the minimum.
Acceptable(a, u, x, t) ==
    Open(a) /\ u # Seller[a] /\ t < listing[a].endsAt /\ x >= MinNextBid(a)

\* A bid whose hold goes back to the bidder.  ErrHoldNotActive is ignored.
Released(b, st) ==
    [b EXCEPT !.status = st, !.hold = IF @ = "active" THEN "released" ELSE @]

\* The bids after the top bid of a was let go.
LetGo(a, st) == [i \in DOMAIN bids |->
    IF i = listing[a].top THEN Released(bids[i], st) ELSE bids[i]]

NewBid(a, u, x) == [auction |-> a, bidder |-> u, price |-> x,
                    status |-> "active", hold |-> "active"]

Topped(a, ends) ==
    [listing EXCEPT ![a] = [@ EXCEPT !.top = Len(bids) + 1, !.endsAt = ends]]

Closed(a, st) == [listing EXCEPT ![a] = [@ EXCEPT !.status = st, !.settled = TRUE]]

-----------------------------------------------------------------------------
(* The steps.                                                              *)

\* What w gets back when the top bid of a loses its hold.
Refund(a, w) ==
    IF listing[a].top \in Held(a) /\ bids[listing[a].top].bidder = w
    THEN TopPrice(a) ELSE 0

\* The bid is judged at a time t that may have passed when it counts.
PlaceBid(a, u, x, t) ==
    /\ t <= now
    /\ Acceptable(a, u, x, t)
    /\ balance[u] >= x
    /\ balance' = [w \in User |-> balance[w] + Refund(a, w) - (IF w = u THEN x ELSE 0)]
    /\ bids' = Append(LetGo(a, "outbid"), NewBid(a, u, x))
    /\ listing' = Topped(a, AntiSnipe(listing[a].endsAt, t))
    /\ UNCHANGED <<now, recharged>>

Sell(a) ==
    /\ Open(a) /\ now >= listing[a].endsAt /\ Winner(a)
    /\ listing[a].top \in Held(a)
    /\ balance' = [balance EXCEPT ![Seller[a]] = @ + TopPrice(a)]
    /\ bids' = [bids EXCEPT ![listing[a].top] =
                    [@ EXCEPT !.status = "won", !.hold = "captured"]]
    /\ listing' = Closed(a, "sold")
    /\ UNCHANGED <<now, recharged>>

CloseUnsold(a) ==
    /\ Open(a) /\ now >= listing[a].endsAt /\ ~Winner(a)
    /\ balance' = [w \in User |-> balance[w] + Refund(a, w)]
    /\ bids' = LetGo(a, "refunded")
    /\ listing' = Closed(a, "cancelled")
    /\ UNCHANGED <<now, recharged>>

\* The listing service knows nothing of bids: no hold is given back.
CancelListing(a) ==
    /\ Open(a)
    /\ listing' = [listing EXCEPT ![a].status = "cancelled"]
    /\ UNCHANGED <<now, balance, bids, recharged>>

PurchaseListing(a, u) ==
    /\ Open(a) /\ u # Seller[a] /\ balance[u] >= Ask[a]
    /\ balance' = [balance EXCEPT ![u] = @ - Ask[a], ![Seller[a]] = @ + Ask[a]]
    /\ listing' = [listing EXCEPT ![a].status = "sold"]
    /\ UNCHANGED <<now, bids, recharged>>

Recharge(u) ==
    /\ balance' = [balance EXCEPT ![u] = @ + 1]
    /\ recharged' = recharged + 1
    /\ UNCHANGED <<now, bids, listing>>

Pass == now' = now + 1 /\ UNCHANGED <<balance, bids, listing, recharged>>

LedgerNext ==
    \/ \E a \in Auction, u \in User, t \in 0 .. now :
         \E x \in 1 .. balance[u] : PlaceBid(a, u, x, t)
    \/ \E a \in Auction : Sell(a) \/ CloseUnsold(a) \/ CancelListing(a)
    \/ \E a \in Auction, u \in User : PurchaseListing(a, u)
    \/ \E u \in User : Recharge(u)
    \/ Pass

LedgerSpec == LedgerInit /\ [][LedgerNext]_ledgerVars

-----------------------------------------------------------------------------
LedgerTypeOK ==
    /\ now \in Nat
    /\ balance \in [User -> Nat]
    /\ bids \in Seq(Bid)
    /\ listing \in [Auction -> [status : {"active", "sold", "cancelled"},
                                top : Nat, endsAt : Nat, settled : BOOLEAN]]
    /\ recharged \in Nat

(* While an auction is open its top bid is the highest of its bids and the  *)
(* only one with money in a hold: who was outbid has the money back, and    *)
(* the winner's money is there when the settlement comes                    *)
(* (marketplace_auction_adapter.go, PlaceBid and settleAuctionTx).          *)
TopHoldsFunds ==
    \A a \in Auction : Open(a) =>
        /\ listing[a].top = 0 => \A i \in DOMAIN bids : bids[i].auction # a
        /\ listing[a].top # 0 =>
             /\ Held(a) = {listing[a].top}
             /\ \A i \in DOMAIN bids : bids[i].auction = a /\ i # listing[a].top
                  => bids[i].price < TopPrice(a)

(* A settled auction holds nobody's money, and it was sold exactly if one   *)
(* hold, that of the top bid, became a payment and that bid reached the     *)
(* reserve (settleAuctionTx).                                               *)
SettledClean ==
    \A a \in Auction : listing[a].settled =>
        /\ ~Open(a)
        /\ Held(a) = {}
        /\ {i \in DOMAIN bids : bids[i].auction = a /\ bids[i].hold = "captured"}
             = IF listing[a].status = "sold" THEN {listing[a].top} ELSE {}
        /\ listing[a].status = "sold" => Winner(a)

(* The comment of PlaceBid, "all losing bidders are refunded by auction     *)
(* close": once a listing is closed, no bid but the winner's has money in a *)
(* hold.                                                                    *)
LosersRefunded ==
    \A a \in Auction : ~Open(a) => Held(a) = {}
==============================================================================
