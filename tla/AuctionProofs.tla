------------------------------ MODULE AuctionProofs ------------------------------
(***************************************************************************)
(* Proofs about the auction market, for all users, auctions, sessions,     *)
(* prices and times.                                                       *)
(*                                                                         *)
(* First the promise, AuctionLedger: TopHoldsFunds and SettledClean are    *)
(* inductive together with two facts: the top of an auction is one of its  *)
(* bids and the only active one, and nothing of an open auction has been   *)
(* captured.  The invariant speaks of one auction at a time, since a step  *)
(* touches the bids of one.                                                *)
(*                                                                         *)
(* Then the transactions, AuctionEscrow: what each has posted and still    *)
(* has to post is what the promised step moves, the rows it read are the   *)
(* rows it writes, and so its commit is that step and all others stutter.  *)
(***************************************************************************)
EXTENDS AuctionEscrow, FiniteSetTheorems, SequenceTheorems, WellFoundedInduction,
    TLAPS

BidsOf(a) == {i \in DOMAIN bids : bids[i].auction = a}

OpenInv(a) ==
    /\ listing[a].top = 0 => BidsOf(a) = {}
    /\ listing[a].top # 0 =>
         /\ bids[listing[a].top].hold = "active"
         /\ bids[listing[a].top].status = "active"
         /\ \A i \in BidsOf(a) : i # listing[a].top =>
              /\ bids[i].hold # "active" /\ bids[i].status # "active"
              /\ bids[i].price < bids[listing[a].top].price
    /\ \A i \in BidsOf(a) : bids[i].hold # "captured"
    /\ ~listing[a].settled

SettledInv(a) ==
    /\ \A i \in BidsOf(a) : bids[i].hold # "active"
    /\ listing[a].status = "cancelled" => \A i \in BidsOf(a) : bids[i].hold # "captured"
    /\ listing[a].status = "sold" =>
         /\ listing[a].top # 0
         /\ bids[listing[a].top].price >= Reserve[a]
         /\ \A i \in BidsOf(a) : bids[i].hold = "captured" <=> i = listing[a].top

AuctionInv(a) ==
    /\ listing[a].top = 0 \/ listing[a].top \in BidsOf(a)
    /\ listing[a].status = "active" => OpenInv(a)
    /\ listing[a].settled => SettledInv(a)

LedgerInv == LedgerTypeOK /\ \A a \in Auction : AuctionInv(a)

-----------------------------------------------------------------------------
(* A function on an initial segment of the naturals is a sequence.         *)
LEMMA FunctionIsSeq ==
    ASSUME NEW S, NEW n \in Nat, NEW f \in [1 .. n -> S]
    PROVE  f \in Seq(S) /\ Len(f) = n
BY SeqDef, LenProperties

(* Letting the top bid of a go changes status and hold of that bid only.   *)
LEMMA LetGoFacts ==
    ASSUME LedgerTypeOK, NEW a \in Auction, NEW st \in {"outbid", "refunded"}
    PROVE  /\ LetGo(a, st) \in Seq(Bid)
           /\ Len(LetGo(a, st)) = Len(bids)
           /\ DOMAIN LetGo(a, st) = DOMAIN bids
           /\ \A i \in DOMAIN bids :
                /\ LetGo(a, st)[i].auction = bids[i].auction
                /\ LetGo(a, st)[i].price = bids[i].price
                /\ i # listing[a].top => LetGo(a, st)[i] = bids[i]
                /\ LetGo(a, st)[i].status = IF i = listing[a].top THEN st ELSE bids[i].status
                /\ LetGo(a, st)[i].hold = IF i = listing[a].top /\ bids[i].hold = "active"
                                          THEN "released" ELSE bids[i].hold
<1>1. bids \in Seq(Bid) /\ Len(bids) \in Nat /\ DOMAIN bids = 1 .. Len(bids)
  BY DEF LedgerTypeOK
<1>2. \A i \in DOMAIN bids : bids[i] \in Bid
  BY <1>1
<1>3. \A i \in DOMAIN bids :
         /\ Released(bids[i], st) \in Bid
         /\ Released(bids[i], st).auction = bids[i].auction
         /\ Released(bids[i], st).price = bids[i].price
         /\ Released(bids[i], st).status = st
         /\ Released(bids[i], st).hold = IF bids[i].hold = "active" THEN "released"
                                         ELSE bids[i].hold
  BY <1>2 DEF Released, Bid
<1>4. LetGo(a, st) \in [1 .. Len(bids) -> Bid]
  BY <1>1, <1>2, <1>3 DEF LetGo
<1>5. LetGo(a, st) \in Seq(Bid) /\ Len(LetGo(a, st)) = Len(bids)
  BY <1>1, <1>4, FunctionIsSeq
<1> QED
  BY <1>1, <1>3, <1>4, <1>5 DEF LetGo

(* What goes back to a user is an amount of money.                         *)
LEMMA RefundType ==
    ASSUME LedgerTypeOK, NEW a \in Auction, NEW w \in User
    PROVE  Refund(a, w) \in Nat
<1>1. CASE listing[a].top \in Held(a)
  <2>1. listing[a].top \in DOMAIN bids
    BY <1>1 DEF Held
  <2>2. bids[listing[a].top] \in Bid
    BY <2>1 DEF LedgerTypeOK
  <2>3. listing[a].top # 0
    BY <2>1 DEF LedgerTypeOK
  <2> QED
    BY <2>2, <2>3 DEF Refund, TopPrice, Bid
<1>2. CASE listing[a].top \notin Held(a)
  BY <1>2 DEF Refund
<1> QED
  BY <1>1, <1>2

ListingType ==
    [Auction -> [status : {"active", "sold", "cancelled"},
                 top : Nat, endsAt : Nat, settled : BOOLEAN]]

-----------------------------------------------------------------------------
(* Types.                                                                  *)
LEMMA TypeInit == LedgerInit => LedgerTypeOK
<1> SUFFICES ASSUME LedgerInit PROVE LedgerTypeOK
  OBVIOUS
<1>1. <<>> \in Seq(Bid)
  OBVIOUS
<1> QED
  BY <1>1, LedgerAssumption DEF LedgerInit, LedgerTypeOK

\* Every request keeps the types.
LEMMA TypeStep == LedgerTypeOK /\ [LedgerNext]_ledgerVars => LedgerTypeOK'
<1> SUFFICES ASSUME LedgerTypeOK, [LedgerNext]_ledgerVars PROVE LedgerTypeOK'
  OBVIOUS
<1>0. /\ bids \in Seq(Bid) /\ Len(bids) \in Nat /\ DOMAIN bids = 1 .. Len(bids)
      /\ now \in Nat /\ balance \in [User -> Nat] /\ recharged \in Nat
  BY DEF LedgerTypeOK
<1>1. ASSUME NEW a \in Auction, NEW u \in User, NEW t \in 0 .. now,
             NEW x \in 1 .. balance[u], PlaceBid(a, u, x, t)
      PROVE  LedgerTypeOK'
  <2>1. balance' \in [User -> Nat]
    <3>1. balance' = [w \in User |-> balance[w] + Refund(a, w) - (IF w = u THEN x ELSE 0)]
      BY <1>1 DEF PlaceBid
    <3>2. \A w \in User : Refund(a, w) \in Nat
      BY RefundType
    <3>3. balance[u] \in Nat /\ x \in Nat /\ x <= balance[u]
      BY <1>0
    <3>4. \A w \in User : balance[w] + Refund(a, w) - (IF w = u THEN x ELSE 0) \in Nat
      BY <1>0, <3>2, <3>3
    <3> QED
      BY <3>1, <3>4
  <2>2. bids' \in Seq(Bid)
    <3>1. NewBid(a, u, x) \in Bid
      BY <1>0 DEF NewBid, Bid
    <3>2. LetGo(a, "outbid") \in Seq(Bid)
      BY LetGoFacts
    <3> QED
      BY <1>1, <3>1, <3>2 DEF PlaceBid
  <2>3. AntiSnipe(listing[a].endsAt, t) \in Nat
    BY LedgerAssumption, <1>0 DEF AntiSnipe, LedgerTypeOK
  <2>4. listing' \in ListingType
    <3>1. listing \in ListingType
      BY DEF LedgerTypeOK, ListingType
    <3>2. listing' = Topped(a, AntiSnipe(listing[a].endsAt, t))
      BY <1>1 DEF PlaceBid
    <3>3. Len(bids) + 1 \in Nat
      BY <1>0
    <3> QED
      BY <2>3, <3>1, <3>2, <3>3 DEF Topped, ListingType
  <2>5. now' = now /\ recharged' = recharged
    BY <1>1 DEF PlaceBid
  <2> QED
    BY <1>0, <2>1, <2>2, <2>4, <2>5 DEF LedgerTypeOK, ListingType
<1>2. ASSUME NEW a \in Auction, Sell(a) PROVE LedgerTypeOK'
  <2>1. listing[a].top \in DOMAIN bids /\ listing[a].top # 0
    BY <1>0, <1>2 DEF Sell, Held, LedgerTypeOK
  <2>2. bids[listing[a].top] \in Bid
    BY <1>0, <2>1
  <2>3. TopPrice(a) \in Nat
    BY <2>1, <2>2 DEF TopPrice, Bid
  <2>4. Seller[a] \in User
    BY LedgerAssumption
  <2>5. balance' \in [User -> Nat]
    BY <1>0, <1>2, <2>3, <2>4 DEF Sell
  <2>6. bids' \in Seq(Bid)
    <3>1. bids' \in [1 .. Len(bids) -> Bid]
      <4>1. bids \in [1 .. Len(bids) -> Bid]
        BY <1>0
      <4> QED
        BY <4>1, <1>2, <2>1, <2>2 DEF Sell, Bid
    <3> QED
      BY <3>1, <1>0, FunctionIsSeq
  <2> QED
    BY <1>0, <1>2, <2>5, <2>6 DEF Sell, Closed, LedgerTypeOK
<1>3. ASSUME NEW a \in Auction, CloseUnsold(a) PROVE LedgerTypeOK'
  <2>1. \A w \in User : Refund(a, w) \in Nat
    BY RefundType
  <2>2. balance' \in [User -> Nat]
    BY <1>0, <1>3, <2>1 DEF CloseUnsold
  <2>3. bids' \in Seq(Bid)
    BY <1>3, LetGoFacts DEF CloseUnsold
  <2> QED
    BY <1>0, <1>3, <2>2, <2>3 DEF CloseUnsold, Closed, LedgerTypeOK
<1>4. ASSUME NEW a \in Auction, CancelListing(a) PROVE LedgerTypeOK'
  BY <1>4 DEF CancelListing, LedgerTypeOK
<1>5. ASSUME NEW a \in Auction, NEW u \in User, PurchaseListing(a, u) PROVE LedgerTypeOK'
  <2>1. Seller[a] \in User /\ Ask[a] \in Nat
    BY LedgerAssumption
  <2>2. balance' \in [User -> Nat]
    <3> DEFINE paid == [balance EXCEPT ![u] = @ - Ask[a]]
    <3>1. balance[u] \in Nat /\ balance[u] >= Ask[a]
      BY <1>0, <1>5 DEF PurchaseListing
    <3>2. balance[u] - Ask[a] \in Nat
      BY <2>1, <3>1
    <3>3. paid \in [User -> Nat]
      BY <1>0, <3>2
    <3>4. balance' = [paid EXCEPT ![Seller[a]] = @ + Ask[a]]
      BY <1>5 DEF PurchaseListing
    <3> HIDE DEF paid
    <3> QED
      BY <2>1, <3>3, <3>4
  <2>3. listing' \in ListingType
    <3>1. listing \in ListingType
      BY DEF LedgerTypeOK, ListingType
    <3>2. listing' = [listing EXCEPT ![a].status = "sold"]
      BY <1>5 DEF PurchaseListing
    <3> QED
      BY <3>1, <3>2 DEF ListingType
  <2> QED
    BY <1>5, <2>2, <2>3 DEF PurchaseListing, LedgerTypeOK, ListingType
<1>6. ASSUME NEW u \in User, Recharge(u) PROVE LedgerTypeOK'
  BY <1>6 DEF Recharge, LedgerTypeOK
<1>7. CASE Pass
  BY <1>7 DEF Pass, LedgerTypeOK
<1>8. CASE UNCHANGED ledgerVars
  BY <1>8 DEF ledgerVars, LedgerTypeOK
<1> QED
  BY <1>1, <1>2, <1>3, <1>4, <1>5, <1>6, <1>7, <1>8 DEF LedgerNext

(* Wallets never go negative, bids and listings keep their types, whatever  *)
(* the requests: PlaceBid, settleAuctionTx, PurchaseListing and Credit.     *)
THEOREM TypeCorrect == LedgerSpec => []LedgerTypeOK
  BY TypeInit, TypeStep, PTL DEF LedgerSpec

-----------------------------------------------------------------------------
(* Holds and prices.                                                       *)

(* A step that leaves the listing and the bids of b alone keeps b's part.  *)
Untouched(b) ==
    /\ listing'[b] = listing[b]
    /\ BidsOf(b)' = BidsOf(b)
    /\ \A i \in BidsOf(b) : bids'[i] = bids[i]

\* What is true of an auction stays true when it is untouched.
LEMMA Frame ==
    ASSUME NEW b \in Auction, AuctionInv(b), Untouched(b)
    PROVE  AuctionInv(b)'
BY DEF Untouched, AuctionInv, OpenInv, SettledInv

(* A step that replaces bids of a only, in place, leaves those of b alone.  *)
LEMMA FrameInPlace ==
    ASSUME NEW a \in Auction, NEW b \in Auction, a # b,
           listing'[b] = listing[b],
           DOMAIN bids' = DOMAIN bids,
           \A i \in DOMAIN bids : bids'[i].auction = bids[i].auction,
           \A i \in DOMAIN bids : bids[i].auction # a => bids'[i] = bids[i]
    PROVE  Untouched(b)
<1>1. BidsOf(b)' = BidsOf(b)
  BY DEF BidsOf
<1>2. \A i \in BidsOf(b) : bids'[i] = bids[i]
  BY DEF BidsOf
<1> QED
  BY <1>1, <1>2 DEF Untouched

\* Auctions begin without bids.
LEMMA InvInit == LedgerInit => LedgerInv
<1> SUFFICES ASSUME LedgerInit PROVE LedgerInv
  OBVIOUS
<1>1. \A a \in Auction : AuctionInv(a)
  <2> SUFFICES ASSUME NEW a \in Auction PROVE AuctionInv(a)
    OBVIOUS
  <2>1. BidsOf(a) = {}
    BY DEF LedgerInit, BidsOf
  <2>2. listing[a].top = 0 /\ listing[a].settled = FALSE
    BY DEF LedgerInit
  <2> QED
    BY <2>1, <2>2 DEF AuctionInv, OpenInv
<1> QED
  BY <1>1, TypeInit DEF LedgerInv

(* The new bid is the top: it beats every price, and the old top is let go. *)
LEMMA PlaceBidInv ==
    ASSUME LedgerInv, NEW a \in Auction, NEW u \in User, NEW t \in 0 .. now,
           NEW x \in 1 .. balance[u], PlaceBid(a, u, x, t), NEW b \in Auction
    PROVE  AuctionInv(b)' /\ (b # a => Untouched(b))
<1> DEFINE n == Len(bids)
<1>0. LedgerTypeOK /\ AuctionInv(a) /\ AuctionInv(b)
  BY DEF LedgerInv
<1>1. bids \in Seq(Bid) /\ n \in Nat /\ DOMAIN bids = 1 .. n
  BY <1>0 DEF LedgerTypeOK
<1>2. \A i \in DOMAIN bids : bids[i] \in Bid
  BY <1>1
<1>3. LetGo(a, "outbid") \in Seq(Bid) /\ Len(LetGo(a, "outbid")) = n
  BY <1>0, LetGoFacts
<1>4. bids' = Append(LetGo(a, "outbid"), NewBid(a, u, x))
  BY DEF PlaceBid
<1>5. DOMAIN bids' = 1 .. n + 1
  BY <1>1, <1>3, <1>4
<1>6. \A i \in 1 .. n : bids'[i] = LetGo(a, "outbid")[i]
  BY <1>1, <1>3, <1>4
<1>7. bids'[n + 1] = NewBid(a, u, x)
  BY <1>1, <1>3, <1>4
<1>8. \A i \in 1 .. n :
        /\ bids'[i].auction = bids[i].auction
        /\ bids'[i].price = bids[i].price
        /\ i # listing[a].top => bids'[i] = bids[i]
        /\ bids'[i].status = IF i = listing[a].top THEN "outbid" ELSE bids[i].status
        /\ bids'[i].hold = IF i = listing[a].top /\ bids[i].hold = "active"
                           THEN "released" ELSE bids[i].hold
  BY <1>0, <1>1, <1>6, LetGoFacts
<1>9. /\ bids'[n + 1].auction = a /\ bids'[n + 1].price = x
      /\ bids'[n + 1].hold = "active" /\ bids'[n + 1].status = "active"
  BY <1>7 DEF NewBid
<1> HIDE DEF n
<1>10. CASE b # a
  <2>1. listing'[b] = listing[b]
    BY <1>0, <1>10 DEF PlaceBid, Topped, LedgerTypeOK
  <2>2. BidsOf(b)' = BidsOf(b)
    BY <1>1, <1>5, <1>8, <1>9, <1>10 DEF BidsOf
  <2>3. \A i \in BidsOf(b) : bids'[i] = bids[i]
    BY <1>0, <1>1, <1>8, <1>10 DEF BidsOf, AuctionInv
  <2> QED
    BY <1>0, <2>1, <2>2, <2>3, Frame DEF Untouched
<1>11. CASE b = a
  <2>1. listing[a].status = "active" /\ OpenInv(a)
    BY <1>0 DEF PlaceBid, Acceptable, Open, AuctionInv
  <2>2. /\ listing'[a].top = n + 1 /\ listing'[a].status = "active"
        /\ listing'[a].settled = listing[a].settled
    BY <1>0, <2>1 DEF PlaceBid, Topped, LedgerTypeOK, n
  <2>3. x \in Nat /\ \A i \in BidsOf(a) : bids[i].price \in Nat \ {0}
    BY <1>0, <1>2 DEF BidsOf, Bid, LedgerTypeOK
  <2>4. \A i \in BidsOf(a) : bids[i].price < x
    <3>1. CASE listing[a].top = 0
      BY <2>1, <3>1 DEF OpenInv
    <3>2. CASE listing[a].top # 0
      <4>1. listing[a].top \in BidsOf(a)
        BY <1>0, <3>2 DEF AuctionInv
      <4>2. TopPrice(a) = bids[listing[a].top].price
        BY <3>2 DEF TopPrice
      <4>3. TopPrice(a) \in Nat \ {0}
        BY <2>3, <4>1, <4>2
      <4>4. x >= MinNextBid(a)
        BY DEF PlaceBid, Acceptable
      <4>5. MinNextBid(a) \in Nat /\ MinNextBid(a) > TopPrice(a)
        BY <4>3, LedgerAssumption DEF MinNextBid
      <4>6. x > TopPrice(a)
        BY <2>3, <4>3, <4>4, <4>5
      <4>7. \A i \in BidsOf(a) : i # listing[a].top => bids[i].price < TopPrice(a)
        BY <2>1, <3>2, <4>2 DEF OpenInv
      <4> QED
        BY <2>3, <4>2, <4>3, <4>6, <4>7
    <3> QED
      BY <3>1, <3>2
  <2>5. BidsOf(a)' = BidsOf(a) \union {n + 1}
    BY <1>1, <1>5, <1>8, <1>9 DEF BidsOf
  <2>6. \A i \in BidsOf(a) : i \in 1 .. n /\ i # n + 1
    BY <1>1 DEF BidsOf
  <2>7. \A i \in BidsOf(a) :
          /\ bids'[i].hold # "active" /\ bids'[i].hold # "captured"
          /\ bids'[i].status # "active" /\ bids'[i].price < x
    <3> SUFFICES ASSUME NEW i \in BidsOf(a)
                 PROVE  /\ bids'[i].hold # "active" /\ bids'[i].hold # "captured"
                        /\ bids'[i].status # "active" /\ bids'[i].price < x
      OBVIOUS
    <3>1. bids'[i].price < x
      BY <1>8, <2>4, <2>6
    <3>2. /\ bids[i].hold # "captured"
          /\ i # listing[a].top => bids[i].hold # "active" /\ bids[i].status # "active"
      BY <2>1 DEF OpenInv
    <3> QED
      BY <1>8, <2>6, <3>1, <3>2
  <2>8. n + 1 # 0 /\ ~listing[a].settled
    BY <1>1, <2>1 DEF OpenInv
  <2>9. OpenInv(a)'
    BY <1>9, <2>2, <2>5, <2>7, <2>8 DEF OpenInv
  <2> QED
    BY <1>11, <2>2, <2>5, <2>8, <2>9 DEF AuctionInv
<1> QED
  BY <1>10, <1>11

(* The top bid is captured: no other bid of the auction had a hold.        *)
LEMMA SellInv ==
    ASSUME LedgerInv, NEW a \in Auction, Sell(a), NEW b \in Auction
    PROVE  AuctionInv(b)' /\ (b # a => Untouched(b))
<1> DEFINE top == listing[a].top
<1>0. LedgerTypeOK /\ AuctionInv(a) /\ AuctionInv(b)
  BY DEF LedgerInv
<1>1. bids \in Seq(Bid) /\ DOMAIN bids = 1 .. Len(bids)
  BY <1>0 DEF LedgerTypeOK
<1>2. top # 0 /\ TopPrice(a) = bids[top].price /\ bids[top].price >= Reserve[a]
  BY DEF Sell, Winner, TopPrice
<1>3. top \in BidsOf(a) /\ OpenInv(a)
  BY <1>0, <1>2 DEF AuctionInv, Sell, Open
<1>4. top \in DOMAIN bids /\ bids[top] \in Bid
  BY <1>1, <1>3 DEF BidsOf
<1>5. /\ DOMAIN bids' = DOMAIN bids
      /\ \A i \in DOMAIN bids : i # top => bids'[i] = bids[i]
      /\ bids'[top] = [bids[top] EXCEPT !.status = "won", !.hold = "captured"]
  BY <1>1, <1>4 DEF Sell
<1>6. bids'[top].auction = a /\ bids'[top].price = bids[top].price /\ bids'[top].hold = "captured"
  BY <1>3, <1>4, <1>5 DEF Bid, BidsOf
<1>7. \A i \in DOMAIN bids : bids'[i].auction = bids[i].auction
  BY <1>3, <1>5, <1>6 DEF BidsOf
<1>8. CASE b # a
  <2>1. listing'[b] = listing[b]
    BY <1>0, <1>8 DEF Sell, Closed, LedgerTypeOK
  <2>2. \A i \in DOMAIN bids : bids[i].auction # a => bids'[i] = bids[i]
    BY <1>3, <1>5 DEF BidsOf
  <2> QED
    BY <1>0, <1>5, <1>7, <1>8, <2>1, <2>2, Frame, FrameInPlace
<1>9. CASE b = a
  <2>1. listing'[a].top = top /\ listing'[a].status = "sold"
    BY <1>0 DEF Sell, Closed, LedgerTypeOK
  <2>2. BidsOf(a)' = BidsOf(a)
    BY <1>5, <1>7 DEF BidsOf
  <2>3. \A i \in BidsOf(a) :
          bids'[i].hold # "active" /\ (bids'[i].hold = "captured" <=> i = top)
    BY <1>2, <1>3, <1>5, <1>6 DEF OpenInv, BidsOf
  <2>4. SettledInv(a)'
    BY <1>2, <1>6, <2>1, <2>2, <2>3 DEF SettledInv
  <2> QED
    BY <1>3, <1>9, <2>1, <2>2, <2>4 DEF AuctionInv
<1> QED
  BY <1>8, <1>9

(* The top bid is let go: it was the last with a hold.                     *)
LEMMA CloseUnsoldInv ==
    ASSUME LedgerInv, NEW a \in Auction, CloseUnsold(a), NEW b \in Auction
    PROVE  AuctionInv(b)' /\ (b # a => Untouched(b))
<1>0. LedgerTypeOK /\ AuctionInv(a) /\ AuctionInv(b)
  BY DEF LedgerInv
<1>1. OpenInv(a)
  BY <1>0 DEF AuctionInv, CloseUnsold, Open
<1>2. /\ DOMAIN bids' = DOMAIN bids
      /\ \A i \in DOMAIN bids :
           /\ bids'[i].auction = bids[i].auction
           /\ i # listing[a].top => bids'[i] = bids[i]
           /\ bids'[i].hold = IF i = listing[a].top /\ bids[i].hold = "active"
                              THEN "released" ELSE bids[i].hold
  BY <1>0, LetGoFacts DEF CloseUnsold
<1>3. CASE b # a
  <2>1. listing'[b] = listing[b]
    BY <1>0, <1>3 DEF CloseUnsold, Closed, LedgerTypeOK
  <2>2. \A i \in DOMAIN bids : bids[i].auction # a => bids'[i] = bids[i]
    BY <1>0, <1>2 DEF AuctionInv, BidsOf, LedgerTypeOK
  <2> QED
    BY <1>0, <1>2, <1>3, <2>1, <2>2, Frame, FrameInPlace
<1>4. CASE b = a
  <2>1. listing'[a].top = listing[a].top /\ listing'[a].status = "cancelled"
    BY <1>0 DEF CloseUnsold, Closed, LedgerTypeOK
  <2>2. BidsOf(a)' = BidsOf(a)
    BY <1>2 DEF BidsOf
  <2>3. \A i \in BidsOf(a) : bids'[i].hold # "active" /\ bids'[i].hold # "captured"
    BY <1>0, <1>1, <1>2 DEF OpenInv, AuctionInv, BidsOf
  <2>4. SettledInv(a)'
    BY <2>1, <2>2, <2>3 DEF SettledInv
  <2> QED
    BY <1>0, <1>4, <2>1, <2>2, <2>4 DEF AuctionInv
<1> QED
  BY <1>3, <1>4

(* A cancel or a purchase ends what is asked of an open auction.           *)
LEMMA CloseAroundBidsInv ==
    ASSUME LedgerInv, NEW a \in Auction, NEW st \in {"sold", "cancelled"},
           Open(a), bids' = bids,
           listing' = [listing EXCEPT ![a].status = st], NEW b \in Auction
    PROVE  AuctionInv(b)' /\ (b # a => Untouched(b))
<1>0. LedgerTypeOK /\ AuctionInv(a) /\ AuctionInv(b)
  BY DEF LedgerInv
<1>1. BidsOf(b)' = BidsOf(b) /\ \A i \in BidsOf(b) : bids'[i] = bids[i]
  BY DEF BidsOf
<1>2. CASE b # a
  <2>1. listing'[b] = listing[b]
    BY <1>0, <1>2 DEF LedgerTypeOK
  <2> QED
    BY <1>0, <1>1, <2>1, Frame DEF Untouched
<1>3. CASE b = a
  <2>1. ~listing[a].settled
    BY <1>0 DEF Open, AuctionInv, OpenInv
  <2>2. listing'[a].top = listing[a].top /\ listing'[a].status = st /\ ~listing'[a].settled
    BY <1>0, <2>1 DEF LedgerTypeOK
  <2> QED
    BY <1>0, <1>1, <1>3, <2>2 DEF AuctionInv
<1> QED
  BY <1>2, <1>3

\* Every request keeps the invariant, of the auction it is about and of the others.
LEMMA InvStep == LedgerInv /\ [LedgerNext]_ledgerVars => LedgerInv'
<1> SUFFICES ASSUME LedgerInv, [LedgerNext]_ledgerVars PROVE LedgerInv'
  OBVIOUS
<1>1. LedgerTypeOK'
  BY TypeStep DEF LedgerInv
<1>2. ASSUME NEW b \in Auction PROVE AuctionInv(b)'
  <2>1. ASSUME NEW a \in Auction, NEW u \in User, NEW t \in 0 .. now,
               NEW x \in 1 .. balance[u], PlaceBid(a, u, x, t)
        PROVE  AuctionInv(b)'
    BY <1>2, <2>1, PlaceBidInv
  <2>2. ASSUME NEW a \in Auction, Sell(a) PROVE AuctionInv(b)'
    BY <1>2, <2>2, SellInv
  <2>3. ASSUME NEW a \in Auction, CloseUnsold(a) PROVE AuctionInv(b)'
    BY <1>2, <2>3, CloseUnsoldInv
  <2>4. ASSUME NEW a \in Auction, CancelListing(a) PROVE AuctionInv(b)'
    BY <1>2, <2>4, CloseAroundBidsInv DEF CancelListing
  <2>5. ASSUME NEW a \in Auction, NEW u \in User, PurchaseListing(a, u) PROVE AuctionInv(b)'
    BY <1>2, <2>5, CloseAroundBidsInv DEF PurchaseListing
  <2>6. ASSUME UNCHANGED <<bids, listing>> PROVE AuctionInv(b)'
    <3>1. AuctionInv(b) /\ BidsOf(b)' = BidsOf(b)
      BY <1>2, <2>6 DEF LedgerInv, BidsOf
    <3> QED
      BY <1>2, <2>6, <3>1, Frame DEF Untouched
  <2>7. ASSUME NEW u \in User, Recharge(u) PROVE AuctionInv(b)'
    BY <2>6, <2>7 DEF Recharge
  <2>8. CASE Pass
    BY <2>6, <2>8 DEF Pass
  <2>9. CASE UNCHANGED ledgerVars
    BY <2>6, <2>9 DEF ledgerVars
  <2> QED
    BY <2>1, <2>2, <2>3, <2>4, <2>5, <2>7, <2>8, <2>9 DEF LedgerNext
<1> QED
  BY <1>1, <1>2 DEF LedgerInv

\* The invariant says that the top bid's money is in its hold.
LEMMA InvImpliesHolds == LedgerInv => TopHoldsFunds
<1> SUFFICES ASSUME LedgerInv, NEW a \in Auction, Open(a)
             PROVE  /\ listing[a].top = 0 => \A i \in DOMAIN bids : bids[i].auction # a
                    /\ listing[a].top # 0 =>
                         /\ Held(a) = {listing[a].top}
                         /\ \A i \in DOMAIN bids : bids[i].auction = a /\ i # listing[a].top
                              => bids[i].price < TopPrice(a)
  BY DEF TopHoldsFunds
<1>1. AuctionInv(a) /\ OpenInv(a)
  BY DEF LedgerInv, AuctionInv, Open
<1>2. CASE listing[a].top = 0
  BY <1>1, <1>2 DEF OpenInv, BidsOf
<1>3. CASE listing[a].top # 0
  <2>1. listing[a].top \in BidsOf(a)
    BY <1>1, <1>3 DEF AuctionInv
  <2>2. Held(a) = {listing[a].top}
    BY <1>1, <1>3, <2>1 DEF OpenInv, Held, BidsOf
  <2> QED
    BY <1>1, <1>3, <2>2 DEF OpenInv, BidsOf, TopPrice
<1> QED
  BY <1>2, <1>3

\* The invariant says that a settled auction holds nothing.
LEMMA InvImpliesClean == LedgerInv => SettledClean
<1> DEFINE Captured(a) == {i \in DOMAIN bids : bids[i].auction = a /\ bids[i].hold = "captured"}
<1> SUFFICES ASSUME LedgerInv, NEW a \in Auction, listing[a].settled
             PROVE  /\ ~Open(a)
                    /\ Held(a) = {}
                    /\ Captured(a) = IF listing[a].status = "sold" THEN {listing[a].top} ELSE {}
                    /\ listing[a].status = "sold" => Winner(a)
  BY DEF SettledClean
<1>1. AuctionInv(a) /\ SettledInv(a) /\ LedgerTypeOK
  BY DEF LedgerInv, AuctionInv
<1>2. ~Open(a)
  BY <1>1 DEF AuctionInv, OpenInv, Open
<1>3. Held(a) = {}
  BY <1>1 DEF SettledInv, Held, BidsOf
<1>4. listing[a].status \in {"sold", "cancelled"}
  BY <1>1, <1>2 DEF Open, LedgerTypeOK
<1>5. CASE listing[a].status = "sold"
  <2>1. listing[a].top \in BidsOf(a)
    BY <1>1, <1>5 DEF AuctionInv, SettledInv
  <2>2. Captured(a) = {listing[a].top}
    BY <1>1, <1>5, <2>1 DEF SettledInv, BidsOf
  <2>3. Winner(a)
    BY <1>1, <1>5 DEF SettledInv, Winner, TopPrice
  <2> QED
    BY <1>2, <1>3, <1>5, <2>2, <2>3
<1>6. CASE listing[a].status = "cancelled"
  <2>1. Captured(a) = {}
    BY <1>1, <1>6 DEF SettledInv, BidsOf
  <2> QED
    BY <1>2, <1>3, <1>6, <2>1
<1> QED
  BY <1>4, <1>5, <1>6

(* For every number of users, auctions and bids: the money of an open       *)
(* auction's top bid is in its hold, the bid is the highest, and nobody     *)
(* who was outbid has money in one (PlaceBid).                              *)
THEOREM HoldsCorrect == LedgerSpec => []TopHoldsFunds
  BY InvInit, InvStep, InvImpliesHolds, PTL DEF LedgerSpec

(* For every number of users, auctions and bids: a settled auction holds no *)
(* money, and exactly the winner's became a payment (settleAuctionTx).      *)
THEOREM SettlementCorrect == LedgerSpec => []SettledClean
  BY InvInit, InvStep, InvImpliesClean, PTL DEF LedgerSpec

-----------------------------------------------------------------------------
(* What a transaction has posted and has still to post.                    *)

(* What is still due to w: no transaction has more than four postings.     *)
Share(q, k, w) == IF k \in DOMAIN q /\ q[k][1] = w THEN q[k][2] ELSE 0
Due4(q, w) == Share(q, 1, w) + Share(q, 2, w) + Share(q, 3, w) + Share(q, 4, w)

(* The sum of the entries a transaction has made for w.                    *)
Entered(t, w) == IF w \in DOMAIN t.wallet THEN t.wallet[w].entries ELSE 0

(* What the promised step of t moves into the wallet of w.                 *)
Minus(u, x, w) == IF w = u THEN -x ELSE 0
Plus(u, x, w) == IF w = u THEN x ELSE 0
Effect(t, w) ==
    IF t.op = "bid" THEN Refund(t.auction, w) + Minus(t.user, t.price, w)
    ELSE IF t.op = "purchase"
    THEN Plus(Seller[t.auction], Ask[t.auction], w) + Minus(t.user, Ask[t.auction], w)
    ELSE IF t.op = "recharge" THEN Plus(t.user, 1, w)
    ELSE IF Winner(t.auction) THEN Plus(Seller[t.auction], TopPrice(t.auction), w)
    ELSE Refund(t.auction, w)

Wallets == UNION {[D -> Wallet] : D \in SUBSET User}

Transaction ==
    [op : {"bid", "purchase", "recharge", "settle"}, auction : Auction \union {"none"},
     user : User, price : Nat, at : Nat, todo : Seq(User \X Int), wallet : Wallets]

(* The checks made when the transaction began still hold.                  *)
Checked(t) ==
    /\ t.op # "recharge" => t.auction \in Auction /\ Open(t.auction)
    /\ t.op = "bid" => Acceptable(t.auction, t.user, t.price, t.at)
    /\ t.op = "purchase" => t.user # Seller[t.auction]
    /\ t.op = "settle" => now >= listing[t.auction].endsAt

(* The price of a bid is taken first, and then the wallet has had it.      *)
Funded(t) ==
    t.op = "bid" =>
        \/ t.todo # <<>> /\ t.todo[1] = Posting(t.user, -t.price) /\ DOMAIN t.wallet = {}
        \/ t.user \in DOMAIN t.wallet /\ balance[t.user] >= t.price

TxInv(t) ==
    /\ t \in Transaction /\ t.at <= now /\ Len(t.todo) <= 4
    /\ \A w \in DOMAIN t.wallet : t.wallet[w].balance = balance[w] + t.wallet[w].entries
    /\ \A w \in User : Entered(t, w) + Due4(t.todo, w) = Effect(t, w)
    /\ Checked(t) /\ Funded(t)

(* No two transactions have the same wallet, or the same listing.          *)
Apart(t, r) ==
    /\ DOMAIN t.wallet \cap DOMAIN r.wallet = {}
    /\ t.op # "recharge" /\ r.op # "recharge" => t.auction # r.auction

EscrowInv ==
    /\ LedgerInv
    /\ BooksBalance
    /\ requests \in 0 .. MaxRequests /\ aborts \in 0 .. MaxAborts
    /\ tx \in [Session -> {Idle} \union Transaction]
    /\ \A s \in Session : Busy(s) => TxInv(tx[s])
    /\ \A r, s \in Session : r # s /\ Busy(r) /\ Busy(s) => Apart(tx[r], tx[s])

-----------------------------------------------------------------------------
(* Postings.                                                               *)

(* A wallet map has wallets of users.                                      *)
LEMMA WalletsType ==
    ASSUME NEW f \in Wallets
    PROVE  /\ DOMAIN f \subseteq User
           /\ \A w \in DOMAIN f : f[w] \in Wallet
BY DEF Wallets

(* A transaction that holds no wallet has an empty one.                    *)
LEMMA NoWallet == <<>> \in Wallets /\ DOMAIN <<>> = {}
<1>1. DOMAIN <<>> = {} /\ <<>> \in [{} -> Wallet]
  OBVIOUS
<1> QED
  BY <1>1 DEF Wallets

(* A posting is a user and an amount.                                      *)
LEMMA PostingType ==
    ASSUME NEW u, NEW d, NEW w, d \in Int
    PROVE  /\ Posting(u, d)[1] = u /\ Posting(u, d)[2] = d
           /\ u \in User => Posting(u, d) \in User \X Int
           /\ Plus(u, d, w) \in Int /\ Minus(u, d, w) \in Int
           /\ Plus(u, -d, w) = Minus(u, d, w)
BY DEF Posting, Plus, Minus

(* An empty list comes to nothing.                                        *)
LEMMA DueNone ==
    ASSUME NEW w
    PROVE  <<>> \in Seq(User \X Int) /\ Len(<<>>) = 0 /\ Due4(<<>>, w) = 0
BY DEF Due4, Share

\* What a list of one comes to.
LEMMA DueOne ==
    ASSUME NEW w, NEW u \in User, NEW d \in Int
    PROVE  LET q == <<Posting(u, d)>>
           IN  q \in Seq(User \X Int) /\ Len(q) = 1 /\ Due4(q, w) = Plus(u, d, w)
<1> DEFINE q == <<Posting(u, d)>>
<1>1. Posting(u, d) \in User \X Int
  BY PostingType
<1>2. DOMAIN q = 1 .. 1 /\ q[1][1] = u /\ q[1][2] = d
  BY PostingType
<1>3. /\ Share(q, 1, w) = Plus(u, d, w) /\ Share(q, 2, w) = 0
      /\ Share(q, 3, w) = 0 /\ Share(q, 4, w) = 0
  BY <1>2 DEF Share, Plus
<1> QED
  BY <1>1, <1>3, PostingType DEF Due4

\* What a list of two comes to.
LEMMA DueTwo ==
    ASSUME NEW w, NEW u1 \in User, NEW d1 \in Int, NEW u2 \in User, NEW d2 \in Int
    PROVE  LET q == <<Posting(u1, d1), Posting(u2, d2)>>
           IN  /\ q \in Seq(User \X Int) /\ Len(q) = 2
               /\ Due4(q, w) = Plus(u1, d1, w) + Plus(u2, d2, w)
<1> DEFINE q == <<Posting(u1, d1), Posting(u2, d2)>>
<1>1. Posting(u1, d1) \in User \X Int /\ Posting(u2, d2) \in User \X Int
  BY PostingType
<1>2. DOMAIN q = 1 .. 2 /\ q[1][1] = u1 /\ q[1][2] = d1 /\ q[2][1] = u2 /\ q[2][2] = d2
  BY DEF Posting
<1>3. /\ Share(q, 1, w) = Plus(u1, d1, w) /\ Share(q, 2, w) = Plus(u2, d2, w)
      /\ Share(q, 3, w) = 0 /\ Share(q, 4, w) = 0
  BY <1>2 DEF Share, Plus
<1> QED
  BY <1>1, <1>3, PostingType DEF Due4

\* What a list of three comes to.
LEMMA DueThree ==
    ASSUME NEW w, NEW u1 \in User, NEW d1 \in Int, NEW u2 \in User, NEW d2 \in Int,
           NEW u3 \in User, NEW d3 \in Int
    PROVE  LET q == <<Posting(u1, d1), Posting(u2, d2), Posting(u3, d3)>>
           IN  /\ q \in Seq(User \X Int) /\ Len(q) = 3
               /\ Due4(q, w) = Plus(u1, d1, w) + Plus(u2, d2, w) + Plus(u3, d3, w)
<1> DEFINE q == <<Posting(u1, d1), Posting(u2, d2), Posting(u3, d3)>>
<1>1. /\ Posting(u1, d1) \in User \X Int /\ Posting(u2, d2) \in User \X Int
      /\ Posting(u3, d3) \in User \X Int
  BY PostingType
<1>2. /\ DOMAIN q = 1 .. 3 /\ q[1][1] = u1 /\ q[1][2] = d1
      /\ q[2][1] = u2 /\ q[2][2] = d2 /\ q[3][1] = u3 /\ q[3][2] = d3
  BY DEF Posting
<1>3. /\ Share(q, 1, w) = Plus(u1, d1, w) /\ Share(q, 2, w) = Plus(u2, d2, w)
      /\ Share(q, 3, w) = Plus(u3, d3, w) /\ Share(q, 4, w) = 0
  BY <1>2 DEF Share, Plus
<1> QED
  BY <1>1, <1>3, PostingType DEF Due4

\* What a list of four comes to.
LEMMA DueFour ==
    ASSUME NEW w, NEW u1 \in User, NEW d1 \in Int, NEW u2 \in User, NEW d2 \in Int,
           NEW u3 \in User, NEW d3 \in Int, NEW u4 \in User, NEW d4 \in Int
    PROVE  LET q == <<Posting(u1, d1), Posting(u2, d2), Posting(u3, d3), Posting(u4, d4)>>
           IN  /\ q \in Seq(User \X Int) /\ Len(q) = 4
               /\ Due4(q, w) = Plus(u1, d1, w) + Plus(u2, d2, w) + Plus(u3, d3, w)
                                 + Plus(u4, d4, w)
<1> DEFINE q == <<Posting(u1, d1), Posting(u2, d2), Posting(u3, d3), Posting(u4, d4)>>
<1>1. /\ Posting(u1, d1) \in User \X Int /\ Posting(u2, d2) \in User \X Int
      /\ Posting(u3, d3) \in User \X Int /\ Posting(u4, d4) \in User \X Int
  BY PostingType
<1>2. /\ DOMAIN q = 1 .. 4 /\ q[1][1] = u1 /\ q[1][2] = d1 /\ q[2][1] = u2 /\ q[2][2] = d2
      /\ q[3][1] = u3 /\ q[3][2] = d3 /\ q[4][1] = u4 /\ q[4][2] = d4
  BY DEF Posting
<1>3. /\ Share(q, 1, w) = Plus(u1, d1, w) /\ Share(q, 2, w) = Plus(u2, d2, w)
      /\ Share(q, 3, w) = Plus(u3, d3, w) /\ Share(q, 4, w) = Plus(u4, d4, w)
  BY <1>2 DEF Share, Plus
<1> QED
  BY <1>1, <1>3, PostingType DEF Due4

(* After the first posting the others are due.                             *)
LEMMA DueTail ==
    ASSUME NEW q \in Seq(User \X Int), q # <<>>, Len(q) <= 4, NEW w
    PROVE  /\ Head(q)[1] \in User /\ Head(q)[2] \in Int /\ Head(q) = q[1]
           /\ Tail(q) \in Seq(User \X Int) /\ Len(Tail(q)) <= 4
           /\ Due4(q, w) = Plus(Head(q)[1], Head(q)[2], w) + Due4(Tail(q), w)
           /\ Due4(Tail(q), w) \in Int
<1> DEFINE r == Tail(q)
<1>1. /\ Len(q) \in 1 .. 4 /\ Head(q) = q[1] /\ DOMAIN q = 1 .. Len(q)
      /\ \A k \in DOMAIN q : q[k][1] \in User /\ q[k][2] \in Int
  <2>1. Len(q) \in 1 .. 4 /\ Head(q) = q[1] /\ DOMAIN q = 1 .. Len(q)
    <3>1. Len(q) \in Nat \ {0} /\ DOMAIN q = 1 .. Len(q)
      BY EmptySeq, LenProperties
    <3>2. Head(q) = q[1]
      OBVIOUS
    <3>3. \A n \in Nat \ {0} : n <= 4 => n \in 1 .. 4
      OBVIOUS
    <3> QED
      BY <3>1, <3>2, <3>3
  <2>2. \A k \in DOMAIN q : q[k] \in User \X Int
    BY <2>1
  <2> QED
    BY <2>1, <2>2
<1>2. /\ r \in Seq(User \X Int) /\ Len(r) = Len(q) - 1 /\ DOMAIN r = 1 .. Len(q) - 1
      /\ \A k \in 1 .. Len(q) - 1 : r[k] = q[k + 1]
  BY <1>1
<1> HIDE DEF r
<1>3. ASSUME NEW k \in 1 .. 4
      PROVE  Share(q, k, w) \in Int /\ Share(r, k, w) \in Int
  BY <1>1, <1>2 DEF Share
<1>4. ASSUME NEW k \in 1 .. 3
      PROVE  Share(r, k, w) = Share(q, k + 1, w)
  BY <1>1, <1>2 DEF Share
<1>5. Share(r, 4, w) = 0
  BY <1>1, <1>2 DEF Share
<1>6. Share(q, 1, w) = Plus(Head(q)[1], Head(q)[2], w)
  BY <1>1 DEF Share, Plus
<1>7. /\ Share(r, 1, w) = Share(q, 2, w) /\ Share(r, 2, w) = Share(q, 3, w)
      /\ Share(r, 3, w) = Share(q, 4, w)
  BY <1>4
<1>8. /\ Share(q, 1, w) \in Int /\ Share(q, 2, w) \in Int
      /\ Share(q, 3, w) \in Int /\ Share(q, 4, w) \in Int
  BY <1>3
<1> QED
  BY <1>1, <1>2, <1>5, <1>6, <1>7, <1>8 DEF Due4, r

(* Nothing is refunded for no bid.                                         *)
LEMMA RefundsOfNone == Refunds({}) = <<>>
<1>1. {i \in {} : bids[i].hold = "active"} = {} /\ Cardinality({}) = 0
  BY FS_EmptySet
<1> QED
  BY <1>1 DEF Refunds

\* The refund of one bid is its price, if its hold is active.
LEMMA RefundsOfOne ==
    ASSUME NEW i \in Nat
    PROVE  Refunds({i}) = IF bids[i].hold = "active"
                          THEN <<Posting(bids[i].bidder, bids[i].price)>> ELSE <<>>
<1> DEFINE due == {j \in {i} : bids[j].hold = "active"}
           Nth(k) == CHOOSE j \in due : Cardinality({l \in due : l < j}) = k - 1
<1>1. CASE bids[i].hold # "active"
  <2>1. due = {} /\ Cardinality(due) = 0
    BY <1>1, FS_EmptySet
  <2>2. Refunds({i}) = [k \in 1 .. Cardinality(due) |->
                            Posting(bids[Nth(k)].bidder, bids[Nth(k)].price)]
    BY DEF Refunds
  <2> HIDE DEF due, Nth
  <2>3. Refunds({i}) = <<>>
    BY <2>1, <2>2
  <2> QED
    BY <1>1, <2>3
<1>2. CASE bids[i].hold = "active"
  <2>1. due = {i} /\ Cardinality(due) = 1
    BY <1>2, FS_Singleton
  <2>2. {l \in due : l < i} = {} /\ Cardinality({l \in due : l < i}) = 0
    BY <2>1, FS_EmptySet
  <2>3. Nth(1) = i
    BY <2>1, <2>2
  <2>4. Refunds({i}) = [k \in 1 .. Cardinality(due) |->
                            Posting(bids[Nth(k)].bidder, bids[Nth(k)].price)]
    BY DEF Refunds
  <2> HIDE DEF due, Nth
  <2>5. Refunds({i}) = [k \in 1 .. 1 |-> Posting(bids[Nth(k)].bidder, bids[Nth(k)].price)]
    BY <2>1, <2>4
  <2>6. Refunds({i}) = [k \in 1 .. 1 |-> Posting(bids[i].bidder, bids[i].price)]
    <3>1. \A k \in 1 .. 1 : Nth(k) = i
      BY <2>3
    <3> QED
      BY <2>5, <3>1
  <2>7. Refunds({i}) = <<Posting(bids[i].bidder, bids[i].price)>>
    BY <2>6
  <2> QED
    BY <1>2, <2>7
<1> QED
  BY <1>1, <1>2

(* Short lists, one after the other.                                       *)
LEMMA Lists ==
    ASSUME NEW S, NEW x \in S, NEW y \in S, NEW z \in S
    PROVE  /\ <<x>> \o <<>> = <<x>> /\ <<x>> \o <<y>> = <<x, y>>
           /\ <<x>> \o <<y, z>> = <<x, y, z>>
<1>1. /\ <<x>> \in Seq(S) /\ <<x, y, z>> \in Seq(S)
      /\ <<x, y>> \in Seq(S) /\ <<y>> \in Seq(S) /\ <<y, z>> \in Seq(S)
  OBVIOUS
<1>2. <<x>> \o <<>> = <<x>>
  BY <1>1, ConcatEmptySeq
<1>3. <<x>> \o <<y>> = <<x, y>>
  <2> DEFINE r == <<x>> \o <<y>>
  <2>1. r \in Seq(S) /\ Len(r) = 2 /\ r[1] = x /\ r[2] = y
    BY <1>1, ConcatProperties
  <2> HIDE DEF r
  <2>2. \A i \in 1 .. Len(r) : r[i] = <<x, y>>[i]
    BY <2>1
  <2>3. r = <<x, y>>
    BY <1>1, <2>1, <2>2, SeqEqual
  <2> QED
    BY <2>3 DEF r
<1>4. <<x>> \o <<y, z>> = <<x, y, z>>
  <2> DEFINE r == <<x>> \o <<y, z>>
  <2>1. r \in Seq(S) /\ Len(r) = 3 /\ r[1] = x /\ r[2] = y /\ r[3] = z
    BY <1>1, ConcatProperties
  <2> HIDE DEF r
  <2>2. \A i \in 1 .. Len(r) : r[i] = <<x, y, z>>[i]
    BY <2>1
  <2>3. r = <<x, y, z>>
    BY <1>1, <2>1, <2>2, SeqEqual
  <2> QED
    BY <2>3 DEF r
<1> QED
  BY <1>2, <1>3, <1>4

-----------------------------------------------------------------------------
(* What an auction's transaction reads.                                    *)

(* The top of an open auction is its one active bid, with money in a hold.  *)
LEMMA OpenTop ==
    ASSUME LedgerInv, NEW a \in Auction
    PROVE  /\ listing[a].top \in Nat /\ TopPrice(a) \in Nat
           /\ listing[a].top # 0 =>
                /\ listing[a].top \in DOMAIN bids /\ bids[listing[a].top] \in Bid
                /\ bids[listing[a].top].auction = a
                /\ TopPrice(a) = bids[listing[a].top].price
                /\ bids[listing[a].top].bidder \in User
           /\ Open(a) =>
                ActiveBids(a) = IF listing[a].top = 0 THEN {} ELSE {listing[a].top}
           /\ Open(a) /\ listing[a].top # 0 =>
                /\ bids[listing[a].top].hold = "active"
                /\ listing[a].top \in Held(a)
<1>1. LedgerTypeOK /\ AuctionInv(a)
  BY DEF LedgerInv
<1>2. listing[a].top \in Nat
  BY <1>1 DEF LedgerTypeOK
<1>3. ASSUME listing[a].top # 0
      PROVE  /\ listing[a].top \in DOMAIN bids /\ bids[listing[a].top] \in Bid
             /\ bids[listing[a].top].auction = a
  BY <1>1, <1>3 DEF LedgerTypeOK, AuctionInv, BidsOf
<1>4. TopPrice(a) \in Nat
  BY <1>3 DEF TopPrice, Bid
<1>5. ASSUME Open(a)
      PROVE  /\ ActiveBids(a) = IF listing[a].top = 0 THEN {} ELSE {listing[a].top}
             /\ listing[a].top # 0 => bids[listing[a].top].hold = "active"
  <2>1. OpenInv(a)
    BY <1>1, <1>5 DEF AuctionInv, Open
  <2>2. CASE listing[a].top = 0
    BY <2>1, <2>2 DEF OpenInv, BidsOf, ActiveBids
  <2>3. CASE listing[a].top # 0
    BY <1>3, <2>1, <2>3 DEF OpenInv, BidsOf, ActiveBids
  <2> QED
    BY <2>2, <2>3
<1> QED
  BY <1>2, <1>3, <1>4, <1>5 DEF TopPrice, Bid, Held

(* As long as its listing and bids are left alone, all of it stays.        *)
LEMMA Seen ==
    ASSUME LedgerInv, LedgerTypeOK', NEW a \in Auction, Untouched(a)
    PROVE  /\ listing'[a] = listing[a]
           /\ Open(a)' <=> Open(a)
           /\ TopPrice(a)' = TopPrice(a)
           /\ MinNextBid(a)' = MinNextBid(a)
           /\ Winner(a)' <=> Winner(a)
           /\ \A w \in User : Refund(a, w)' = Refund(a, w)
<1>1. /\ listing'[a] = listing[a] /\ BidsOf(a)' = BidsOf(a)
      /\ \A i \in BidsOf(a) : bids'[i] = bids[i]
      /\ listing[a].top = 0 \/ listing[a].top \in BidsOf(a)
  BY DEF Untouched, LedgerInv, AuctionInv
<1>2. TopPrice(a)' = TopPrice(a)
  BY <1>1 DEF TopPrice
<1>3. listing[a].top \in Held(a)' <=> listing[a].top \in Held(a)
  <2>1. listing[a].top = 0 =>
          listing[a].top \notin DOMAIN bids /\ listing[a].top \notin DOMAIN bids'
    BY DEF LedgerInv, LedgerTypeOK
  <2> QED
    BY <1>1, <2>1 DEF Held, BidsOf
<1>4. ASSUME NEW w \in User PROVE Refund(a, w)' = Refund(a, w)
  <2>1. CASE listing[a].top \in Held(a)
    <3>1. listing[a].top \in BidsOf(a)
      BY <2>1 DEF Held, BidsOf
    <3>2. bids'[listing[a].top] = bids[listing[a].top]
      BY <1>1, <3>1
    <3> QED
      BY <1>1, <1>2, <1>3, <3>2 DEF Refund
  <2>2. CASE listing[a].top \notin Held(a)
    BY <1>1, <1>3, <2>2 DEF Refund
  <2> QED
    BY <2>1, <2>2
<1>5. MinNextBid(a)' = MinNextBid(a) /\ (Winner(a)' <=> Winner(a)) /\ (Open(a)' <=> Open(a))
  BY <1>1, <1>2 DEF MinNextBid, Winner, Open
<1> QED
  BY <1>1, <1>2, <1>4, <1>5

(* What a transaction moves is an amount.                                  *)
LEMMA EffectType ==
    ASSUME LedgerInv, NEW t \in Transaction, Checked(t), NEW w \in User
    PROVE  Effect(t, w) \in Int
<1>1. t.op \in {"bid", "purchase", "recharge", "settle"} /\ t.price \in Nat
  BY DEF Transaction
<1>2. t.op # "recharge" => Refund(t.auction, w) \in Nat /\ TopPrice(t.auction) \in Nat
                             /\ Ask[t.auction] \in Nat
  BY RefundType, OpenTop, LedgerAssumption DEF LedgerInv, Checked
<1> QED
  BY <1>1, <1>2 DEF Effect, Plus, Minus

(* A transaction whose listing, bids and wallets the others leave alone    *)
(* keeps what it is sure of.                                               *)
LEMMA Stays ==
    ASSUME LedgerInv, LedgerTypeOK', NEW t, TxInv(t), now' >= now,
           t.op # "recharge" => Untouched(t.auction),
           \A w \in DOMAIN t.wallet : balance'[w] = balance[w]
    PROVE  TxInv(t)'
<1>1. t \in Transaction /\ now \in Nat /\ now' \in Nat /\ t.at \in Nat
  BY DEF TxInv, LedgerInv, LedgerTypeOK, Transaction
<1>2. Checked(t)'
  <2>1. CASE t.op = "recharge"
    BY <2>1 DEF Checked
  <2>2. CASE t.op # "recharge"
    <3>1. Checked(t) /\ t.auction \in Auction
      BY <2>2 DEF TxInv, Checked
    <3>2. /\ listing'[t.auction] = listing[t.auction]
          /\ Open(t.auction)' <=> Open(t.auction)
          /\ MinNextBid(t.auction)' = MinNextBid(t.auction)
      BY <2>2, <3>1, Seen
    <3>3. t.op = "bid" => Acceptable(t.auction, t.user, t.price, t.at)'
      BY <3>1, <3>2 DEF Checked, Acceptable
    <3>4. listing[t.auction].endsAt \in Nat
      BY <3>1 DEF LedgerInv, LedgerTypeOK
    <3>5. t.op = "settle" => now' >= listing'[t.auction].endsAt
      BY <1>1, <3>1, <3>2, <3>4 DEF Checked
    <3> QED
      BY <3>1, <3>2, <3>3, <3>5 DEF Checked
  <2> QED
    BY <2>1, <2>2
<1>3. ASSUME NEW w \in User PROVE Effect(t, w)' = Effect(t, w)
  <2>1. CASE t.op = "recharge"
    BY <2>1 DEF Effect
  <2>2. CASE t.op # "recharge"
    <3>1. t.auction \in Auction
      BY <2>2 DEF TxInv, Checked
    <3>2. /\ TopPrice(t.auction)' = TopPrice(t.auction)
          /\ Winner(t.auction)' <=> Winner(t.auction)
          /\ Refund(t.auction, w)' = Refund(t.auction, w)
      BY <2>2, <3>1, Seen
    <3> QED
      BY <3>2 DEF Effect
  <2> QED
    BY <2>1, <2>2
<1>4. Funded(t)'
  BY DEF TxInv, Funded
<1>5. t.at <= now'
  BY <1>1 DEF TxInv
<1> QED
  BY <1>2, <1>3, <1>4, <1>5 DEF TxInv

-----------------------------------------------------------------------------
(* What a transaction owes when it begins.                                 *)

(* A transfer takes from one and gives to the other.                       *)
LEMMA TransferDue ==
    ASSUME NEW from \in User, NEW to \in User, NEW x \in Nat, NEW w
    PROVE  /\ Transfer(from, to, x) \in Seq(User \X Int) /\ Len(Transfer(from, to, x)) <= 4
           /\ Due4(Transfer(from, to, x), w) = Plus(to, x, w) + Minus(from, x, w)
<1>1. -x \in Int /\ 0 \in Int /\ x \in Int /\ Plus(from, -x, w) = Minus(from, x, w)
      /\ Plus(from, 0, w) = 0 /\ Plus(to, x, w) \in Int /\ Minus(from, x, w) \in Int
  BY DEF Plus, Minus
<1>2. CASE from < to
  <2> DEFINE q == <<Posting(from, 0), Posting(to, x), Posting(from, -x)>>
  <2>1. Transfer(from, to, x) = q
    BY <1>2 DEF Transfer
  <2>2. /\ q \in Seq(User \X Int) /\ Len(q) = 3
        /\ Due4(q, w) = Plus(from, 0, w) + Plus(to, x, w) + Plus(from, -x, w)
    BY <1>1, DueThree
  <2> HIDE DEF q
  <2> QED
    BY <1>1, <2>1, <2>2
<1>3. CASE ~(from < to)
  <2> DEFINE q == <<Posting(to, x), Posting(from, -x)>>
  <2>1. Transfer(from, to, x) = q
    BY <1>3 DEF Transfer
  <2>2. /\ q \in Seq(User \X Int) /\ Len(q) = 2
        /\ Due4(q, w) = Plus(to, x, w) + Plus(from, -x, w)
    BY <1>1, DueTwo
  <2> HIDE DEF q
  <2> QED
    BY <1>1, <2>1, <2>2
<1> QED
  BY <1>2, <1>3

(* What was given back and transferred from b comes to the transfer's gain. *)
LEMMA GivenBack ==
    ASSUME NEW b \in User, NEW to \in User, NEW x \in Nat, NEW w
    PROVE  LET q == (<<Posting(b, x)>> \o Transfer(b, to, x)) \o <<>>
           IN  /\ q \in Seq(User \X Int) /\ Len(q) <= 4
               /\ Due4(q, w) = Plus(to, x, w)
<1>1. x \in Int /\ -x \in Int /\ 0 \in Int
  OBVIOUS
<1>2. /\ Posting(b, x) \in User \X Int /\ Posting(b, 0) \in User \X Int
      /\ Posting(to, x) \in User \X Int /\ Posting(b, -x) \in User \X Int
  BY <1>1, PostingType
<1>3. /\ Plus(b, x, w) + Plus(b, 0, w) + Plus(to, x, w) + Plus(b, -x, w) = Plus(to, x, w)
      /\ Plus(b, x, w) + Plus(to, x, w) + Plus(b, -x, w) = Plus(to, x, w)
  BY <1>1 DEF Plus
<1>4. PICK p1, p2, p3, p4 \in User \X Int :
        p1 = Posting(b, x) /\ p2 = Posting(b, 0) /\ p3 = Posting(to, x) /\ p4 = Posting(b, -x)
  BY <1>2
<1>5. /\ (<<p1>> \o <<p3, p4>>) \o <<>> = <<p1, p3, p4>>
      /\ (<<p1>> \o <<p2, p3, p4>>) \o <<>> = <<p1, p2, p3, p4>>
  <2> DEFINE S == User \X Int
  <2>1. p1 \in S /\ p2 \in S /\ p3 \in S /\ p4 \in S
    OBVIOUS
  <2> HIDE DEF S
  <2>2. /\ <<p1>> \in Seq(S) /\ <<p2, p3, p4>> \in Seq(S) /\ <<p1, p2, p3, p4>> \in Seq(S)
        /\ <<p3, p4>> \in Seq(S) /\ <<p1, p3, p4>> \in Seq(S)
    BY <2>1
  <2>3. (<<p1>> \o <<p3, p4>>) \o <<>> = <<p1, p3, p4>>
    <3> DEFINE q == <<p1>> \o <<p3, p4>>
    <3>1. q = <<p1, p3, p4>>
      BY <2>1, Lists
    <3>2. <<p1, p3, p4>> \o <<>> = <<p1, p3, p4>>
      BY <2>2, ConcatEmptySeq
    <3> HIDE DEF q
    <3>3. q \o <<>> = <<p1, p3, p4>>
      BY <3>1, <3>2
    <3> QED
      BY <3>3 DEF q
  <2> DEFINE r == <<p1>> \o <<p2, p3, p4>>
  <2>4. r \in Seq(S) /\ Len(r) = 4 /\ r[1] = p1 /\ r[2] = p2 /\ r[3] = p3 /\ r[4] = p4
    BY <2>2, ConcatProperties
  <2>5. r \o <<>> = r
    BY <2>4, ConcatEmptySeq
  <2>6. r = <<p1, p2, p3, p4>>
    <3> HIDE DEF r
    <3>1. \A i \in 1 .. Len(r) : r[i] = <<p1, p2, p3, p4>>[i]
      BY <2>4
    <3> QED
      BY <2>2, <2>4, <3>1, SeqEqual
  <2> HIDE DEF r
  <2>7. r \o <<>> = <<p1, p2, p3, p4>>
    BY <2>5, <2>6
  <2> QED
    BY <2>3, <2>7 DEF r
<1>6. CASE b < to
  <2>1. Transfer(b, to, x) = <<p2, p3, p4>>
    BY <1>4, <1>6 DEF Transfer
  <2>2. (<<p1>> \o Transfer(b, to, x)) \o <<>> = <<p1, p2, p3, p4>>
    BY <1>5, <2>1
  <2> DEFINE q == <<Posting(b, x), Posting(b, 0), Posting(to, x), Posting(b, -x)>>
  <2>3. /\ q \in Seq(User \X Int) /\ Len(q) = 4
        /\ Due4(q, w) = Plus(b, x, w) + Plus(b, 0, w) + Plus(to, x, w) + Plus(b, -x, w)
    BY <1>1, DueFour
  <2>4. Len(q) <= 4 /\ Due4(q, w) = Plus(to, x, w)
    BY <1>3, <2>3
  <2>5. (<<p1>> \o Transfer(b, to, x)) \o <<>> = q
    BY <1>4, <2>2
  <2> QED
    BY <1>4, <2>3, <2>4, <2>5
<1>7. CASE ~(b < to)
  <2>1. Transfer(b, to, x) = <<p3, p4>>
    BY <1>4, <1>7 DEF Transfer
  <2>2. (<<p1>> \o Transfer(b, to, x)) \o <<>> = <<p1, p3, p4>>
    BY <1>5, <2>1
  <2> DEFINE q == <<Posting(b, x), Posting(to, x), Posting(b, -x)>>
  <2>3. /\ q \in Seq(User \X Int) /\ Len(q) = 3
        /\ Due4(q, w) = Plus(b, x, w) + Plus(to, x, w) + Plus(b, -x, w)
    BY <1>1, DueThree
  <2>4. Len(q) <= 4 /\ Due4(q, w) = Plus(to, x, w)
    BY <1>3, <2>3
  <2>5. (<<p1>> \o Transfer(b, to, x)) \o <<>> = q
    BY <1>4, <2>2
  <2> QED
    BY <1>4, <2>3, <2>4, <2>5
<1> QED
  BY <1>6, <1>7

(* A captured hold goes back and is transferred.                           *)
LEMMA CaptureDue ==
    ASSUME NEW i \in Nat, bids[i].hold = "active", bids[i].bidder \in User,
           bids[i].price \in Nat, NEW to \in User, NEW w
    PROVE  LET q == Capture(i, to) \o <<>>
           IN  /\ q \in Seq(User \X Int) /\ Len(q) <= 4
               /\ Due4(q, w) = Plus(to, bids[i].price, w)
<1>1. PICK b \in User, x \in Nat : b = bids[i].bidder /\ x = bids[i].price
  OBVIOUS
<1>2. Refunds({i}) = <<Posting(b, x)>>
  BY <1>1, RefundsOfOne
<1>3. Capture(i, to) = <<Posting(b, x)>> \o Transfer(b, to, x)
  BY <1>1, <1>2 DEF Capture
<1>4. PICK q : q = (<<Posting(b, x)>> \o Transfer(b, to, x)) \o <<>>
  OBVIOUS
<1>5. q \in Seq(User \X Int) /\ Len(q) <= 4 /\ Due4(q, w) = Plus(to, x, w)
  BY <1>4, GivenBack
<1>6. q = Capture(i, to) \o <<>>
  BY <1>3, <1>4
<1> QED
  BY <1>1, <1>5, <1>6

(* A bid takes its price and gives the beaten bid's back.                  *)
LEMMA BidDue ==
    ASSUME LedgerInv, NEW a \in Auction, Open(a), NEW u \in User, NEW x \in Nat, NEW w
    PROVE  LET q == BidPostings(a, u, x)
           IN  /\ q \in Seq(User \X Int) /\ Len(q) <= 4
               /\ q # <<>> /\ q[1] = Posting(u, -x)
               /\ Due4(q, w) = Refund(a, w) + Minus(u, x, w)
<1> DEFINE i == listing[a].top
           b == bids[i].bidder
           y == bids[i].price
<1>1. -x \in Int /\ Posting(u, -x) \in User \X Int
      /\ Plus(u, -x, w) = Minus(u, x, w) /\ Minus(u, x, w) \in Int
  BY DEF Plus, Minus, Posting
<1>2. CASE i = 0
  <2> DEFINE q == <<Posting(u, -x)>>
  <2>1. BidPostings(a, u, x) = q
    BY <1>1, <1>2, Lists DEF BidPostings, Top
  <2>2. q \in Seq(User \X Int) /\ Len(q) = 1 /\ Due4(q, w) = Plus(u, -x, w)
    BY <1>1, DueOne
  <2>3. q # <<>> /\ q[1] = Posting(u, -x)
    OBVIOUS
  <2>4. Refund(a, w) = 0
    <3>1. i \notin Held(a)
      BY <1>2 DEF Held, LedgerInv, LedgerTypeOK
    <3> QED
      BY <3>1 DEF Refund
  <2> HIDE DEF q
  <2> QED
    BY <1>1, <2>1, <2>2, <2>3, <2>4
<1>3. CASE i # 0
  <2>1. /\ i \in Nat /\ b \in User /\ y \in Nat /\ y \in Int /\ i \in Held(a)
        /\ bids[i].hold = "active" /\ TopPrice(a) = y
    BY <1>3, OpenTop
  <2> DEFINE q == <<Posting(u, -x), Posting(b, y)>>
  <2>2. Refunds({i}) = <<Posting(b, y)>>
    BY <2>1, RefundsOfOne
  <2>3. Posting(b, y) \in User \X Int
    BY <2>1 DEF Posting
  <2>4. BidPostings(a, u, x) = <<Posting(u, -x)>> \o <<Posting(b, y)>>
    BY <1>3, <2>2 DEF BidPostings, Top
  <2>5. BidPostings(a, u, x) = q
    BY <1>1, <2>3, <2>4, Lists
  <2>6. /\ q \in Seq(User \X Int) /\ Len(q) = 2
        /\ Due4(q, w) = Plus(u, -x, w) + Plus(b, y, w)
    BY <1>1, <2>1, DueTwo
  <2>7. q # <<>> /\ q[1] = Posting(u, -x)
    OBVIOUS
  <2>8. Refund(a, w) = Plus(b, y, w) /\ Plus(b, y, w) \in Int
    BY <2>1 DEF Refund, Plus
  <2> HIDE DEF q, b, y, i
  <2> QED
    BY <1>1, <2>5, <2>6, <2>7, <2>8
<1> QED
  BY <1>2, <1>3

(* A settlement pays the seller, or gives the top bid's hold back.         *)
LEMMA SettleDue ==
    ASSUME LedgerInv, NEW a \in Auction, Open(a), NEW w
    PROVE  LET q == SettlePostings(a)
           IN  /\ q \in Seq(User \X Int) /\ Len(q) <= 4
               /\ Due4(q, w) = IF Winner(a) THEN Plus(Seller[a], TopPrice(a), w)
                               ELSE Refund(a, w)
<1> DEFINE i == listing[a].top
           b == bids[i].bidder
           y == bids[i].price
<1>0. Seller[a] \in User
  BY LedgerAssumption
<1>1. CASE Winner(a)
  <2>1. /\ i # 0 /\ i \in Nat /\ b \in User /\ y \in Nat
        /\ bids[i].hold = "active" /\ TopPrice(a) = y /\ ActiveBids(a) \ {i} = {}
    <3>1. i # 0
      BY <1>1 DEF Winner
    <3> QED
      BY <3>1, OpenTop
  <2>2. SettlePostings(a) = Capture(i, Seller[a]) \o <<>>
    BY <1>1, <2>1, RefundsOfNone DEF SettlePostings, Top
  <2> DEFINE q == Capture(i, Seller[a]) \o <<>>
  <2>3. q \in Seq(User \X Int) /\ Len(q) <= 4 /\ Due4(q, w) = Plus(Seller[a], y, w)
    BY <1>0, <2>1, CaptureDue
  <2> HIDE DEF q
  <2> QED
    BY <1>1, <2>1, <2>2, <2>3 DEF q
<1>2. CASE ~Winner(a) /\ i = 0
  <2>1. ActiveBids(a) = {}
    BY <1>2, OpenTop
  <2>2. SettlePostings(a) = <<>>
    BY <1>2, <2>1, RefundsOfNone DEF SettlePostings
  <2>3. Refund(a, w) = 0
    <3>1. i \notin Held(a)
      BY <1>2 DEF Held, LedgerInv, LedgerTypeOK
    <3> QED
      BY <3>1 DEF Refund
  <2> QED
    BY <1>2, <2>2, <2>3, DueNone
<1>3. CASE ~Winner(a) /\ i # 0
  <2>1. /\ i \in Nat /\ b \in User /\ y \in Nat /\ y \in Int /\ i \in Held(a)
        /\ bids[i].hold = "active" /\ TopPrice(a) = y /\ ActiveBids(a) = {i}
    BY <1>3, OpenTop
  <2> DEFINE q == <<Posting(b, y)>>
  <2>2. SettlePostings(a) = q
    BY <1>3, <2>1, RefundsOfOne DEF SettlePostings
  <2>3. q \in Seq(User \X Int) /\ Len(q) = 1 /\ Due4(q, w) = Plus(b, y, w)
    BY <2>1, DueOne
  <2>4. Refund(a, w) = Plus(b, y, w)
    BY <2>1 DEF Refund, Plus
  <2> HIDE DEF q
  <2> QED
    BY <1>3, <2>2, <2>3, <2>4
<1> QED
  BY <1>1, <1>2, <1>3

-----------------------------------------------------------------------------
(* The invariant of the transactions.                                      *)

(* At first no transaction runs.                                           *)
LEMMA EscrowInit == Init => EscrowInv
<1> SUFFICES ASSUME Init PROVE EscrowInv
  OBVIOUS
<1>1. LedgerInv
  BY InvInit DEF Init
<1>2. BooksBalance /\ requests \in 0 .. MaxRequests /\ aborts \in 0 .. MaxAborts
  BY EscrowAssumption DEF Init, LedgerInit, BooksBalance
<1>3. tx = [s \in Session |-> Idle] /\ \A s \in Session : ~Busy(s)
  BY DEF Init, Busy, Idle
<1> QED
  BY <1>1, <1>2, <1>3 DEF EscrowInv

(* A running transaction is not the idle one.                              *)
LEMMA Running ==
    ASSUME EscrowInv, NEW s \in Session, Busy(s)
    PROVE  tx[s] \in Transaction /\ TxInv(tx[s])
BY DEF EscrowInv, TxInv

(* One transaction moves, and the others see none of what it writes.       *)
LEMMA Carry ==
    ASSUME EscrowInv, LedgerInv', BooksBalance', now' >= now,
           requests' \in 0 .. MaxRequests, aborts' \in 0 .. MaxAborts,
           NEW s \in Session, NEW n \in {Idle} \union Transaction,
           tx' = [tx EXCEPT ![s] = n],
           n \in Transaction => TxInv(n)',
           \A r \in Session \ {s} : Busy(r) =>
              /\ n \in Transaction => Apart(tx[r], n)
              /\ tx[r].op # "recharge" => Untouched(tx[r].auction)
              /\ \A w \in DOMAIN tx[r].wallet : balance'[w] = balance[w]
    PROVE  EscrowInv'
<1>1. tx \in [Session -> {Idle} \union Transaction] /\ LedgerInv
  BY DEF EscrowInv
<1>2. tx' \in [Session -> {Idle} \union Transaction]
  BY <1>1
<1>3. tx'[s] = n /\ \A r \in Session \ {s} : tx'[r] = tx[r]
  BY <1>1
<1>4. LedgerTypeOK'
  BY DEF LedgerInv
<1>5. \A r \in Session : Busy(r)' => tx'[r] \in Transaction
  BY <1>2 DEF Busy, Idle
<1>6. ASSUME NEW r \in Session, Busy(r)' PROVE TxInv(tx[r])'
  <2>1. CASE r = s
    <3>1. n \in Transaction /\ TxInv(n)'
      BY <1>3, <1>5, <1>6, <2>1
    <3> QED
      BY <1>3, <2>1, <3>1
  <2>2. CASE r # s
    <3>1. PICK t : t = tx[r]
      OBVIOUS
    <3>2. tx'[r] = t /\ Busy(r)
      BY <1>3, <1>6, <2>2, <3>1 DEF Busy
    <3>3. TxInv(t)
      BY <3>1, <3>2, Running
    <3>4. /\ t.op # "recharge" => Untouched(t.auction)
          /\ \A w \in DOMAIN t.wallet : balance'[w] = balance[w]
      BY <2>2, <3>1, <3>2
    <3>5. TxInv(t)'
      BY <1>1, <1>4, <3>3, <3>4, Stays
    <3> QED
      BY <3>2, <3>5
  <2> QED
    BY <2>1, <2>2
<1>7. ASSUME NEW r \in Session, NEW q \in Session, r # q, Busy(r)', Busy(q)'
      PROVE  Apart(tx'[r], tx'[q])
  <2>1. CASE r # s /\ q # s
    BY <1>3, <1>7, <2>1 DEF EscrowInv, Busy
  <2>2. CASE r # s /\ q = s
    BY <1>3, <1>5, <1>7, <2>2 DEF Busy
  <2>3. CASE r = s /\ q # s
    <3>1. Apart(tx[q], n) /\ tx'[q] = tx[q] /\ tx'[r] = n
      BY <1>3, <1>5, <1>7, <2>3 DEF Busy
    <3> QED
      BY <3>1 DEF Apart
  <2> QED
    BY <1>7, <2>1, <2>2, <2>3
<1>8. \A r \in Session : Busy(r)' => TxInv(tx[r])'
  BY <1>6
<1>9. \A r, q \in Session : r # q /\ Busy(r)' /\ Busy(q)' => Apart(tx'[r], tx'[q])
  BY <1>7
<1> QED
  BY <1>2, <1>8, <1>9 DEF EscrowInv

(* A step inside a transaction touches no listing and no wallet.           *)
LEMMA Inside ==
    ASSUME EscrowInv, UNCHANGED <<ledgerVars, ledger>>,
           requests' \in 0 .. MaxRequests, aborts' \in 0 .. MaxAborts,
           NEW s \in Session, NEW n \in {Idle} \union Transaction,
           tx' = [tx EXCEPT ![s] = n],
           n \in Transaction => TxInv(n),
           \A r \in Session \ {s} : Busy(r) /\ n \in Transaction => Apart(tx[r], n)
    PROVE  EscrowInv'
<1>1. LedgerInv /\ now \in Nat
  BY DEF EscrowInv, LedgerInv, LedgerTypeOK
<1>2. LedgerInv' /\ LedgerTypeOK' /\ now' >= now
  <2>1. LedgerInv'
    BY <1>1, InvStep
  <2> QED
    BY <1>1, <2>1 DEF LedgerInv, ledgerVars
<1>3. \A b \in Auction : Untouched(b)
  BY DEF Untouched, BidsOf, ledgerVars
<1>4. BooksBalance' /\ balance' = balance
  BY DEF EscrowInv, BooksBalance, ledgerVars
<1>5. n \in Transaction => TxInv(n)'
  <2> SUFFICES ASSUME n \in Transaction PROVE TxInv(n)'
    OBVIOUS
  <2>1. TxInv(n) /\ (n.op # "recharge" => n.auction \in Auction)
    BY DEF TxInv, Checked
  <2> QED
    BY <1>1, <1>2, <1>3, <1>4, <2>1, Stays
<1>6. ASSUME NEW r \in Session \ {s}, Busy(r)
      PROVE  /\ tx[r].op # "recharge" => Untouched(tx[r].auction)
             /\ \A w \in DOMAIN tx[r].wallet : balance'[w] = balance[w]
  <2>1. tx[r].op # "recharge" => tx[r].auction \in Auction
    BY <1>6, Running DEF TxInv, Checked
  <2> QED
    BY <1>3, <1>4, <2>1
<1> QED
  BY <1>2, <1>4, <1>5, <1>6, Carry

(* A transaction that begins owes what the promised step moves.            *)
LEMMA Starts ==
    ASSUME EscrowInv, UNCHANGED <<ledgerVars, ledger, aborts>>,
           requests' \in 0 .. MaxRequests, NEW s \in Session,
           NEW op \in {"bid", "purchase", "recharge", "settle"},
           NEW a \in Auction \union {"none"}, NEW u \in User, NEW x \in Nat,
           NEW q \in Seq(User \X Int), Len(q) <= 4, Begin(s, op, a, u, x, q),
           op # "recharge" => ListingFree(a),
           NEW n, n = [op |-> op, auction |-> a, user |-> u, price |-> x,
                       at |-> now, todo |-> q, wallet |-> <<>>],
           \A w \in User : Due4(q, w) = Effect(n, w),
           \A w \in User : Due4(q, w) \in Int,
           Checked(n), Funded(n)
    PROVE  EscrowInv'
<1>1. now \in Nat
  BY DEF EscrowInv, LedgerInv, LedgerTypeOK
<1>2. /\ n.op = op /\ n.auction = a /\ n.user = u /\ n.price = x
      /\ n.at = now /\ n.todo = q /\ n.wallet = <<>>
  OBVIOUS
<1>3. n \in Transaction /\ DOMAIN n.wallet = {}
  BY <1>1, <1>2, NoWallet DEF Transaction
<1>4. \A w \in User : Entered(n, w) = 0
  BY <1>3 DEF Entered
<1>5. TxInv(n)
  BY <1>1, <1>2, <1>3, <1>4 DEF TxInv
<1>6. ASSUME NEW r \in Session \ {s}, Busy(r) PROVE Apart(tx[r], n)
  BY <1>2, <1>3, <1>6 DEF Apart, ListingFree
<1>7. tx' = [tx EXCEPT ![s] = n]
  BY DEF Begin
<1>8. aborts' \in 0 .. MaxAborts
  BY DEF EscrowInv
<1> QED
  BY <1>3, <1>5, <1>6, <1>7, <1>8, Inside

(* A bid begins with its price to take.                                    *)
LEMMA OpenBidKeeps ==
    ASSUME EscrowInv, NEW s \in Session, NEW a \in Auction, NEW u \in User,
           NEW x \in Nat, OpenBid(s, a, u, x)
    PROVE  EscrowInv'
<1>1. /\ LedgerInv /\ LedgerTypeOK /\ Open(a) /\ ListingFree(a) /\ Acceptable(a, u, x, now)
      /\ Begin(s, "bid", a, u, x, BidPostings(a, u, x))
      /\ UNCHANGED <<ledgerVars, ledger, aborts>>
  BY DEF OpenBid, Enter, EscrowInv, LedgerInv
<1>2. requests' \in 0 .. MaxRequests
  BY EscrowAssumption DEF OpenBid, Request, EscrowInv
<1>3. PICK q : q = BidPostings(a, u, x)
  OBVIOUS
<1>4. /\ q \in Seq(User \X Int) /\ Len(q) <= 4 /\ q # <<>> /\ q[1] = Posting(u, -x)
      /\ \A w \in User : Due4(q, w) = Refund(a, w) + Minus(u, x, w)
  <2>1. ASSUME NEW w
        PROVE  /\ q \in Seq(User \X Int) /\ Len(q) <= 4 /\ q # <<>> /\ q[1] = Posting(u, -x)
               /\ Due4(q, w) = Refund(a, w) + Minus(u, x, w)
    BY <1>1, <1>3, BidDue
  <2> QED
    BY <2>1
<1>5. PICK n : n = [op |-> "bid", auction |-> a, user |-> u, price |-> x,
                    at |-> now, todo |-> q, wallet |-> <<>>]
  OBVIOUS
<1>6. /\ n.op = "bid" /\ n.auction = a /\ n.user = u /\ n.price = x
      /\ n.at = now /\ n.todo = q /\ n.wallet = <<>>
  BY <1>5
<1>7. \A w \in User : Effect(n, w) = Refund(a, w) + Minus(u, x, w)
  BY <1>6 DEF Effect
<1>8. \A w \in User : Refund(a, w) + Minus(u, x, w) \in Int
  BY <1>1, RefundType DEF Minus
<1>9. Checked(n)
  BY <1>1, <1>6 DEF Checked
<1>10. Funded(n)
  BY <1>4, <1>6, NoWallet DEF Funded
<1> QED
  BY <1>1, <1>2, <1>3, <1>4, <1>5, <1>7, <1>8, <1>9, <1>10, Starts

(* A purchase begins with the price to move to the seller.                 *)
LEMMA OpenPurchaseKeeps ==
    ASSUME EscrowInv, NEW s \in Session, NEW a \in Auction, NEW u \in User,
           OpenPurchase(s, a, u)
    PROVE  EscrowInv'
<1>1. /\ LedgerInv /\ LedgerTypeOK /\ Open(a) /\ ListingFree(a) /\ u # Seller[a]
      /\ Begin(s, "purchase", a, u, Ask[a], Transfer(u, Seller[a], Ask[a]))
      /\ UNCHANGED <<ledgerVars, ledger, aborts>>
  BY DEF OpenPurchase, Enter, EscrowInv, LedgerInv
<1>2. requests' \in 0 .. MaxRequests
  BY EscrowAssumption DEF OpenPurchase, Request, EscrowInv
<1>3. PICK x \in Nat, v \in User : x = Ask[a] /\ v = Seller[a]
  BY LedgerAssumption
<1>4. PICK q : q = Transfer(u, v, x)
  OBVIOUS
<1>5. /\ q \in Seq(User \X Int) /\ Len(q) <= 4
      /\ \A w \in User : Due4(q, w) = Plus(v, x, w) + Minus(u, x, w)
  <2>1. ASSUME NEW w
        PROVE  /\ q \in Seq(User \X Int) /\ Len(q) <= 4
               /\ Due4(q, w) = Plus(v, x, w) + Minus(u, x, w)
    BY <1>4, TransferDue
  <2> QED
    BY <2>1
<1>6. PICK n : n = [op |-> "purchase", auction |-> a, user |-> u, price |-> x,
                    at |-> now, todo |-> q, wallet |-> <<>>]
  OBVIOUS
<1>7. /\ n.op = "purchase" /\ n.auction = a /\ n.user = u /\ n.price = x
      /\ n.at = now /\ n.todo = q /\ n.wallet = <<>>
  BY <1>6
<1>8. \A w \in User : Effect(n, w) = Plus(v, x, w) + Minus(u, x, w)
  BY <1>3, <1>7 DEF Effect
<1>9. \A w \in User : Plus(v, x, w) + Minus(u, x, w) \in Int
  BY DEF Plus, Minus
<1>10. Checked(n) /\ Funded(n)
  BY <1>1, <1>7 DEF Checked, Funded
<1>11. Begin(s, "purchase", a, u, x, q)
  BY <1>1, <1>3, <1>4
<1>12. \A w \in User : Due4(q, w) = Effect(n, w) /\ Due4(q, w) \in Int
  BY <1>5, <1>8, <1>9
<1>13. /\ ListingFree(a) /\ UNCHANGED <<ledgerVars, ledger, aborts>>
       /\ q \in Seq(User \X Int) /\ Len(q) <= 4
  BY <1>1, <1>5
<1> QED
  BY <1>2, <1>6, <1>10, <1>11, <1>12, <1>13, Starts

(* A recharge begins with one unit to give.                                *)
LEMMA OpenRechargeKeeps ==
    ASSUME EscrowInv, NEW s \in Session, NEW u \in User, OpenRecharge(s, u)
    PROVE  EscrowInv'
<1>1. /\ Begin(s, "recharge", "none", u, 1, <<Posting(u, 1)>>)
      /\ UNCHANGED <<ledgerVars, ledger, aborts>>
  BY DEF OpenRecharge
<1>2. requests' \in 0 .. MaxRequests
  BY EscrowAssumption DEF OpenRecharge, Request, EscrowInv
<1>3. PICK q : q = <<Posting(u, 1)>>
  OBVIOUS
<1>4. /\ q \in Seq(User \X Int) /\ Len(q) <= 4
      /\ \A w \in User : Due4(q, w) = Plus(u, 1, w)
  <2>1. ASSUME NEW w
        PROVE  q \in Seq(User \X Int) /\ Len(q) <= 4 /\ Due4(q, w) = Plus(u, 1, w)
    <3>1. q \in Seq(User \X Int) /\ Len(q) = 1 /\ Due4(q, w) = Plus(u, 1, w)
      BY <1>3, DueOne
    <3> QED
      BY <3>1
  <2> QED
    BY <2>1
<1>5. PICK n : n = [op |-> "recharge", auction |-> "none", user |-> u, price |-> 1,
                    at |-> now, todo |-> q, wallet |-> <<>>]
  OBVIOUS
<1>6. n.op = "recharge" /\ n.user = u
  BY <1>5
<1>7. \A w \in User : Effect(n, w) = Plus(u, 1, w) /\ Plus(u, 1, w) \in Int
  BY <1>6 DEF Effect, Plus
<1>8. Checked(n) /\ Funded(n)
  BY <1>6 DEF Checked, Funded
<1>9. 1 \in Nat /\ "none" \in Auction \union {"none"}
  OBVIOUS
<1> QED
  BY <1>1, <1>2, <1>3, <1>4, <1>5, <1>7, <1>8, <1>9, Starts

(* A settlement begins with the payment or the refund to make.             *)
LEMMA OpenSettleKeeps ==
    ASSUME EscrowInv, NEW s \in Session, NEW a \in Auction, OpenSettle(s, a),
           requests' \in 0 .. MaxRequests
    PROVE  EscrowInv'
<1>1. /\ LedgerInv /\ LedgerTypeOK /\ Open(a) /\ ListingFree(a) /\ Due(a)
      /\ Begin(s, "settle", a, Seller[a], 0, SettlePostings(a))
      /\ UNCHANGED <<ledgerVars, ledger, aborts>>
  BY DEF OpenSettle, Enter, EscrowInv, LedgerInv
<1>2. PICK v \in User : v = Seller[a]
  BY LedgerAssumption
<1>3. PICK q : q = SettlePostings(a)
  OBVIOUS
<1>4. /\ q \in Seq(User \X Int) /\ Len(q) <= 4
      /\ \A w \in User : Due4(q, w) = IF Winner(a) THEN Plus(Seller[a], TopPrice(a), w)
                                      ELSE Refund(a, w)
  <2>1. ASSUME NEW w
        PROVE  /\ q \in Seq(User \X Int) /\ Len(q) <= 4
               /\ Due4(q, w) = IF Winner(a) THEN Plus(Seller[a], TopPrice(a), w)
                               ELSE Refund(a, w)
    BY <1>1, <1>3, SettleDue
  <2> QED
    BY <2>1
<1>5. PICK n : n = [op |-> "settle", auction |-> a, user |-> v, price |-> 0,
                    at |-> now, todo |-> q, wallet |-> <<>>]
  OBVIOUS
<1>6. n.op = "settle" /\ n.auction = a
  BY <1>5
<1>7. \A w \in User : Due4(q, w) = Effect(n, w)
  BY <1>4, <1>6 DEF Effect
<1>8. \A w \in User : Due4(q, w) \in Int
  BY <1>1, <1>4, RefundType, OpenTop DEF Plus
<1>9. Checked(n) /\ Funded(n)
  BY <1>1, <1>6 DEF Checked, Funded, Due
<1>10. Begin(s, "settle", a, v, 0, q) /\ 0 \in Nat
  BY <1>1, <1>2, <1>3
<1> QED
  BY <1>1, <1>4, <1>5, <1>7, <1>8, <1>9, <1>10, Starts

(* A transaction that rolls back gives its locks up and has changed nothing. *)
LEMMA RollbackKeeps ==
    ASSUME EscrowInv, NEW s \in Session, Rollback(s), aborts' \in 0 .. MaxAborts
    PROVE  EscrowInv'
<1>1. tx' = [tx EXCEPT ![s] = Idle] /\ UNCHANGED <<ledgerVars, ledger>>
  BY DEF Rollback
<1>2. requests' \in 0 .. MaxRequests
  BY DEF Rollback, EscrowInv
<1>3. Idle \notin Transaction
  BY DEF Idle, Transaction
<1> QED
  BY <1>1, <1>2, <1>3, Inside

(* What the program computes for a wallet is in keeping with its entries.  *)
LEMMA BalancedType ==
    ASSUME EscrowInv, NEW s \in Session, Working(s), NEW t, t = tx[s]
    PROVE  LET u == Head(t.todo)[1]
               d == Head(t.todo)[2]
           IN  /\ u \in User /\ d \in Int
               /\ Balanced(s).balance = balance[u] + Balanced(s).entries
               /\ Balanced(s).entries = Entered(t, u) + d
               /\ Balanced(s) = [balance |-> Balanced(s).balance, entries |-> Balanced(s).entries]
               /\ Balanced(s).entries \in Int
               /\ u \notin DOMAIN t.wallet => Balanced(s).balance = balance[u] + d
<1> DEFINE u == Head(t.todo)[1]
           d == Head(t.todo)[2]
<1>1. Busy(s) /\ t.todo # <<>> /\ t \in Transaction /\ TxInv(t)
  BY Running DEF Working
<1>2. t.todo \in Seq(User \X Int) /\ Len(t.todo) <= 4 /\ t.wallet \in Wallets
  BY <1>1 DEF TxInv, Transaction
<1>3. u \in User /\ d \in Int
  BY <1>1, <1>2, DueTail
<1>4. balance[u] \in Nat
  BY <1>3 DEF EscrowInv, LedgerInv, LedgerTypeOK
<1>5. CASE u \in DOMAIN t.wallet
  <2>1. Balanced(s) = [balance |-> t.wallet[u].balance + d, entries |-> t.wallet[u].entries + d]
    BY <1>1, <1>5 DEF Balanced, Locked
  <2>2. t.wallet[u] \in Wallet /\ t.wallet[u].balance = balance[u] + t.wallet[u].entries
    BY <1>1, <1>2, <1>5, WalletsType DEF TxInv
  <2>3. PICK e \in Int : e = t.wallet[u].entries
    BY <2>2 DEF Wallet
  <2>4. Balanced(s).entries = e + d /\ Balanced(s).balance = (balance[u] + e) + d
    BY <2>1, <2>2, <2>3
  <2>5. Entered(t, u) = e
    BY <1>5, <2>3 DEF Entered
  <2>6. Balanced(s) = [balance |-> Balanced(s).balance, entries |-> Balanced(s).entries]
    BY <2>1
  <2> HIDE DEF u, d
  <2>7. Balanced(s).balance = balance[u] + Balanced(s).entries /\ Balanced(s).entries \in Int
    BY <1>3, <1>4, <2>4
  <2> QED
    BY <1>3, <1>5, <2>4, <2>5, <2>6, <2>7 DEF u, d
<1>6. CASE u \notin DOMAIN t.wallet
  <2>1. Balanced(s) = [balance |-> balance[u] + d, entries |-> 0 + d]
    BY <1>6 DEF Balanced, Locked
  <2>2. Entered(t, u) = 0
    BY <1>6 DEF Entered
  <2>3. Balanced(s).balance = balance[u] + d /\ Balanced(s).entries = 0 + d
    BY <2>1
  <2>4. Balanced(s) = [balance |-> Balanced(s).balance, entries |-> Balanced(s).entries]
    BY <2>1
  <2> QED
    BY <1>3, <1>4, <2>2, <2>3, <2>4
<1> QED
  BY <1>5, <1>6

(* A posting turns what is due to a wallet into an entry for it, and the    *)
(* wallet is then the transaction's.                                        *)
LEMMA PostKeeps ==
    ASSUME EscrowInv, NEW s \in Session, Post(s)
    PROVE  EscrowInv'
<1>1. PICK t : t = tx[s]
  OBVIOUS
<1>2. /\ Working(s) /\ WalletFree(s) /\ Balanced(s).balance >= 0 /\ Posted(s)
      /\ t \in Transaction /\ TxInv(t) /\ t.todo # <<>>
  BY <1>1, Running DEF Post, Working
<1>3. t.todo \in Seq(User \X Int) /\ Len(t.todo) <= 4 /\ t.wallet \in Wallets
  BY <1>2 DEF TxInv, Transaction
<1>4. PICK u, d : u = Head(t.todo)[1] /\ d = Head(t.todo)[2]
  OBVIOUS
<1>5. PICK b : b = Balanced(s)
  OBVIOUS
<1>6. PICK m : m = [w \in DOMAIN t.wallet \union {u} |-> IF w = u THEN b ELSE t.wallet[w]]
  OBVIOUS
<1>7. PICK n : n = [t EXCEPT !.todo = Tail(t.todo), !.wallet = m]
  OBVIOUS
<1>8. tx' = [tx EXCEPT ![s] = n] /\ UNCHANGED <<ledgerVars, ledger, requests, aborts>>
  BY <1>1, <1>2, <1>4, <1>5, <1>6, <1>7 DEF Posted
<1>9. /\ u \in User /\ d \in Int /\ b.balance = balance[u] + b.entries
      /\ b.entries = Entered(t, u) + d /\ b = [balance |-> b.balance, entries |-> b.entries]
      /\ b.entries \in Int
      /\ u \notin DOMAIN t.wallet => b.balance = balance[u] + d
  BY <1>1, <1>2, <1>4, <1>5, BalancedType
<1>10. balance \in [User -> Nat]
  BY DEF EscrowInv, LedgerInv, LedgerTypeOK
<1>11. b \in Wallet
  BY <1>2, <1>5, <1>9, <1>10 DEF Wallet
<1>12. /\ DOMAIN m = DOMAIN t.wallet \union {u} /\ m[u] = b
       /\ \A w \in DOMAIN t.wallet : w # u => m[w] = t.wallet[w]
  BY <1>6
<1>13. m \in Wallets
  <2>1. DOMAIN m \subseteq User /\ \A w \in DOMAIN m : m[w] \in Wallet
    BY <1>3, <1>9, <1>11, <1>12, WalletsType
  <2>2. m \in [DOMAIN m -> Wallet]
    BY <1>6, <2>1
  <2> QED
    BY <2>1, <2>2 DEF Wallets
<1>14. /\ Head(t.todo) = t.todo[1]
       /\ Tail(t.todo) \in Seq(User \X Int) /\ Len(Tail(t.todo)) <= 4
       /\ \A w : /\ Due4(t.todo, w) = Plus(u, d, w) + Due4(Tail(t.todo), w)
                 /\ Due4(Tail(t.todo), w) \in Int
  <2>1. ASSUME NEW w
        PROVE  /\ Head(t.todo) = t.todo[1]
               /\ Tail(t.todo) \in Seq(User \X Int) /\ Len(Tail(t.todo)) <= 4
               /\ Due4(t.todo, w) = Plus(u, d, w) + Due4(Tail(t.todo), w)
               /\ Due4(Tail(t.todo), w) \in Int
    BY <1>2, <1>3, <1>4, DueTail
  <2> QED
    BY <2>1
<1>15. /\ n.op = t.op /\ n.auction = t.auction /\ n.user = t.user /\ n.price = t.price
       /\ n.at = t.at /\ n.todo = Tail(t.todo) /\ n.wallet = m
  BY <1>2, <1>7 DEF Transaction
<1>16. n \in Transaction
  BY <1>2, <1>7, <1>13, <1>14 DEF Transaction
<1>17. \A w \in DOMAIN n.wallet : n.wallet[w].balance = balance[w] + n.wallet[w].entries
  BY <1>2, <1>9, <1>12, <1>15 DEF TxInv
<1>18. ASSUME NEW w \in User PROVE Entered(n, w) + Due4(n.todo, w) = Effect(n, w)
  <2>1. Effect(n, w) = Effect(t, w) /\ Entered(t, w) + Due4(t.todo, w) = Effect(t, w)
    BY <1>2, <1>15 DEF Effect, TxInv
  <2>2. Entered(t, w) \in Int
    BY <1>3, WalletsType DEF Entered, Wallet
  <2>3. Entered(n, w) = Entered(t, w) + Plus(u, d, w)
    <3>1. CASE w = u
      BY <1>9, <1>12, <1>15, <3>1 DEF Entered, Plus
    <3>2. CASE w # u
      <4>1. Entered(n, w) = Entered(t, w)
        BY <1>12, <1>15, <3>2 DEF Entered
      <4> QED
        BY <2>2, <3>2, <4>1 DEF Plus
    <3> QED
      BY <3>1, <3>2
  <2>4. Plus(u, d, w) \in Int
    BY <1>9 DEF Plus
  <2> QED
    BY <1>14, <1>15, <2>1, <2>2, <2>3, <2>4
<1>19. Checked(n)
  BY <1>2, <1>15 DEF TxInv, Checked
<1>20. Funded(n)
  <2> SUFFICES ASSUME n.op = "bid"
               PROVE  n.user \in DOMAIN n.wallet /\ balance[n.user] >= n.price
    BY DEF Funded
  <2>1. CASE t.todo[1] = Posting(t.user, -t.price) /\ DOMAIN t.wallet = {}
    <3>1. u = t.user /\ d = -t.price /\ u \notin DOMAIN t.wallet
      BY <1>4, <1>14, <2>1 DEF Posting
    <3>2. t.price \in Nat /\ balance[u] \in Nat
      BY <1>2, <1>9, <1>10 DEF Transaction
    <3>3. balance[u] >= t.price
      BY <1>2, <1>5, <1>9, <3>1, <3>2
    <3> QED
      BY <1>12, <1>15, <3>1, <3>3
  <2>2. CASE t.user \in DOMAIN t.wallet /\ balance[t.user] >= t.price
    BY <1>12, <1>15, <2>2
  <2> QED
    BY <1>2, <1>15, <2>1, <2>2 DEF TxInv, Funded
<1>21. TxInv(n)
  BY <1>2, <1>14, <1>15, <1>16, <1>17, <1>18, <1>19, <1>20 DEF TxInv
<1>22. ASSUME NEW r \in Session \ {s}, Busy(r) PROVE Apart(tx[r], n)
  <2>1. u \notin DOMAIN tx[r].wallet
    BY <1>1, <1>2, <1>4, <1>22 DEF WalletFree, Locked
  <2>2. Apart(tx[r], t)
    BY <1>1, <1>2, <1>22 DEF EscrowInv, Working
  <2> QED
    BY <1>12, <1>15, <2>1, <2>2 DEF Apart
<1>23. requests' \in 0 .. MaxRequests /\ aborts' \in 0 .. MaxAborts
  BY <1>8 DEF EscrowInv
<1> QED
  BY <1>8, <1>16, <1>21, <1>22, <1>23, Inside

(* A step outside the transactions keeps off the listings they have.       *)
LEMMA Outside ==
    ASSUME EscrowInv, LedgerInv', now' >= now, UNCHANGED <<balance, tx, ledger>>,
           requests' \in 0 .. MaxRequests, aborts' \in 0 .. MaxAborts,
           \A r \in Session : Busy(r) /\ tx[r].op # "recharge" => Untouched(tx[r].auction)
    PROVE  EscrowInv'
<1>1. LedgerInv /\ LedgerTypeOK' /\ BooksBalance'
  BY DEF EscrowInv, LedgerInv, BooksBalance
<1>2. ASSUME NEW r \in Session, Busy(r)' PROVE TxInv(tx[r])'
  <2>1. PICK t : t = tx[r]
    OBVIOUS
  <2>2. tx'[r] = t /\ Busy(r)
    BY <1>2, <2>1 DEF Busy
  <2>3. TxInv(t)
    BY <2>1, <2>2, Running
  <2>4. t.op # "recharge" => Untouched(t.auction)
    BY <2>1, <2>2
  <2>5. \A w \in DOMAIN t.wallet : balance'[w] = balance[w]
    OBVIOUS
  <2>6. TxInv(t)'
    BY <1>1, <2>3, <2>4, <2>5, Stays
  <2> QED
    BY <2>2, <2>6
<1>3. \A r \in Session : Busy(r)' => TxInv(tx[r])'
  BY <1>2
<1>4. \A r, q \in Session : r # q /\ Busy(r)' /\ Busy(q)' => Apart(tx'[r], tx'[q])
  BY DEF EscrowInv, Busy
<1>5. tx' \in [Session -> {Idle} \union Transaction]
  BY DEF EscrowInv
<1> QED
  BY <1>1, <1>3, <1>4, <1>5 DEF EscrowInv

(* The seller's cancel waits for the listing lock.                         *)
LEMMA CancelKeeps ==
    ASSUME EscrowInv, NEW a \in Auction, Cancel(a)
    PROVE  EscrowInv'
<1>1. /\ LedgerInv /\ CancelListing(a) /\ ListingFree(a)
      /\ UNCHANGED <<now, balance, tx, ledger, aborts>>
  BY DEF Cancel, CancelListing, EscrowInv
<1>2. LedgerInv'
  BY <1>1, InvStep DEF LedgerNext
<1>3. requests' \in 0 .. MaxRequests /\ aborts' \in 0 .. MaxAborts
  BY <1>1, EscrowAssumption DEF Cancel, Request, EscrowInv
<1>4. now' >= now
  BY <1>1 DEF LedgerInv, LedgerTypeOK
<1>5. \A b \in Auction : b # a => Untouched(b)
  BY <1>1, CloseAroundBidsInv DEF CancelListing
<1>6. ASSUME NEW r \in Session, Busy(r), tx[r].op # "recharge"
      PROVE  Untouched(tx[r].auction)
  <2>1. tx[r].auction \in Auction
    BY <1>6, Running DEF TxInv, Checked
  <2> QED
    BY <1>1, <1>5, <1>6, <2>1 DEF ListingFree
<1> QED
  BY <1>1, <1>2, <1>3, <1>4, <1>6, Outside

(* Time passes under the transactions.                                     *)
LEMMA TickKeeps ==
    ASSUME EscrowInv, Tick
    PROVE  EscrowInv'
<1>1. LedgerInv /\ Pass /\ UNCHANGED <<balance, bids, listing, tx, ledger, requests, aborts>>
  BY DEF Tick, Pass, EscrowInv
<1>2. LedgerInv'
  BY <1>1, InvStep DEF LedgerNext
<1>3. now' >= now
  BY <1>1 DEF Pass, LedgerInv, LedgerTypeOK
<1>4. requests' \in 0 .. MaxRequests /\ aborts' \in 0 .. MaxAborts
  BY <1>1 DEF EscrowInv
<1>5. \A r \in Session : Busy(r) /\ tx[r].op # "recharge" => Untouched(tx[r].auction)
  BY <1>1 DEF Untouched, BidsOf
<1> QED
  BY <1>1, <1>2, <1>3, <1>4, <1>5, Outside

-----------------------------------------------------------------------------
(* The commits.                                                            *)

(* A commit writes what the promised step moves, and only wallets it has.  *)
LEMMA Written ==
    ASSUME EscrowInv, NEW s \in Session, Busy(s), WriteWallets(s),
           NEW t, t = tx[s], t.todo = <<>>
    PROVE  /\ balance' \in [User -> Nat]
           /\ \A w \in User : balance'[w] = balance[w] + Effect(t, w)
           /\ \A w \in User : w \notin DOMAIN t.wallet => balance'[w] = balance[w]
           /\ BooksBalance'
<1>1. t \in Transaction /\ TxInv(t) /\ t.wallet \in Wallets
  BY Running DEF Transaction
<1>2. balance \in [User -> Nat] /\ ledger = balance
  BY DEF EscrowInv, LedgerInv, LedgerTypeOK, BooksBalance
<1>3. /\ balance' = [w \in User |-> IF w \in DOMAIN t.wallet THEN t.wallet[w].balance
                                    ELSE balance[w]]
      /\ ledger' = [w \in User |-> ledger[w] + (IF w \in DOMAIN t.wallet
                                                THEN t.wallet[w].entries ELSE 0)]
  BY DEF WriteWallets, Locked
<1>4. ASSUME NEW w \in User
      PROVE  /\ balance'[w] \in Nat
             /\ balance'[w] = balance[w] + Effect(t, w)
             /\ w \notin DOMAIN t.wallet => balance'[w] = balance[w]
             /\ ledger'[w] = balance'[w]
  <2>1. Entered(t, w) + Due4(t.todo, w) = Effect(t, w) /\ Due4(t.todo, w) = 0
    BY <1>1, DueNone DEF TxInv
  <2>2. Entered(t, w) \in Int
    BY <1>1, WalletsType DEF Entered, Wallet
  <2>3. Effect(t, w) = Entered(t, w)
    BY <2>1, <2>2
  <2>4. CASE w \in DOMAIN t.wallet
    <3>1. /\ t.wallet[w] \in Wallet /\ t.wallet[w].balance = balance[w] + t.wallet[w].entries
          /\ Entered(t, w) = t.wallet[w].entries
      BY <1>1, <2>4, WalletsType DEF TxInv, Entered
    <3>2. balance'[w] = t.wallet[w].balance /\ ledger'[w] = ledger[w] + t.wallet[w].entries
      BY <1>3, <2>4
    <3> QED
      BY <1>2, <2>3, <2>4, <3>1, <3>2 DEF Wallet
  <2>5. CASE w \notin DOMAIN t.wallet
    <3>1. balance'[w] = balance[w] /\ ledger'[w] = ledger[w] + 0 /\ Entered(t, w) = 0
      BY <1>3, <2>5 DEF Entered
    <3> QED
      BY <1>2, <2>3, <2>5, <3>1
  <2> QED
    BY <2>4, <2>5
<1>5. balance' \in [User -> Nat]
  <2>1. DOMAIN balance' = User /\ balance' = [w \in User |-> balance'[w]]
    BY <1>3
  <2> QED
    BY <1>4, <2>1
<1>6. BooksBalance'
  <2>1. balance' = [w \in User |-> balance'[w]] /\ ledger' = [w \in User |-> ledger'[w]]
    BY <1>3
  <2>2. \A w \in User : ledger'[w] = balance'[w]
    BY <1>4
  <2>3. balance' = ledger'
    BY <1>3, <2>2
  <2> QED
    BY <2>3 DEF BooksBalance
<1> QED
  BY <1>4, <1>5, <1>6

(* A commit of a promised step that keeps to its listing and its wallets.  *)
LEMMA CommitKeeps ==
    ASSUME EscrowInv, NEW s \in Session, Busy(s), tx[s].todo = <<>>, WriteWallets(s),
           LedgerInv',
           \A b \in Auction : tx[s].op = "recharge" \/ b # tx[s].auction => Untouched(b)
    PROVE  EscrowInv'
<1>1. /\ BooksBalance'
      /\ \A w \in User : w \notin DOMAIN tx[s].wallet => balance'[w] = balance[w]
  BY Written
<1>2. tx' = [tx EXCEPT ![s] = Idle] /\ UNCHANGED <<now, requests, aborts>>
  BY DEF WriteWallets
<1>3. now' >= now /\ requests' \in 0 .. MaxRequests /\ aborts' \in 0 .. MaxAborts
  BY <1>2 DEF EscrowInv, LedgerInv, LedgerTypeOK
<1>4. ASSUME NEW r \in Session \ {s}, Busy(r)
      PROVE  /\ tx[r].op # "recharge" => Untouched(tx[r].auction)
             /\ \A w \in DOMAIN tx[r].wallet : balance'[w] = balance[w]
  <2>1. Apart(tx[r], tx[s]) /\ TxInv(tx[r]) /\ tx[r] \in Transaction
    BY <1>4, Running DEF EscrowInv
  <2>2. tx[r].op # "recharge" => tx[r].auction \in Auction
    BY <2>1 DEF TxInv, Checked
  <2>3. DOMAIN tx[r].wallet \subseteq User
    BY <2>1, WalletsType DEF Transaction
  <2> QED
    BY <1>1, <2>1, <2>2, <2>3 DEF Apart
<1>5. Idle \notin Transaction
  BY DEF Idle, Transaction
<1> QED
  BY <1>1, <1>2, <1>3, <1>4, <1>5, Carry

(* The commit of a bid is PlaceBid, judged at the time the bid came.       *)
LEMMA CommitBidLedger ==
    ASSUME EscrowInv, NEW s \in Session, CommitBid(s)
    PROVE  /\ tx[s].auction \in Auction /\ tx[s].user \in User
           /\ tx[s].at \in 0 .. now
           /\ tx[s].price \in Nat /\ tx[s].price \in 1 .. balance[tx[s].user]
           /\ PlaceBid(tx[s].auction, tx[s].user, tx[s].price, tx[s].at)
<1>1. PICK t : t = tx[s]
  OBVIOUS
<1>2. /\ Busy(s) /\ t.todo = <<>> /\ t.op = "bid" /\ WriteWallets(s)
      /\ t \in Transaction /\ TxInv(t)
      /\ bids' = Append(LetGo(t.auction, "outbid"), NewBid(t.auction, t.user, t.price))
      /\ listing' = Topped(t.auction, AntiSnipe(listing[t.auction].endsAt, t.at))
      /\ UNCHANGED <<now, recharged>>
  BY <1>1, Running DEF CommitBid, Ended, WriteWallets
<1>3. /\ t.auction \in Auction /\ t.user \in User /\ t.price \in Nat /\ t.at \in Nat
      /\ t.at <= now /\ Acceptable(t.auction, t.user, t.price, t.at)
  BY <1>2 DEF Transaction, TxInv, Checked
<1>4. PICK a \in Auction, u \in User, x \in Nat, at \in Nat :
         a = t.auction /\ u = t.user /\ x = t.price /\ at = t.at
  BY <1>3
<1>5. /\ balance \in [User -> Nat] /\ now \in Nat /\ LedgerInv
  BY DEF EscrowInv, LedgerInv, LedgerTypeOK
<1>6. balance[u] >= x
  BY <1>2, <1>4 DEF TxInv, Funded
<1>7. x >= 1
  <2>1. x >= MinNextBid(a)
    BY <1>3, <1>4 DEF Acceptable
  <2>2. MinNextBid(a) \in Nat /\ MinNextBid(a) >= 1
    <3>1. TopPrice(a) \in Nat
      BY <1>5, OpenTop
    <3>2. Ask[a] \in Nat /\ Ask[a] >= 1 /\ Increment \in Nat
      BY LedgerAssumption
    <3> QED
      BY <3>1, <3>2 DEF MinNextBid
  <2> QED
    BY <2>1, <2>2
<1>8. ASSUME NEW w \in User
      PROVE  balance'[w] = balance[w] + Refund(a, w) - (IF w = u THEN x ELSE 0)
  <2>1. balance'[w] = balance[w] + Effect(t, w)
    BY <1>1, <1>2, Written
  <2>2. Effect(t, w) = Refund(a, w) + Minus(u, x, w)
    BY <1>2, <1>4 DEF Effect
  <2>3. Refund(a, w) \in Nat
    BY <1>5, RefundType DEF LedgerInv
  <2> QED
    BY <1>5, <2>1, <2>2, <2>3 DEF Minus
<1>9. balance' = [w \in User |-> balance[w] + Refund(a, w) - (IF w = u THEN x ELSE 0)]
  <2>1. balance' \in [User -> Nat]
    BY <1>1, <1>2, Written
  <2> QED
    BY <1>8, <2>1
<1>10. PlaceBid(a, u, x, at)
  BY <1>2, <1>3, <1>4, <1>6, <1>9 DEF PlaceBid
<1>11. at \in 0 .. now /\ x \in 1 .. balance[u]
  BY <1>3, <1>4, <1>5, <1>6, <1>7
<1> QED
  BY <1>1, <1>4, <1>10, <1>11

(* The commit of a purchase is PurchaseListing.                            *)
LEMMA CommitPurchaseLedger ==
    ASSUME EscrowInv, NEW s \in Session, CommitPurchase(s)
    PROVE  /\ tx[s].auction \in Auction /\ tx[s].user \in User
           /\ PurchaseListing(tx[s].auction, tx[s].user)
<1>1. PICK t : t = tx[s]
  OBVIOUS
<1>2. /\ Busy(s) /\ t.todo = <<>> /\ t.op = "purchase" /\ WriteWallets(s)
      /\ t \in Transaction /\ TxInv(t)
      /\ listing' = [listing EXCEPT ![t.auction].status = "sold"]
      /\ UNCHANGED <<now, bids, recharged>>
  BY <1>1, Running DEF CommitPurchase, Ended, WriteWallets
<1>3. t.auction \in Auction /\ t.user \in User /\ Open(t.auction) /\ t.user # Seller[t.auction]
  BY <1>2 DEF Transaction, TxInv, Checked
<1>4. PICK a \in Auction, u \in User, x \in Nat \ {0}, v \in User :
         a = t.auction /\ u = t.user /\ x = Ask[t.auction] /\ v = Seller[t.auction]
  BY <1>3, LedgerAssumption
<1>5. balance \in [User -> Nat] /\ u # v
  BY <1>3, <1>4 DEF EscrowInv, LedgerInv, LedgerTypeOK
<1>6. /\ balance' \in [User -> Nat]
      /\ \A w \in User : balance'[w] = balance[w] + (Plus(v, x, w) + Minus(u, x, w))
  <2>1. /\ balance' \in [User -> Nat]
        /\ \A w \in User : balance'[w] = balance[w] + Effect(t, w)
    BY <1>1, <1>2, Written
  <2>2. \A w \in User : Effect(t, w) = Plus(v, x, w) + Minus(u, x, w)
    BY <1>2, <1>4 DEF Effect
  <2> QED
    BY <2>1, <2>2
<1>7. balance'[u] = balance[u] - x /\ balance'[v] = balance[v] + x
  BY <1>5, <1>6 DEF Plus, Minus
<1>8. \A w \in User : w # u /\ w # v => balance'[w] = balance[w]
  BY <1>5, <1>6 DEF Plus, Minus
<1>9. balance[u] >= x
  BY <1>5, <1>6, <1>7
<1>10. balance' = [balance EXCEPT ![u] = @ - x, ![v] = @ + x]
  BY <1>5, <1>6, <1>7, <1>8
<1>11. PurchaseListing(a, u)
  BY <1>2, <1>3, <1>4, <1>9, <1>10 DEF PurchaseListing
<1> QED
  BY <1>1, <1>4, <1>11

(* The commit of a recharge is Recharge.                                   *)
LEMMA CommitRechargeLedger ==
    ASSUME EscrowInv, NEW s \in Session, CommitRecharge(s)
    PROVE  tx[s].user \in User /\ Recharge(tx[s].user)
<1>1. PICK t : t = tx[s]
  OBVIOUS
<1>2. /\ Busy(s) /\ t.todo = <<>> /\ t.op = "recharge" /\ WriteWallets(s)
      /\ t \in Transaction /\ recharged' = recharged + 1
      /\ UNCHANGED <<now, bids, listing>>
  BY <1>1, Running DEF CommitRecharge, Ended, WriteWallets
<1>3. PICK u \in User : u = t.user
  BY <1>2 DEF Transaction
<1>4. balance \in [User -> Nat]
  BY DEF EscrowInv, LedgerInv, LedgerTypeOK
<1>5. /\ balance' \in [User -> Nat]
      /\ \A w \in User : balance'[w] = balance[w] + Plus(u, 1, w)
  <2>1. /\ balance' \in [User -> Nat]
        /\ \A w \in User : balance'[w] = balance[w] + Effect(t, w)
    BY <1>1, <1>2, Written
  <2> QED
    BY <1>2, <1>3, <2>1 DEF Effect
<1>6. balance'[u] = balance[u] + 1 /\ \A w \in User : w # u => balance'[w] = balance[w]
  BY <1>4, <1>5 DEF Plus
<1>7. balance' = [balance EXCEPT ![u] = @ + 1]
  BY <1>4, <1>5, <1>6
<1> QED
  BY <1>1, <1>2, <1>3, <1>7 DEF Recharge

(* The commit of a settlement is Sell, or CloseUnsold.                     *)
LEMMA CommitSettleLedger ==
    ASSUME EscrowInv, NEW s \in Session, CommitSettle(s)
    PROVE  /\ tx[s].auction \in Auction
           /\ Sell(tx[s].auction) \/ CloseUnsold(tx[s].auction)
<1>1. PICK t : t = tx[s]
  OBVIOUS
<1>2. /\ Busy(s) /\ t.todo = <<>> /\ t.op = "settle" /\ WriteWallets(s)
      /\ t \in Transaction /\ TxInv(t)
      /\ bids' = Settled(t.auction)
      /\ listing' = Closed(t.auction, IF Winner(t.auction) THEN "sold" ELSE "cancelled")
      /\ UNCHANGED <<now, recharged>>
  BY <1>1, Running DEF CommitSettle, Ended, WriteWallets
<1>3. PICK a \in Auction : a = t.auction
  BY <1>2 DEF TxInv, Checked
<1>4. Open(a) /\ now >= listing[a].endsAt
  BY <1>2, <1>3 DEF TxInv, Checked
<1>5. LedgerInv /\ LedgerTypeOK /\ balance \in [User -> Nat]
  BY DEF EscrowInv, LedgerInv, LedgerTypeOK
<1>6. PICK k : k = listing[a].top
  OBVIOUS
<1>7. /\ k \in Nat /\ TopPrice(a) \in Nat
      /\ ActiveBids(a) = IF k = 0 THEN {} ELSE {k}
      /\ k # 0 => k \in Held(a) /\ k \in DOMAIN bids
  BY <1>4, <1>5, <1>6, OpenTop
<1>8. /\ balance' \in [User -> Nat]
      /\ \A w \in User : balance'[w] = balance[w] + Effect(t, w)
  BY <1>1, <1>2, Written
<1>9. CASE Winner(a)
  <2>1. k # 0
    BY <1>6, <1>9 DEF Winner
  <2>2. PICK v \in User, x \in Nat : v = Seller[a] /\ x = TopPrice(a)
    BY <1>7, LedgerAssumption
  <2>3. \A w \in User : balance'[w] = balance[w] + Plus(v, x, w)
    BY <1>2, <1>3, <1>8, <1>9, <2>2 DEF Effect
  <2>4. balance'[v] = balance[v] + x /\ \A w \in User : w # v => balance'[w] = balance[w]
    BY <1>5, <2>3 DEF Plus
  <2>5. balance' = [balance EXCEPT ![v] = @ + x]
    BY <1>5, <1>8, <2>4
  <2>6. bids' = [i \in DOMAIN bids |->
                   IF i = k THEN [bids[i] EXCEPT !.status = "won", !.hold = "captured"]
                   ELSE bids[i]]
    BY <1>2, <1>3, <1>6, <1>7, <1>9, <2>1 DEF Settled, Top
  <2>7. bids' = [bids EXCEPT ![k] = [@ EXCEPT !.status = "won", !.hold = "captured"]]
    BY <1>5, <2>6 DEF LedgerTypeOK
  <2>8. Sell(a)
    BY <1>2, <1>3, <1>4, <1>6, <1>7, <1>9, <2>1, <2>2, <2>5, <2>7 DEF Sell
  <2> QED
    BY <1>1, <1>3, <2>8
<1>10. CASE ~Winner(a)
  <2>1. ASSUME NEW w \in User PROVE balance'[w] = balance[w] + Refund(a, w)
    BY <1>2, <1>3, <1>8, <1>10 DEF Effect
  <2>2. balance' = [w \in User |-> balance[w] + Refund(a, w)]
    BY <1>8, <2>1
  <2>3. bids' = LetGo(a, "refunded")
    <3>1. \A i \in DOMAIN bids : i \in ActiveBids(a) <=> i = k
      BY <1>5, <1>7 DEF LedgerTypeOK
    <3> QED
      BY <1>2, <1>3, <1>6, <1>10, <3>1 DEF Settled, LetGo
  <2>4. CloseUnsold(a)
    BY <1>2, <1>3, <1>4, <1>10, <2>2, <2>3 DEF CloseUnsold
  <2> QED
    BY <1>1, <1>3, <2>4
<1> QED
  BY <1>9, <1>10

-----------------------------------------------------------------------------
(* The transactions implement the promise.                                 *)

(* A commit is a promised step that leaves the other auctions alone.       *)
LEMMA CommitLedger ==
    ASSUME EscrowInv, NEW s \in Session, Commit(s)
    PROVE  LedgerNext /\ EscrowInv'
<1>1. LedgerInv
  BY DEF EscrowInv
<1>2. CASE CommitBid(s)
  <2>0. PICK a \in Auction, u \in User, t \in 0 .. now, x \in Nat :
          a = tx[s].auction /\ x \in 1 .. balance[u] /\ PlaceBid(a, u, x, t)
    BY <1>2, CommitBidLedger
  <2>1. x \in 1 .. balance[u] /\ PlaceBid(a, u, x, t) /\ a = tx[s].auction
    BY <2>0
  <2>2. LedgerNext
    BY <2>1 DEF LedgerNext
  <2>3. \A b \in Auction : b # a => Untouched(b)
    BY <1>1, <2>1, PlaceBidInv
  <2>4. LedgerInv'
    BY <1>1, <2>2, InvStep
  <2> QED
    BY <1>2, <2>1, <2>2, <2>3, <2>4, CommitKeeps DEF CommitBid, Ended
<1>3. CASE CommitPurchase(s)
  <2>1. PICK a \in Auction, u \in User : a = tx[s].auction /\ PurchaseListing(a, u)
    BY <1>3, CommitPurchaseLedger
  <2>2. LedgerNext
    BY <2>1 DEF LedgerNext
  <2>3. \A b \in Auction : b # a => Untouched(b)
    BY <1>1, <2>1, CloseAroundBidsInv DEF PurchaseListing
  <2>4. LedgerInv'
    BY <1>1, <2>2, InvStep
  <2> QED
    BY <1>3, <2>1, <2>2, <2>3, <2>4, CommitKeeps DEF CommitPurchase, Ended
<1>4. CASE CommitRecharge(s)
  <2>1. PICK u \in User : Recharge(u)
    BY <1>4, CommitRechargeLedger
  <2>2. LedgerNext
    BY <2>1 DEF LedgerNext
  <2>3. \A b \in Auction : Untouched(b)
    BY <2>1 DEF Recharge, Untouched, BidsOf
  <2>4. LedgerInv'
    BY <1>1, <2>2, InvStep
  <2> QED
    BY <1>4, <2>2, <2>3, <2>4, CommitKeeps DEF CommitRecharge, Ended
<1>5. CASE CommitSettle(s)
  <2>1. PICK a \in Auction : a = tx[s].auction /\ (Sell(a) \/ CloseUnsold(a))
    BY <1>5, CommitSettleLedger
  <2>2. LedgerNext
    BY <2>1 DEF LedgerNext
  <2>3. \A b \in Auction : b # a => Untouched(b)
    BY <1>1, <2>1, SellInv, CloseUnsoldInv
  <2>4. LedgerInv'
    BY <1>1, <2>2, InvStep
  <2> QED
    BY <1>5, <2>1, <2>2, <2>3, <2>4, CommitKeeps DEF CommitSettle, Ended
<1> QED
  BY <1>2, <1>3, <1>4, <1>5 DEF Commit

(* Every step keeps the invariant, and is a promised step or changes       *)
(* nothing that the promise speaks of.                                     *)
LEMMA EscrowStep == EscrowInv /\ [Next]_vars => EscrowInv' /\ [LedgerNext]_ledgerVars
<1> SUFFICES ASSUME EscrowInv, [Next]_vars
             PROVE  EscrowInv' /\ [LedgerNext]_ledgerVars
  OBVIOUS
<1>0. UserSession \subseteq Session /\ Loop \in Session
  BY EscrowAssumption DEF UserSession
<1>1. ASSUME NEW s \in UserSession, NEW a \in Auction, NEW u \in User,
             NEW x \in 1 .. MaxPrice, OpenBid(s, a, u, x)
      PROVE  EscrowInv' /\ [LedgerNext]_ledgerVars
  <2>1. x \in Nat
    BY EscrowAssumption
  <2>2. EscrowInv'
    BY <1>0, <1>1, <2>1, OpenBidKeeps
  <2> QED
    BY <1>1, <2>2 DEF OpenBid
<1>2. ASSUME NEW s \in UserSession, NEW a \in Auction, NEW u \in User, OpenPurchase(s, a, u)
      PROVE  EscrowInv' /\ [LedgerNext]_ledgerVars
  <2>1. EscrowInv'
    BY <1>0, <1>2, OpenPurchaseKeeps
  <2> QED
    BY <1>2, <2>1 DEF OpenPurchase
<1>3. ASSUME NEW s \in UserSession, NEW u \in User, OpenRecharge(s, u)
      PROVE  EscrowInv' /\ [LedgerNext]_ledgerVars
  <2>1. EscrowInv'
    BY <1>0, <1>3, OpenRechargeKeeps
  <2> QED
    BY <1>3, <2>1 DEF OpenRecharge
<1>4. ASSUME NEW s \in UserSession, NEW a \in Auction, SellerSettle(s, a)
      PROVE  EscrowInv' /\ [LedgerNext]_ledgerVars
  <2>1. requests' \in 0 .. MaxRequests /\ OpenSettle(s, a)
    BY <1>4, EscrowAssumption DEF SellerSettle, Request, EscrowInv
  <2>2. EscrowInv'
    BY <1>0, <2>1, OpenSettleKeeps
  <2> QED
    BY <2>1, <2>2 DEF OpenSettle
<1>5. ASSUME NEW a \in Auction, LoopSettle(a)
      PROVE  EscrowInv' /\ [LedgerNext]_ledgerVars
  <2>1. requests' \in 0 .. MaxRequests /\ OpenSettle(Loop, a)
    BY <1>5 DEF LoopSettle, EscrowInv
  <2>2. EscrowInv'
    BY <1>0, <2>1, OpenSettleKeeps
  <2> QED
    BY <2>1, <2>2 DEF OpenSettle
<1>6. ASSUME NEW a \in Auction, Cancel(a)
      PROVE  EscrowInv' /\ [LedgerNext]_ledgerVars
  <2>1. EscrowInv'
    BY <1>6, CancelKeeps
  <2> QED
    BY <1>6, <2>1 DEF Cancel, LedgerNext
<1>7. ASSUME NEW s \in Session, Post(s)
      PROVE  EscrowInv' /\ [LedgerNext]_ledgerVars
  <2>1. EscrowInv'
    BY <1>7, PostKeeps
  <2> QED
    BY <1>7, <2>1 DEF Post, Posted
<1>8. ASSUME NEW s \in Session, Rollback(s), aborts' \in 0 .. MaxAborts
      PROVE  EscrowInv' /\ [LedgerNext]_ledgerVars
  <2>1. EscrowInv'
    BY <1>8, RollbackKeeps
  <2> QED
    BY <1>8, <2>1 DEF Rollback
<1>9. aborts \in 0 .. MaxAborts
  BY DEF EscrowInv
<1>10. ASSUME NEW s \in Session, Refuse(s) \/ BreakDeadlock(s)
       PROVE  EscrowInv' /\ [LedgerNext]_ledgerVars
  BY <1>8, <1>9, <1>10 DEF Refuse, BreakDeadlock
<1>11. ASSUME NEW s \in Session, Abort(s)
       PROVE  EscrowInv' /\ [LedgerNext]_ledgerVars
  <2>1. aborts' \in 0 .. MaxAborts
    BY <1>9, <1>11, EscrowAssumption DEF Abort
  <2> QED
    BY <1>8, <1>11, <2>1 DEF Abort
<1>12. ASSUME NEW s \in Session, Commit(s)
       PROVE  EscrowInv' /\ [LedgerNext]_ledgerVars
  BY <1>12, CommitLedger
<1>13. CASE Tick
  <2>1. EscrowInv'
    BY <1>13, TickKeeps
  <2>2. Pass
    BY <1>13 DEF Tick, Pass
  <2> QED
    BY <2>1, <2>2 DEF LedgerNext
<1>14. CASE UNCHANGED vars
  <2>1. UNCHANGED ledgerVars /\ UNCHANGED <<tx, ledger, requests, aborts>>
    BY <1>14 DEF vars
  <2>2. LedgerInv /\ LedgerInv'
    BY <2>1, InvStep DEF EscrowInv
  <2>3. now' >= now /\ UNCHANGED balance
    BY <2>1, <2>2 DEF LedgerInv, LedgerTypeOK, ledgerVars
  <2>4. \A b \in Auction : Untouched(b)
    BY <2>1 DEF Untouched, BidsOf, ledgerVars
  <2>5. \A r \in Session : Busy(r) /\ tx[r].op # "recharge" => Untouched(tx[r].auction)
    BY <2>4, Running DEF TxInv, Checked
  <2>6. requests' \in 0 .. MaxRequests /\ aborts' \in 0 .. MaxAborts
    BY <2>1 DEF EscrowInv
  <2>7. EscrowInv'
    BY <2>1, <2>2, <2>3, <2>5, <2>6, Outside
  <2> QED
    BY <2>1, <2>7
<1> QED
  BY <1>1, <1>2, <1>3, <1>4, <1>5, <1>6, <1>7, <1>10, <1>11, <1>12, <1>13, <1>14 DEF Next

(* The invariant has the types.                                            *)
LEMMA EscrowImpliesType == EscrowInv => TypeOK
<1> SUFFICES ASSUME EscrowInv PROVE TypeOK
  OBVIOUS
<1>1. LedgerTypeOK /\ ledger \in [User -> Nat]
  BY DEF EscrowInv, LedgerInv, LedgerTypeOK, BooksBalance
<1>2. ASSUME NEW s \in Session PROVE TxOK(tx[s])
  <2>1. CASE tx[s] = Idle
    BY <2>1 DEF TxOK
  <2>2. CASE tx[s] # Idle
    <3>1. PICK t \in Transaction : t = tx[s]
      BY <2>2 DEF EscrowInv
    <3>2. TxInv(t)
      BY <3>1 DEF EscrowInv, Busy, Transaction
    <3>3. t.at \in 0 .. now
      BY <1>1, <3>2 DEF TxInv, Transaction, LedgerTypeOK
    <3>4. \A k \in DOMAIN t.todo : t.todo[k][1] \in User /\ t.todo[k][2] \in Int
      <4>1. t.todo \in Seq(User \X Int)
        BY DEF Transaction
      <4>2. \A k \in DOMAIN t.todo : t.todo[k] \in User \X Int
        BY <4>1
      <4> QED
        BY <4>2
    <3>5. DOMAIN t.wallet \subseteq User /\ \A u \in DOMAIN t.wallet : t.wallet[u] \in Wallet
      BY WalletsType DEF Transaction
    <3>6. /\ t.op \in {"bid", "purchase", "recharge", "settle"}
          /\ t.auction \in Auction \union {"none"} /\ t.user \in User /\ t.price \in Nat
      BY DEF Transaction
    <3> QED
      BY <3>1, <3>3, <3>4, <3>5, <3>6 DEF TxOK
  <2> QED
    BY <2>1, <2>2
<1> QED
  BY <1>1, <1>2 DEF TypeOK, EscrowInv

(* For every number of sessions, users and auctions: no interleaving of the *)
(* transactions, with the ones that are lost, deadlock or are refused,      *)
(* takes a variable out of its type, and no balance becomes negative.       *)
THEOREM EscrowTypeCorrect == Spec => []TypeOK
  BY EscrowInit, EscrowStep, EscrowImpliesType, PTL DEF Spec

(* For every number of sessions, users and auctions: the balance that a     *)
(* transaction writes from what it read is the sum of the wallet's entries  *)
(* ("Balance and ledger move together", wallet_holds.go).                   *)
THEOREM BooksCorrect == Spec => []BooksBalance
<1>1. EscrowInv => BooksBalance
  BY DEF EscrowInv
<1> QED
  BY <1>1, EscrowInit, EscrowStep, PTL DEF Spec

(* For every number of sessions, users and auctions: the transactions, each *)
(* locking row after row, implement the promise, where every request is one *)
(* step (PlaceBid, settleAuctionTx, PurchaseListing, Credit).               *)
THEOREM ImplementsLedger == Spec => LedgerSpec
<1>1. Init => LedgerInit
  BY DEF Init
<1> QED
  BY <1>1, EscrowInit, EscrowStep, PTL DEF Spec, LedgerSpec

(* For every number of sessions, users and auctions, and so in the running  *)
(* market too: the money of an open auction's top bid is in its hold, and   *)
(* a settled auction holds nobody's money.                                  *)
THEOREM EscrowHoldsCorrect == Spec => [](TopHoldsFunds /\ SettledClean)
  BY ImplementsLedger, HoldsCorrect, SettlementCorrect, PTL

-----------------------------------------------------------------------------
(* Sums over finite sets.                                                  *)

(* A family of subsets of a finite set has a smallest member.              *)
LEMMA SmallestSubset ==
    ASSUME NEW S, IsFiniteSet(S), NEW F \in SUBSET (SUBSET S), F # {}
    PROVE  \E T \in F : \A U \in F : U \subseteq T => U = T
<1>1. IsWellFoundedOn(StrictSubsetOrdering(S), SUBSET S)
  BY FS_StrictSubsetOrderingWellFounded, FS_FiniteSubsetsOfFinite
<1>2. PICK T \in F : \A U \in F : <<U, T>> \notin StrictSubsetOrdering(S)
  BY <1>1, WFMin
<1>3. ASSUME NEW U \in F, U \subseteq T PROVE U = T
  BY <1>2, <1>3 DEF StrictSubsetOrdering
<1> QED
  BY <1>3

(* A sum takes one element after the other, in the order of CHOOSE.        *)
First(T) == CHOOSE x \in T : TRUE
Summand(f, g, T) == IF T = {} THEN 0 ELSE g[T \ {First(T)}] + f[First(T)]
IsSum(f, S, g) == g = [T \in SUBSET S |-> Summand(f, g, T)]
Sums(f, S) == CHOOSE g : IsSum(f, S, g)

(* Total is the recursion of sums.                                         *)
LEMMA TotalIsSum == \A f, S : Total(f, S) = Sums(f, S)[S]
  BY DEF Total, FoldSet, MapThenFoldSet, Sums, IsSum, Summand, First

Within(R, S) == R \subseteq S
Agree(g, h, R) == \A T \in SUBSET R : g[T] = h[T]

(* Two sums agree where both are defined.                                  *)
LEMMA SumsAgree ==
    ASSUME NEW f, NEW S, IsFiniteSet(S), NEW R, Within(R, S), NEW g, NEW h,
           IsSum(f, S, g), IsSum(f, R, h)
    PROVE  Agree(g, h, R)
<1> USE DEF Within, Agree
<1> DEFINE F == {T \in SUBSET R : g[T] # h[T]}
<1>1. IsFiniteSet(R)
  BY FS_Subset
<1>2. ASSUME F # {} PROVE FALSE
  <2>1. PICK T \in F : \A U \in F : U \subseteq T => U = T
    <3>1. F \in SUBSET (SUBSET R)
      OBVIOUS
    <3> HIDE DEF F
    <3> QED
      BY <1>1, <1>2, <3>1, SmallestSubset
  <2>2. g[T] = Summand(f, g, T) /\ h[T] = Summand(f, h, T)
    BY DEF IsSum
  <2>3. T # {}
    BY <2>1, <2>2 DEF Summand
  <2>4. First(T) \in T
    BY <2>3 DEF First
  <2>5. g[T \ {First(T)}] = h[T \ {First(T)}]
    BY <2>1, <2>4
  <2> QED
    BY <2>1, <2>2, <2>5 DEF Summand
<1> QED
  BY <1>2

(* Every finite set has a sum.                                             *)
LEMMA SumsExist ==
    ASSUME NEW f, NEW S, IsFiniteSet(S)
    PROVE  IsSum(f, S, Sums(f, S))
<1> DEFINE F == {T \in SUBSET S : ~ IsSum(f, T, Sums(f, T))}
<1>1. ASSUME F # {} PROVE FALSE
  <2>1. PICK R \in F : \A U \in F : U \subseteq R => U = R
    <3>1. F \in SUBSET (SUBSET S)
      OBVIOUS
    <3> HIDE DEF F
    <3> QED
      BY <1>1, <3>1, SmallestSubset
  <2>2. \A T \in SUBSET R : T # R => IsSum(f, T, Sums(f, T))
    BY <2>1
  <2> DEFINE v == IF R = {} THEN 0
                  ELSE Sums(f, R \ {First(R)})[R \ {First(R)}] + f[First(R)]
             g == [T \in SUBSET R |-> IF T = R THEN v ELSE Sums(f, T)[T]]
  <2>3. ASSUME NEW T \in SUBSET R PROVE g[T] = Summand(f, g, T)
    <3>1. CASE T = R
      <4>1. R # {} => R \ {First(R)} # R
        BY DEF First
      <4> QED
        BY <3>1, <4>1 DEF Summand
    <3>2. CASE T # R /\ T = {}
      <4>1. IsSum(f, T, Sums(f, T))
        BY <2>2, <3>2
      <4> QED
        BY <3>2, <4>1 DEF Summand, IsSum
    <3>3. CASE T # R /\ T # {}
      <4> DEFINE U == T \ {First(T)}
      <4>1. First(T) \in T
        BY <3>3 DEF First
      <4>2. U \in SUBSET T /\ U \in SUBSET R /\ U # R
        BY <3>3, <4>1
      <4>3. IsSum(f, T, Sums(f, T)) /\ IsSum(f, U, Sums(f, U)) /\ IsFiniteSet(T)
        <5>1. IsFiniteSet(T)
          BY FS_Subset
        <5> QED
          BY <2>2, <3>3, <4>2, <5>1
      <4>4. Sums(f, T)[U] = Sums(f, U)[U]
        <5>1. Within(U, T)
          BY <4>2 DEF Within
        <5>2. Agree(Sums(f, T), Sums(f, U), U)
          BY <4>3, <5>1, SumsAgree
        <5> QED
          BY <5>2 DEF Agree
      <4>5. Sums(f, T)[T] = Summand(f, Sums(f, T), T)
        BY <4>3 DEF IsSum
      <4> HIDE DEF U, v
      <4>6. g[T] = Sums(f, T)[T] /\ g[U] = Sums(f, U)[U]
        BY <3>3, <4>2
      <4> QED
        BY <3>3, <4>4, <4>5, <4>6 DEF Summand, U
    <3> QED
      BY <3>1, <3>2, <3>3
  <2>4. IsSum(f, R, g)
    BY <2>3 DEF IsSum
  <2>5. IsSum(f, R, Sums(f, R))
    BY <2>4 DEF Sums
  <2> QED
    BY <2>1, <2>5
<1> QED
  BY <1>1

(* The sum over a set that is not empty is that over the rest, and one more. *)
LEMMA TotalFirst ==
    ASSUME NEW f, NEW S, IsFiniteSet(S)
    PROVE  /\ S = {} => Total(f, S) = 0
           /\ S # {} => /\ First(S) \in S
                        /\ Total(f, S) = Total(f, S \ {First(S)}) + f[First(S)]
<1>0. IsSum(f, S, Sums(f, S))
  BY SumsExist
<1>1. Sums(f, S)[S] = Summand(f, Sums(f, S), S)
  BY <1>0 DEF IsSum
<1>2. CASE S = {}
  BY <1>1, <1>2, TotalIsSum DEF Summand
<1>3. CASE S # {}
  <2> DEFINE R == S \ {First(S)}
  <2>1. First(S) \in S
    BY <1>3 DEF First
  <2>2. IsFiniteSet(R)
    BY FS_Subset
  <2>3. Sums(f, S)[R] = Sums(f, R)[R]
    <3>1. IsSum(f, R, Sums(f, R))
      BY <2>2, SumsExist
    <3>2. Within(R, S)
      BY DEF Within
    <3>3. Agree(Sums(f, S), Sums(f, R), R)
      BY <1>0, <3>1, <3>2, SumsAgree
    <3> QED
      BY <3>3 DEF Agree
  <2> QED
    BY <1>1, <1>3, <2>1, <2>3, TotalIsSum DEF Summand
<1> QED
  BY <1>2, <1>3

(* Sums of amounts are amounts.                                            *)
LEMMA TotalType ==
    ASSUME NEW f, NEW S, IsFiniteSet(S), \A x \in S : f[x] \in Int
    PROVE  Total(f, S) \in Int
<1> DEFINE F == {T \in SUBSET S : Total(f, T) \notin Int}
<1>1. ASSUME F # {} PROVE FALSE
  <2>1. PICK T \in F : \A U \in F : U \subseteq T => U = T
    <3>1. F \in SUBSET (SUBSET S)
      OBVIOUS
    <3> HIDE DEF F
    <3> QED
      BY <1>1, <3>1, SmallestSubset
  <2>2. IsFiniteSet(T)
    BY FS_Subset
  <2>3. T # {} /\ First(T) \in T /\ Total(f, T) = Total(f, T \ {First(T)}) + f[First(T)]
    <3>1. T = {} => Total(f, T) = 0
      BY <2>2, TotalFirst
    <3>2. T # {}
      BY <2>1, <3>1
    <3> QED
      BY <2>2, <3>2, TotalFirst
  <2>4. Total(f, T \ {First(T)}) \in Int
    BY <2>1, <2>3
  <2> QED
    BY <2>1, <2>3, <2>4
<1> QED
  BY <1>1

(* It does not matter which element is taken off.                          *)
LEMMA TotalRemove ==
    ASSUME NEW f, NEW S, IsFiniteSet(S), \A x \in S : f[x] \in Int, NEW x \in S
    PROVE  Total(f, S) = Total(f, S \ {x}) + f[x]
<1> DEFINE F == {T \in SUBSET S : \E y \in T : Total(f, T) # Total(f, T \ {y}) + f[y]}
<1>1. ASSUME F # {} PROVE FALSE
  <2>1. PICK T \in F : \A U \in F : U \subseteq T => U = T
    <3>1. F \in SUBSET (SUBSET S)
      OBVIOUS
    <3> HIDE DEF F
    <3> QED
      BY <1>1, <3>1, SmallestSubset
  <2>2. PICK y \in T : Total(f, T) # Total(f, T \ {y}) + f[y]
    BY <2>1
  <2> DEFINE p == First(T)
             A == T \ {p}
             B == T \ {y}
             C == (T \ {p}) \ {y}
  <2>3. IsFiniteSet(T) /\ IsFiniteSet(C) /\ IsFiniteSet(A) /\ IsFiniteSet(B)
    BY FS_Subset
  <2>4. p \in T /\ Total(f, T) = Total(f, A) + f[p]
    BY <2>2, <2>3, TotalFirst
  <2>5. p # y
    BY <2>2, <2>4
  <2>6. A \notin F /\ B \notin F /\ A \in SUBSET S /\ B \in SUBSET S
    BY <2>1, <2>2, <2>4
  <2>7. Total(f, A) = Total(f, C) + f[y]
    BY <2>5, <2>6
  <2>8. C = B \ {p}
    OBVIOUS
  <2>9. Total(f, B) = Total(f, C) + f[p]
    BY <2>4, <2>5, <2>6, <2>8
  <2>10. f[p] \in Int /\ f[y] \in Int /\ Total(f, C) \in Int
    BY <2>3, <2>4, TotalType
  <2> HIDE DEF p, A, B, C
  <2>11. Total(f, T) = Total(f, B) + f[y]
    BY <2>4, <2>7, <2>9, <2>10
  <2> QED
    BY <2>2, <2>11 DEF B
<1> QED
  BY <1>1

(* What is added up alone counts.                                          *)
LEMMA TotalSame ==
    ASSUME NEW f, NEW g, NEW S, IsFiniteSet(S), \A x \in S : f[x] = g[x]
    PROVE  Total(f, S) = Total(g, S)
<1> DEFINE F == {T \in SUBSET S : Total(f, T) # Total(g, T)}
<1>1. ASSUME F # {} PROVE FALSE
  <2>1. PICK T \in F : \A U \in F : U \subseteq T => U = T
    <3>1. F \in SUBSET (SUBSET S)
      OBVIOUS
    <3> HIDE DEF F
    <3> QED
      BY <1>1, <3>1, SmallestSubset
  <2>2. IsFiniteSet(T)
    BY FS_Subset
  <2>3. T # {}
    BY <2>1, <2>2, TotalFirst
  <2>4. /\ First(T) \in T
        /\ Total(f, T) = Total(f, T \ {First(T)}) + f[First(T)]
        /\ Total(g, T) = Total(g, T \ {First(T)}) + g[First(T)]
    BY <2>2, <2>3, TotalFirst
  <2>5. Total(f, T \ {First(T)}) = Total(g, T \ {First(T)})
    BY <2>1, <2>4
  <2> QED
    BY <2>1, <2>4, <2>5
<1> QED
  BY <1>1

(* A change of one summand changes the sum by as much.                     *)
LEMMA TotalChange ==
    ASSUME NEW f, NEW g, NEW S, IsFiniteSet(S), \A x \in S : f[x] \in Int /\ g[x] \in Int,
           NEW y \in S, \A x \in S \ {y} : f[x] = g[x]
    PROVE  Total(g, S) = (Total(f, S) - f[y]) + g[y]
<1>1. /\ Total(f, S) = Total(f, S \ {y}) + f[y]
      /\ Total(g, S) = Total(g, S \ {y}) + g[y]
  BY TotalRemove
<1>2. IsFiniteSet(S \ {y})
  BY FS_Subset
<1>3. Total(f, S \ {y}) = Total(g, S \ {y})
  BY <1>2, TotalSame
<1>4. Total(f, S \ {y}) \in Int
  BY <1>2, TotalType
<1> QED
  BY <1>1, <1>3, <1>4

(* One summand more.                                                       *)
LEMMA TotalAdd ==
    ASSUME NEW f, NEW S, IsFiniteSet(S), \A x \in S : f[x] \in Int,
           NEW y, y \notin S, f[y] \in Int
    PROVE  Total(f, S \union {y}) = Total(f, S) + f[y]
<1> DEFINE R == S \union {y}
<1>1. IsFiniteSet(R) /\ R \ {y} = S /\ y \in R /\ \A x \in R : f[x] \in Int
  <2>1. IsFiniteSet(R)
    BY FS_AddElement
  <2> QED
    BY <2>1
<1> HIDE DEF R
<1>2. Total(f, R) = Total(f, R \ {y}) + f[y]
  BY <1>1, TotalRemove
<1> QED
  BY <1>1, <1>2 DEF R

-----------------------------------------------------------------------------
(* Money.                                                                  *)

(* An amount paid to one wallet is an amount more in all.                  *)
LEMMA TotalPaid ==
    ASSUME NEW f, NEW g, NEW S, IsFiniteSet(S), f \in [S -> Int], g \in [S -> Int],
           NEW y \in S, NEW d \in Int, \A w \in S : g[w] = f[w] + Plus(y, d, w)
    PROVE  Total(g, S) = Total(f, S) + d
<1>1. g[y] = f[y] + d /\ \A w \in S \ {y} : f[w] = g[w]
  BY DEF Plus
<1>2. \A w \in S : f[w] \in Int /\ g[w] \in Int
  OBVIOUS
<1>3. Total(g, S) = (Total(f, S) - f[y]) + g[y]
  BY <1>1, <1>2, TotalChange
<1>4. Total(f, S) \in Int
  BY <1>2, TotalType
<1> QED
  BY <1>1, <1>2, <1>3, <1>4

\* From f to g, y was paid d and z was paid e.
PaidBoth(f, g, S, y, d, z, e) ==
    \A w \in S : g[w] = f[w] + (Plus(y, d, w) + Plus(z, e, w))

(* And so are two, to two wallets or to one.                               *)
LEMMA TotalPaidTwice ==
    ASSUME NEW f, NEW g, NEW S, IsFiniteSet(S), f \in [S -> Int], g \in [S -> Int],
           NEW y \in S, NEW d \in Int, NEW z \in S, NEW e \in Int,
           PaidBoth(f, g, S, y, d, z, e)
    PROVE  Total(g, S) = Total(f, S) + (d + e)
<1>1. PICK h : h = [w \in S |-> f[w] + Plus(y, d, w)]
  OBVIOUS
<1>2. \A w \in S : Plus(y, d, w) \in Int /\ Plus(z, e, w) \in Int /\ f[w] \in Int
  BY DEF Plus
<1>3. h \in [S -> Int] /\ \A w \in S : h[w] = f[w] + Plus(y, d, w)
  BY <1>1, <1>2
<1>4. \A w \in S : g[w] = h[w] + Plus(z, e, w)
  BY <1>2, <1>3 DEF PaidBoth
<1>5. Total(h, S) = Total(f, S) + d
  BY <1>3, TotalPaid
<1>6. Total(g, S) = Total(h, S) + e
  BY <1>3, <1>4, TotalPaid
<1>7. Total(f, S) \in Int
  BY <1>2, TotalType
<1> QED
  BY <1>5, <1>6, <1>7

(* The bids with money in a hold, and the price of each.                   *)
Funding == {i \in DOMAIN bids : bids[i].hold = "active"}
Price == [i \in DOMAIN bids |-> bids[i].price]

(* There are finitely many, and each holds an amount.                      *)
LEMMA FundingType ==
    ASSUME LedgerTypeOK
    PROVE  /\ IsFiniteSet(Funding)
           /\ \A i \in Funding : Price[i] \in Int
           /\ Total(Price, Funding) \in Int
<1>1. bids \in Seq(Bid) /\ DOMAIN bids = 1 .. Len(bids) /\ Len(bids) \in Nat
  BY DEF LedgerTypeOK
<1>2. IsFiniteSet(1 .. Len(bids)) /\ Funding \subseteq 1 .. Len(bids)
  BY <1>1, FS_Interval DEF Funding
<1>3. IsFiniteSet(Funding)
  BY <1>2, FS_Subset
<1>4. \A i \in DOMAIN bids : bids[i] \in Bid
  BY <1>1
<1>5. \A i \in Funding : Price[i] \in Int
  BY <1>4 DEF Funding, Price, Bid
<1> QED
  BY <1>3, <1>5, TotalType

(* An auction's top bid that loses its hold is so much less in holds.      *)
LEMMA HoldGiven ==
    ASSUME LedgerInv, NEW k \in Funding, DOMAIN bids' = DOMAIN bids,
           \A i \in DOMAIN bids : /\ bids'[i].price = bids[i].price
                                  /\ i # k => bids'[i].hold = bids[i].hold,
           bids'[k].hold # "active"
    PROVE  Total(Price, Funding)' = Total(Price, Funding) - bids[k].price
<1>1. /\ IsFiniteSet(Funding) /\ \A i \in Funding : Price[i] \in Int
      /\ Total(Price, Funding) \in Int
  BY FundingType DEF LedgerInv
<1>2. PICK p, q, H, G : p = Price /\ q = Price' /\ H = Funding /\ G = Funding'
  OBVIOUS
<1>3. G = H \ {k} /\ k \in H /\ p[k] = bids[k].price
  BY <1>2 DEF Funding, Price
<1>4. \A i \in G : p[i] = q[i]
  BY <1>2 DEF Funding, Price
<1>5. IsFiniteSet(H) /\ IsFiniteSet(G) /\ \A i \in H : p[i] \in Int
  BY <1>1, <1>2, <1>3, FS_Subset
<1>6. Total(p, H) = Total(p, G) + p[k]
  BY <1>3, <1>5, TotalRemove
<1>7. Total(p, G) = Total(q, G) /\ Total(p, G) \in Int
  BY <1>3, <1>4, <1>5, TotalSame, TotalType
<1>8. Total(q, G) = Total(p, H) - p[k]
  BY <1>3, <1>5, <1>6, <1>7
<1> QED
  BY <1>2, <1>3, <1>8

(* A bid that is added is its price more in holds.                         *)
LEMMA HoldTaken ==
    ASSUME LedgerInv, NEW n, NEW x \in Int, n \notin DOMAIN bids,
           NEW R \in SUBSET Funding,
           DOMAIN bids' = DOMAIN bids \union {n},
           \A i \in DOMAIN bids : /\ bids'[i].price = bids[i].price
                                  /\ bids'[i].hold = "active" <=> i \in R,
           bids'[n].hold = "active", bids'[n].price = x
    PROVE  Total(Price, Funding)' = Total(Price, R) + x
<1>1. /\ IsFiniteSet(Funding) /\ \A i \in Funding : Price[i] \in Int
  BY FundingType DEF LedgerInv
<1>2. PICK p, q, G : p = Price /\ q = Price' /\ G = Funding'
  OBVIOUS
<1>3. G = R \union {n} /\ n \notin R /\ q[n] = x
  BY <1>2 DEF Funding, Price
<1>4. \A i \in R : p[i] = q[i] /\ p[i] \in Int
  BY <1>1, <1>2 DEF Funding, Price
<1>5. IsFiniteSet(R)
  BY <1>1, FS_Subset
<1>6. Total(q, G) = Total(q, R) + q[n]
  BY <1>3, <1>4, <1>5, TotalAdd
<1>7. Total(p, R) = Total(q, R)
  BY <1>4, <1>5, TotalSame
<1> QED
  BY <1>2, <1>3, <1>6, <1>7

(* The money of the market: in wallets and in holds.                       *)
Money == Total(balance, User) + Total(Price, Funding)

\* Money is conserved when it is all there: the starting funds and what came in.
LEMMA ConservedIsMoney == MoneyConserved <=> Money = Total(Funds, User) + recharged
  BY DEF MoneyConserved, Money, Price, Funding

\* A sum over the wallets is an amount.
LEMMA WalletsTotal ==
    ASSUME IsFiniteSet(User), LedgerTypeOK
    PROVE  Total(balance, User) \in Int /\ Total(Funds, User) \in Int
<1>1. \A w \in User : balance[w] \in Int /\ Funds[w] \in Int
  BY LedgerAssumption DEF LedgerTypeOK
<1> QED
  BY <1>1, TotalType

(* Nothing happens to the holds when the bids stay.                        *)
LEMMA HoldsStay ==
    ASSUME UNCHANGED bids
    PROVE  Total(Price, Funding)' = Total(Price, Funding)
<1>1. Price' = Price /\ Funding' = Funding
  BY DEF Price, Funding
<1> QED
  BY <1>1

(* What comes back is the price of the top bid, if that has a hold: the    *)
(* holds without it, and what they lack.                                   *)
LEMMA RefundIsPlus ==
    ASSUME LedgerInv, NEW a \in Auction, listing[a].top \in Funding
    PROVE  /\ bids[listing[a].top] \in Bid
           /\ \A w : Refund(a, w) = Plus(bids[listing[a].top].bidder,
                                         bids[listing[a].top].price, w)
<1>1. listing[a].top \in DOMAIN bids /\ listing[a].top # 0
  BY DEF Funding, LedgerInv, LedgerTypeOK
<1>2. bids[listing[a].top] \in Bid
  BY <1>1 DEF LedgerInv, LedgerTypeOK
<1>3. bids[listing[a].top].auction = a
  BY <1>1 DEF LedgerInv, AuctionInv, BidsOf
<1>4. listing[a].top \in Held(a)
  BY <1>1, <1>3 DEF Held, Funding
<1> QED
  BY <1>1, <1>2, <1>4 DEF Refund, TopPrice, Plus

\* A top bid without a hold gives nothing back.
LEMMA NoRefund ==
    ASSUME LedgerInv, NEW a \in Auction, listing[a].top \notin Funding
    PROVE  \A w : Refund(a, w) = 0
  BY DEF Refund, Held, Funding

(* A bid moves its price from the bidder's wallet into a hold, and the     *)
(* price of the bid it beats out of one.                                   *)
LEMMA PlaceBidMoney ==
    ASSUME LedgerInv, IsFiniteSet(User),
           NEW a \in Auction, NEW u \in User, NEW t \in 0 .. now,
           NEW x \in 1 .. balance[u], PlaceBid(a, u, x, t)
    PROVE  Money' = Money
<1> DEFINE n == Len(bids) + 1
           top == listing[a].top
           R == Funding \ {top}
<1>0. LedgerTypeOK /\ LedgerTypeOK' /\ balance \in [User -> Nat] /\ balance' \in [User -> Nat]
  <2>1. LedgerTypeOK /\ [LedgerNext]_ledgerVars
    BY DEF LedgerInv, LedgerNext
  <2>2. LedgerTypeOK'
    BY <2>1, TypeStep
  <2> QED
    BY <2>1, <2>2 DEF LedgerTypeOK
<1>1. bids \in Seq(Bid) /\ Len(bids) \in Nat /\ DOMAIN bids = 1 .. Len(bids) /\ x \in Int
  BY <1>0 DEF LedgerTypeOK
<1>2. /\ LetGo(a, "outbid") \in Seq(Bid) /\ Len(LetGo(a, "outbid")) = Len(bids)
      /\ \A i \in DOMAIN bids :
           /\ LetGo(a, "outbid")[i].price = bids[i].price
           /\ LetGo(a, "outbid")[i].hold = IF i = top /\ bids[i].hold = "active"
                                           THEN "released" ELSE bids[i].hold
  BY <1>0, LetGoFacts
<1>3. bids' = Append(LetGo(a, "outbid"), NewBid(a, u, x))
  BY DEF PlaceBid
<1>4. /\ DOMAIN bids' = DOMAIN bids \union {n} /\ n \notin DOMAIN bids
      /\ \A i \in DOMAIN bids : bids'[i] = LetGo(a, "outbid")[i]
      /\ bids'[n] = NewBid(a, u, x)
  BY <1>1, <1>2, <1>3
<1>5. /\ \A i \in DOMAIN bids : /\ bids'[i].price = bids[i].price
                                /\ bids'[i].hold = "active" <=> i \in R
      /\ bids'[n].hold = "active" /\ bids'[n].price = x
  BY <1>2, <1>4 DEF NewBid, Funding
<1>6. R \in SUBSET Funding
  OBVIOUS
<1>7. Total(Price, Funding)' = Total(Price, R) + x
  <2> HIDE DEF n, R
  <2> QED
    BY <1>1, <1>4, <1>5, <1>6, HoldTaken
<1>8. \A w \in User : balance'[w] = balance[w] + Refund(a, w) - Plus(u, x, w)
  BY DEF PlaceBid, Plus
<1>9. Total(balance, User) \in Int /\ Total(Price, Funding) \in Int
  BY <1>0, WalletsTotal, FundingType
<1>10. \A w : Plus(u, x, w) \in Int /\ Plus(u, -x, w) = 0 - Plus(u, x, w) /\ -x \in Int
  BY <1>1 DEF Plus
<1>11. balance \in [User -> Int] /\ balance' \in [User -> Int]
  BY <1>0
<1>12. CASE top \in Funding
  <2>1. PICK b \in User, y \in Int : b = bids[top].bidder /\ y = bids[top].price
    BY <1>12, RefundIsPlus DEF Bid
  <2>2. \A w \in User : Refund(a, w) = Plus(b, y, w) /\ Plus(b, y, w) \in Int
    BY <1>12, <2>1, RefundIsPlus DEF Plus
  <2>3. \A w \in User : balance'[w] = balance[w] + (Plus(b, y, w) + Plus(u, -x, w))
    BY <1>8, <1>10, <1>11, <2>2
  <2>4. Total(balance, User)' = Total(balance, User) + (y + (-x))
    <3>1. PICK f, g, m : f = balance /\ g = balance' /\ m = -x
      OBVIOUS
    <3>2. /\ f \in [User -> Int] /\ g \in [User -> Int] /\ m \in Int
          /\ PaidBoth(f, g, User, b, y, u, m)
      BY <1>10, <1>11, <2>3, <3>1 DEF PaidBoth
    <3>3. Total(g, User) = Total(f, User) + (y + m)
      BY <3>2, TotalPaidTwice
    <3> QED
      BY <3>1, <3>3
  <2>5. Total(Price, Funding) = Total(Price, R) + y
    <3>1. Total(Price, Funding) = Total(Price, Funding \ {top}) + Price[top]
      BY <1>0, <1>12, FundingType, TotalRemove
    <3>2. Price[top] = y
      BY <1>12, <2>1 DEF Price, Funding
    <3> QED
      BY <3>1, <3>2
  <2>6. Total(Price, R) \in Int
    <3>1. IsFiniteSet(R) /\ \A i \in R : Price[i] \in Int
      BY <1>0, <1>6, FundingType, FS_Subset
    <3> HIDE DEF R
    <3> QED
      BY <3>1, TotalType
  <2>7. PICK A, B, H, I, K : /\ A = Total(balance, User) /\ B = Total(balance, User)'
                             /\ H = Total(Price, Funding) /\ I = Total(Price, Funding)'
                             /\ K = Total(Price, R)
    OBVIOUS
  <2> HIDE DEF R
  <2>8. /\ A \in Int /\ K \in Int /\ x \in Int /\ y \in Int
        /\ B = A + (y + (-x)) /\ H = K + y /\ I = K + x
    BY <1>1, <1>7, <1>9, <2>1, <2>4, <2>5, <2>6, <2>7
  <2>9. B + I = A + H
    BY <2>8
  <2> QED
    BY <2>7, <2>9 DEF Money
<1>13. CASE top \notin Funding
  <2>1. R = Funding
    BY <1>13
  <2>2. \A w \in User : balance'[w] = balance[w] + Plus(u, -x, w)
    BY <1>8, <1>10, <1>11, <1>13, NoRefund
  <2>3. Total(balance, User)' = Total(balance, User) + (-x)
    <3>1. PICK f, g, m : f = balance /\ g = balance' /\ m = -x
      OBVIOUS
    <3>2. /\ f \in [User -> Int] /\ g \in [User -> Int] /\ m \in Int
          /\ \A w \in User : g[w] = f[w] + Plus(u, m, w)
      BY <1>10, <1>11, <2>2, <3>1
    <3>3. Total(g, User) = Total(f, User) + m
      BY <3>2, TotalPaid
    <3> QED
      BY <3>1, <3>3
  <2> HIDE DEF R
  <2> QED
    BY <1>1, <1>7, <1>9, <2>1, <2>3 DEF Money
<1> QED
  BY <1>12, <1>13

(* A wallet that is paid holds so much more, and the wallets together too. *)
LEMMA WalletPaid ==
    ASSUME IsFiniteSet(User), LedgerTypeOK, LedgerTypeOK', NEW y \in User, NEW d \in Int,
           \A w \in User : balance'[w] = balance[w] + Plus(y, d, w)
    PROVE  /\ Total(balance, User)' = Total(balance, User) + d
           /\ Total(balance, User) \in Int
<1>1. PICK f, g : f = balance /\ g = balance'
  OBVIOUS
<1>2. f \in [User -> Int] /\ g \in [User -> Int] /\ \A w \in User : g[w] = f[w] + Plus(y, d, w)
  BY <1>1 DEF LedgerTypeOK
<1>3. Total(g, User) = Total(f, User) + d
  BY <1>2, TotalPaid
<1>4. Total(f, User) \in Int
  BY <1>2, TotalType
<1> QED
  BY <1>1, <1>3, <1>4

(* What one side gains the other loses.                                    *)
LEMMA MoneyMoves ==
    ASSUME NEW y \in Int, Total(balance, User) \in Int, Total(Price, Funding) \in Int,
           Total(balance, User)' = Total(balance, User) + y,
           Total(Price, Funding)' = Total(Price, Funding) - y
    PROVE  Money' = Money
<1>1. PICK A, B, H, I : /\ A = Total(balance, User) /\ B = Total(balance, User)'
                        /\ H = Total(Price, Funding) /\ I = Total(Price, Funding)'
  OBVIOUS
<1>2. A \in Int /\ H \in Int /\ B = A + y /\ I = H - y
  BY <1>1
<1>3. B + I = A + H
  BY <1>2
<1> QED
  BY <1>1, <1>3 DEF Money

(* A sale turns the hold of the top bid into a payment to the seller.      *)
LEMMA SellMoney ==
    ASSUME LedgerInv, LedgerTypeOK', IsFiniteSet(User), NEW a \in Auction, Sell(a)
    PROVE  Money' = Money
<1> DEFINE top == listing[a].top
<1>0. LedgerTypeOK /\ bids \in Seq(Bid) /\ DOMAIN bids = 1 .. Len(bids)
  BY DEF LedgerInv, LedgerTypeOK
<1>1. top \in Funding /\ top # 0 /\ top \in DOMAIN bids
  BY <1>0 DEF Sell, Held, Funding, Winner
<1>2. bids[top] \in Bid
  BY <1>0, <1>1
<1>3. /\ DOMAIN bids' = DOMAIN bids
      /\ \A i \in DOMAIN bids : i # top => bids'[i] = bids[i]
      /\ bids'[top] = [bids[top] EXCEPT !.status = "won", !.hold = "captured"]
  BY <1>0, <1>1 DEF Sell
<1>4. /\ \A i \in DOMAIN bids : /\ bids'[i].price = bids[i].price
                                /\ i # top => bids'[i].hold = bids[i].hold
      /\ bids'[top].hold # "active"
  BY <1>2, <1>3 DEF Bid
<1>5. PICK y \in Int : y = bids[top].price
  BY <1>2 DEF Bid
<1>6. Total(Price, Funding)' = Total(Price, Funding) - y /\ Total(Price, Funding) \in Int
  BY <1>0, <1>1, <1>3, <1>4, <1>5, HoldGiven, FundingType
<1>7. Seller[a] \in User /\ TopPrice(a) = y
  BY <1>1, <1>5, LedgerAssumption DEF TopPrice
<1>8. \A w \in User : balance'[w] = balance[w] + Plus(Seller[a], y, w)
  BY <1>0, <1>7 DEF Sell, Plus, LedgerTypeOK
<1>9. Total(balance, User)' = Total(balance, User) + y /\ Total(balance, User) \in Int
  BY <1>0, <1>7, <1>8, WalletPaid
<1> QED
  BY <1>6, <1>9, MoneyMoves

(* An auction that ends unsold gives the hold of its top bid back.         *)
LEMMA CloseUnsoldMoney ==
    ASSUME LedgerInv, LedgerTypeOK', IsFiniteSet(User), NEW a \in Auction, CloseUnsold(a)
    PROVE  Money' = Money
<1> DEFINE top == listing[a].top
<1>0. LedgerTypeOK /\ Total(Price, Funding) \in Int /\ Total(balance, User) \in Int
  BY FundingType, WalletsTotal DEF LedgerInv
<1>1. /\ DOMAIN bids' = DOMAIN bids
      /\ \A i \in DOMAIN bids :
           /\ bids'[i].price = bids[i].price
           /\ bids'[i].hold = IF i = top /\ bids[i].hold = "active"
                              THEN "released" ELSE bids[i].hold
  BY <1>0, LetGoFacts DEF CloseUnsold
<1>2. \A w \in User : balance'[w] = balance[w] + Refund(a, w)
  BY DEF CloseUnsold
<1>3. CASE top \in Funding
  <2>1. PICK b \in User, y \in Int : b = bids[top].bidder /\ y = bids[top].price
    BY <1>3, RefundIsPlus DEF Bid
  <2>2. \A w \in User : balance'[w] = balance[w] + Plus(b, y, w)
    BY <1>2, <1>3, <2>1, RefundIsPlus
  <2>3. Total(balance, User)' = Total(balance, User) + y
    BY <1>0, <2>2, WalletPaid
  <2>4. bids'[top].hold # "active" /\ \A i \in DOMAIN bids : i # top => bids'[i].hold = bids[i].hold
    BY <1>1, <1>3 DEF Funding
  <2>5. Total(Price, Funding)' = Total(Price, Funding) - y
    BY <1>1, <1>3, <2>1, <2>4, HoldGiven
  <2> QED
    BY <1>0, <2>3, <2>5, MoneyMoves
<1>4. CASE top \notin Funding
  <2>1. Funding' = Funding /\ Price' = Price
    BY <1>1, <1>4 DEF Funding, Price
  <2>2. balance' = balance
    BY <1>0, <1>2, <1>4, NoRefund DEF CloseUnsold, LedgerTypeOK
  <2> QED
    BY <2>1, <2>2 DEF Money
<1> QED
  BY <1>3, <1>4

(* A purchase moves the price from the buyer's wallet to the seller's.     *)
LEMMA PurchaseMoney ==
    ASSUME LedgerInv, LedgerTypeOK', IsFiniteSet(User),
           NEW a \in Auction, NEW u \in User, PurchaseListing(a, u)
    PROVE  Money' = Money
<1>0. LedgerTypeOK /\ Total(balance, User) \in Int
  BY WalletsTotal DEF LedgerInv
<1>1. PICK f, g, s, x, m : /\ f = balance /\ g = balance' /\ s = Seller[a]
                           /\ x = Ask[a] /\ m = -Ask[a]
  OBVIOUS
<1>2. s \in User /\ x \in Int /\ m \in Int /\ m = -x
  BY <1>1, LedgerAssumption
<1>3. f \in [User -> Int] /\ g \in [User -> Int]
  BY <1>0, <1>1 DEF LedgerTypeOK
<1>4. g = [f EXCEPT ![u] = @ - x, ![s] = @ + x] /\ s # u
  BY <1>1 DEF PurchaseListing
<1>5. PaidBoth(f, g, User, u, m, s, x)
  BY <1>2, <1>3, <1>4 DEF PaidBoth, Plus
<1>6. Total(g, User) = Total(f, User) + (m + x)
  BY <1>2, <1>3, <1>5, TotalPaidTwice
<1>7. Total(g, User) = Total(f, User)
  <2>1. Total(f, User) \in Int
    BY <1>0, <1>1
  <2> QED
    BY <1>2, <1>6, <2>1
<1>8. Total(Price, Funding)' = Total(Price, Funding)
  BY HoldsStay DEF PurchaseListing
<1> QED
  BY <1>1, <1>7, <1>8 DEF Money

(* Every request leaves the money as it is, but for what is paid in.       *)
LEMMA MoneyStep ==
    ASSUME LedgerInv, IsFiniteSet(User), [LedgerNext]_ledgerVars
    PROVE  Money \in Int /\ Money' = Money + (recharged' - recharged)
<1>0. LedgerTypeOK /\ LedgerTypeOK'
  BY TypeStep DEF LedgerInv
<1>1. Money \in Int /\ recharged \in Int /\ Total(balance, User) \in Int /\ Total(Price, Funding) \in Int
  BY <1>0, FundingType, WalletsTotal DEF Money, LedgerTypeOK
<1>2. ASSUME Money' = Money, recharged' = recharged
      PROVE  Money' = Money + (recharged' - recharged)
  <2>1. PICK m, r : m = Money /\ r = recharged
    OBVIOUS
  <2>2. m = m + (r - r)
    BY <1>1, <2>1
  <2> QED
    BY <1>2, <2>1, <2>2
<1>3. ASSUME NEW a \in Auction, NEW u \in User, NEW t \in 0 .. now, NEW x \in 1 .. balance[u],
             PlaceBid(a, u, x, t)
      PROVE  Money' = Money /\ recharged' = recharged
  BY <1>3, PlaceBidMoney DEF PlaceBid
<1>4. ASSUME NEW a \in Auction, Sell(a)
      PROVE  Money' = Money /\ recharged' = recharged
  BY <1>0, <1>4, SellMoney DEF Sell
<1>5. ASSUME NEW a \in Auction, CloseUnsold(a)
      PROVE  Money' = Money /\ recharged' = recharged
  BY <1>0, <1>5, CloseUnsoldMoney DEF CloseUnsold
<1>6. ASSUME UNCHANGED <<balance, bids, recharged>>
      PROVE  Money' = Money /\ recharged' = recharged
  BY <1>6, HoldsStay DEF Money
<1>7. ASSUME NEW a \in Auction, NEW u \in User, PurchaseListing(a, u)
      PROVE  Money' = Money /\ recharged' = recharged
  BY <1>0, <1>7, PurchaseMoney DEF PurchaseListing
<1>8. ASSUME NEW u \in User, Recharge(u)
      PROVE  Money' = Money + (recharged' - recharged)
  <2>1. \A w \in User : balance'[w] = balance[w] + Plus(u, 1, w)
    BY <1>0, <1>8 DEF Recharge, Plus, LedgerTypeOK
  <2>2. Total(balance, User)' = Total(balance, User) + 1
    BY <1>0, <2>1, WalletPaid
  <2>3. Total(Price, Funding)' = Total(Price, Funding) /\ recharged' = recharged + 1
    BY <1>8, HoldsStay DEF Recharge
  <2>4. PICK A, B, H, r, s : /\ A = Total(balance, User) /\ B = Total(balance, User)'
                             /\ H = Total(Price, Funding) /\ r = recharged /\ s = recharged'
    OBVIOUS
  <2>5. A \in Int /\ H \in Int /\ r \in Int /\ B = A + 1 /\ s = r + 1
    BY <1>1, <2>2, <2>3, <2>4
  <2>6. B + H = (A + H) + (s - r)
    BY <2>5
  <2> QED
    BY <2>3, <2>4, <2>6 DEF Money
<1>9. ASSUME NEW a \in Auction, CancelListing(a)
      PROVE  Money' = Money /\ recharged' = recharged
  BY <1>6, <1>9 DEF CancelListing
<1>10. ASSUME Pass \/ UNCHANGED ledgerVars
       PROVE  Money' = Money /\ recharged' = recharged
  BY <1>6, <1>10 DEF Pass, ledgerVars
<1> QED
  BY <1>1, <1>2, <1>3, <1>4, <1>5, <1>7, <1>8, <1>9, <1>10 DEF LedgerNext

\* The money is there at the start, and stays.
LEMMA ConservedInit ==
    ASSUME LedgerInit, IsFiniteSet(User)
    PROVE  MoneyConserved
<1>1. Funding = {} /\ balance = Funds /\ recharged = 0 /\ IsFiniteSet({})
  BY FS_EmptySet DEF LedgerInit, Funding
<1>2. Total(Price, Funding) = 0
  BY <1>1, TotalFirst
<1>3. Total(Funds, User) \in Int
  BY TypeInit, WalletsTotal
<1>4. PICK A : A = Total(Funds, User)
  OBVIOUS
<1>5. A + 0 = A + 0
  OBVIOUS
<1>6. Money = Total(Funds, User) + recharged
  BY <1>1, <1>2, <1>3 DEF Money
<1> QED
  BY <1>6, ConservedIsMoney

\* Every request keeps the money together.
LEMMA ConservedStep ==
    ASSUME LedgerInv, MoneyConserved, IsFiniteSet(User), [LedgerNext]_ledgerVars
    PROVE  MoneyConserved'
<1>1. /\ Money \in Int /\ Money' = Money + (recharged' - recharged)
      /\ recharged \in Int /\ recharged' \in Int /\ Total(Funds, User) \in Int
  <2>1. LedgerTypeOK /\ LedgerTypeOK'
    BY TypeStep DEF LedgerInv
  <2> QED
    BY <2>1, MoneyStep, WalletsTotal DEF LedgerTypeOK
<1>2. PICK m, k, r, s, F : /\ m = Money /\ k = Money' /\ r = recharged /\ s = recharged'
                           /\ F = Total(Funds, User)
  OBVIOUS
<1>3. m = F + r
  BY <1>2, ConservedIsMoney
<1>4. k = F + s
  BY <1>1, <1>2, <1>3
<1>5. (Money = Total(Funds, User) + recharged)'
  BY <1>2, <1>4
<1> QED
  BY <1>5 DEF MoneyConserved, Money, Price, Funding

(* For every finite set of users and every number of sessions and auctions: *)
(* money is in a wallet or in a hold and nowhere else; no interleaving of   *)
(* the transactions, of those that die and of those that deadlock creates   *)
(* or loses any (HoldFundsWithTx, ReleaseHoldWithTx, CaptureHoldWithTx,     *)
(* TransferWithTx).                                                         *)
THEOREM MoneyCorrect ==
    ASSUME IsFiniteSet(User)
    PROVE  Spec => []MoneyConserved
<1>1. LedgerInit => MoneyConserved
  BY ConservedInit
<1>2. LedgerInv /\ MoneyConserved /\ [LedgerNext]_ledgerVars => MoneyConserved'
  BY ConservedStep
<1>3. LedgerSpec => []MoneyConserved
  BY <1>1, <1>2, InvInit, InvStep, PTL DEF LedgerSpec
<1> QED
  BY <1>3, ImplementsLedger, PTL
==============================================================================
