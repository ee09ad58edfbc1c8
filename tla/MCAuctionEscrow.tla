----------------------------- MODULE MCAuctionEscrow -----------------------------
(* Two auctions, each put up by a user who may bid in the other, so that    *)
(* the wallets are needed in both orders.                                   *)
EXTENDS AuctionEscrow, TLC

CONSTANTS A, B

MCUser == {1, 2, 3}
MCSeller == A :> 1 @@ B :> 2
MCAsk == A :> 1 @@ B :> 1
MCReserve == A :> 2 @@ B :> 0
MCFunds == 1 :> 1 @@ 2 :> 2 @@ 3 :> 2
==============================================================================
