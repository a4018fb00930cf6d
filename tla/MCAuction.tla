----------------------------- MODULE MCAuction ------------------------------
(* Model values for Auction.                                                 *)
EXTENDS Auction

Everyone == {Users}
=============================================================================
