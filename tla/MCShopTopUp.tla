---------------------------- MODULE MCShopTopUp ----------------------------
(***************************************************************************)
(* Instances of ShopTopUp.  One buyer owns both requests when one call     *)
(* runs at a time, so that a code meets him twice; where approvals race    *)
(* two buyers share the uses of the code.                                  *)
(***************************************************************************)
EXTENDS ShopTopUp

\* One amount below the minimum, one in range whose bonus is capped, one above.
MCAmounts == {-1, 10, 90}
MCInRange == {10}
=============================================================================
