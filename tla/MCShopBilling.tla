--------------------------- MODULE MCShopBilling ---------------------------
(***************************************************************************)
(* Instances of ShopBilling: two units to the gigabyte at a price of 3, so *)
(* that a part-gigabyte is rounded, and a wallet that one top-up fills for *)
(* less than the traffic a client may move, so that it empties.  One buyer *)
(* owns every config: configs of different buyers share nothing.           *)
(***************************************************************************)
EXTENDS ShopBilling

MCOwner == [c \in Configs |-> CHOOSE u \in Users : TRUE]
=============================================================================
