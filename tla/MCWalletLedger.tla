--------------------------- MODULE MCWalletLedger ---------------------------
(***************************************************************************)
(* Instances of WalletLedger: one wallet, two goroutines.  Wallets never   *)
(* share a row, so a second one adds no interaction.                       *)
(***************************************************************************)
EXTENDS WalletLedger

\* One charge and one credit, of different sizes so that no two orders agree.
MCAmounts == {-3, 2}
=============================================================================
