---------------------------- MODULE AtomicWallet ----------------------------
(***************************************************************************)
(* What `credit` promises its callers: money moves and is explained in one *)
(* indivisible step.  The top-up and billing modules of the shop rely on   *)
(* it, and WalletLedger implements it where transactions are immediate.    *)
(***************************************************************************)
EXTENDS Wallet, Sequences

CONSTANTS Users, Amounts

VARIABLES wallet, ledger

vars == <<wallet, ledger>>

Init ==
  /\ wallet = [u \in Users |-> EmptyWallet]
  /\ ledger = [u \in Users |-> <<>>]

\* The lifetime totals count the money a user paid in and what it was spent on:
\* a bonus or a correction is in the balance only.
Credit(u, amount, kind) ==
  /\ wallet' = [wallet EXCEPT ![u] =
       [balance |-> @.balance + amount,
        paid |-> IF kind = "topup" /\ amount > 0 THEN @.paid + amount ELSE @.paid,
        spent |-> IF amount < 0 THEN @.spent - amount ELSE @.spent]]
  /\ ledger' = [ledger EXCEPT ![u] = Append(@, LedgerLine(wallet[u], amount, kind))]

Next ==
  \E u \in Users, a \in Amounts \ {0} : \E k \in KindsOf(a) : Credit(u, a, k)

Spec == Init /\ [][Next]_vars
=============================================================================
