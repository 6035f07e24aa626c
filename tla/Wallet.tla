------------------------------- MODULE Wallet -------------------------------
(***************************************************************************)
(* The wallet row of one Telegram shop user (model.BotUser) and the ledger *)
(* line (model.WalletTransaction) that ShopService.credit writes with it.  *)
(* Every module of the shop moves money through these two operators.       *)
(***************************************************************************)
EXTENDS Integers

\* The ledger kinds the code writes; "refund" is declared but never written.
Kinds == {"topup", "usage", "rent", "adjust", "bonus"}

\* What the callers of `credit` move: top-ups, bonuses and corrections in,
\* metered usage, rent and corrections out.
KindsOf(amount) ==
  IF amount > 0 THEN {"topup", "bonus", "adjust"} ELSE {"usage", "rent", "adjust"}

\* The row `User` or `credit` creates on first contact.
EmptyWallet == [balance |-> 0, paid |-> 0, spent |-> 0]

\* Mutant: every credit counts as a payment.
CreditedBonusAsPaid(w, amount, kind) ==
  [ balance |-> w.balance + amount,
    paid    |-> w.paid + (IF amount > 0 THEN amount ELSE 0),
    spent   |-> w.spent + (IF amount < 0 THEN -amount ELSE 0) ]

\* The columns `credit` writes, computed from the row it has read.
Credited(w, amount, kind) ==
  [ balance |-> w.balance + amount,
    paid    |-> w.paid + (IF amount > 0 /\ kind = "topup" THEN amount ELSE 0),
    spent   |-> w.spent + (IF amount < 0 THEN -amount ELSE 0) ]

\* The ledger line of that movement: it carries the balance after the entry.
LedgerLine(w, amount, kind) ==
  [amount |-> amount, kind |-> kind, balance |-> w.balance + amount]
=============================================================================
