---------------------------- MODULE WalletLedger ----------------------------
(***************************************************************************)
(* ShopService.credit: the transaction that reads a wallet row, writes the *)
(* new balance as an absolute value and appends the ledger line.  Several  *)
(* callers (approvals, billing runs, manual adjustments) run it at once.   *)
(*                                                                         *)
(* On SQLite every transaction opens with BEGIN IMMEDIATE (the DSN's       *)
(* _txlock), so no other one can be open between the read and the commit.  *)
(* On Postgres it runs READ COMMITTED: the read takes no lock.             *)
(***************************************************************************)
EXTENDS Wallet, FiniteSets, Sequences

CONSTANTS
  Users,          \* Telegram ids
  Procs,          \* goroutines that may be inside credit
  Amounts,        \* signed amounts moved
  ImmediateTx,    \* TRUE: SQLite, _txlock=immediate; FALSE: Postgres
  MaxLines        \* bound on the ledger of one user

ASSUME AmountsAssumption == Amounts \subseteq Int /\ MaxLines \in Nat
ASSUME DialectAssumption == ImmediateTx \in BOOLEAN

VARIABLES
  known,    \* users that have a bot_users row
  wallet,   \* the row of each user; EmptyWallet where there is none
  ledger,   \* the wallet_transactions of each user, oldest first
  tx        \* what the open transaction of each goroutine has read

vars == <<known, wallet, ledger, tx>>

Closed == [open |-> FALSE]

Wallets == [balance : Int, paid : Int, spent : Int]

Lines == [amount : Int, kind : Kinds, balance : Int]

OpenTx == [open : {TRUE}, user : Users, amount : Int, kind : Kinds,
           seen : Wallets, creates : BOOLEAN]

Init ==
  /\ known = {}
  /\ wallet = [u \in Users |-> EmptyWallet]
  /\ ledger = [u \in Users |-> <<>>]
  /\ tx = [p \in Procs |-> Closed]

\* `User`: find or create the row on first contact, outside any transaction.
Contact(u) ==
  /\ u \notin known
  /\ ImmediateTx => \A p \in Procs : ~tx[p].open
  /\ known' = known \cup {u}
  /\ UNCHANGED <<wallet, ledger, tx>>

\* Faulty variant: a deferred BEGIN, which locks nothing until the first write.
BeginDeferred(p, u, amount, kind) ==
  /\ ~tx[p].open
  /\ amount # 0
  /\ Len(ledger[u]) < MaxLines
  /\ tx' = [tx EXCEPT ![p] = [open |-> TRUE, user |-> u, amount |-> amount,
                              kind |-> kind, seen |-> wallet[u],
                              creates |-> u \notin known]]
  /\ UNCHANGED <<known, wallet, ledger>>

\* A new transaction reads the wallet; a missing row is created inside it.
\* An amount of zero returns the balance and moves nothing.
Begin(p, u, amount, kind) ==
  /\ ~tx[p].open
  /\ amount # 0
  /\ ImmediateTx => \A q \in Procs : ~tx[q].open
  /\ Len(ledger[u]) < MaxLines
  /\ tx' = [tx EXCEPT ![p] = [open |-> TRUE, user |-> u, amount |-> amount,
                              kind |-> kind, seen |-> wallet[u],
                              creates |-> u \notin known]]
  /\ UNCHANGED <<known, wallet, ledger>>

\* The row this transaction inserted meanwhile exists: telegram_id is the
\* primary key, so its insert fails and everything is rolled back.
Collides(p) == tx[p].creates /\ tx[p].user \in known

Commit(p) ==
  /\ tx[p].open
  /\ ~Collides(p)
  /\ LET t == tx[p] IN
       /\ known' = known \cup {t.user}
       /\ wallet' = [wallet EXCEPT ![t.user] = Credited(t.seen, t.amount, t.kind)]
       /\ ledger' = [ledger EXCEPT
                       ![t.user] = Append(@, LedgerLine(t.seen, t.amount, t.kind))]
  /\ tx' = [tx EXCEPT ![p] = Closed]

\* A failed statement, or a panel that dies, rolls the transaction back.
Rollback(p) ==
  /\ tx[p].open
  /\ tx' = [tx EXCEPT ![p] = Closed]
  /\ UNCHANGED <<known, wallet, ledger>>

Next ==
  \/ \E u \in Users : Contact(u)
  \/ \E p \in Procs, u \in Users, a \in Amounts :
       \E k \in KindsOf(a) : Begin(p, u, a, k)
  \/ \E p \in Procs : Commit(p)
  \/ \E p \in Procs : Rollback(p)

Spec == Init /\ [][Next]_vars

-----------------------------------------------------------------------------

\* Every variable keeps its type.
TypeOK ==
  /\ known \subseteq Users
  /\ wallet \in [Users -> Wallets]
  /\ ledger \in [Users -> Seq(Lines)]
  /\ tx \in [Procs -> OpenTx \cup {Closed}]

LastBalance(u) ==
  IF ledger[u] = <<>> THEN 0 ELSE ledger[u][Len(ledger[u])].balance

\* "A balance and its explanation can never disagree": the balance of a wallet
\* is the balance its last ledger line carries.
BalanceExplained == \A u \in Users : wallet[u].balance = LastBalance(u)

\* Each ledger line follows from the one before it: its balance is theirs plus
\* its own amount, and the first starts from an empty wallet.
LedgerChained ==
  \A u \in Users : \A i \in DOMAIN ledger[u] :
    ledger[u][i].balance =
      ledger[u][i].amount + (IF i = 1 THEN 0 ELSE ledger[u][i - 1].balance)

Explained == BalanceExplained /\ LedgerChained

\* credit is indivisible to its callers: every step of the transactions is one
\* atomic movement of AtomicWallet, or none.
Atomic == INSTANCE AtomicWallet

ImplementsAtomicWallet == Atomic!Spec

-----------------------------------------------------------------------------
\* What one goroutine inside the transaction knows under BEGIN IMMEDIATE: it is
\* the only one, and the row it read is still the row it will overwrite.
SoleTx == \A p, q \in Procs : tx[p].open /\ tx[q].open => p = q

FreshRead == \A p \in Procs : tx[p].open => tx[p].seen = wallet[tx[p].user]

\* An open transaction moves a non-zero amount of a kind its caller uses.
RealMovement ==
  \A p \in Procs : tx[p].open =>
    tx[p].amount \in Amounts \ {0} /\ tx[p].kind \in KindsOf(tx[p].amount)

\* The inductive strengthening of Explained.
LedgerInv == TypeOK /\ SoleTx /\ FreshRead /\ RealMovement /\ Explained
=============================================================================
