------------------------- MODULE WalletLedgerProofs -------------------------
(***************************************************************************)
(* For any users, amounts and number of goroutines: with immediate         *)
(* transactions the ledger explains every balance, and credit is atomic to *)
(* its callers.                                                            *)
(***************************************************************************)
EXTENDS WalletLedger, TLAPS

USE AmountsAssumption, DialectAssumption

\* credit computes a well-typed row from a well-typed row.
LEMMA CreditedType ==
  ASSUME NEW w \in Wallets, NEW a \in Int, NEW k \in Kinds
  PROVE  /\ Credited(w, a, k) \in Wallets
         /\ LedgerLine(w, a, k) \in Lines
         /\ Credited(w, a, k).balance = LedgerLine(w, a, k).balance
BY DEF Wallets, Lines, Credited, LedgerLine

\* The kinds a movement may have are ledger kinds.
LEMMA KindsOfType == ASSUME NEW a PROVE KindsOf(a) \subseteq Kinds
BY DEF KindsOf, Kinds

\* Types are kept, whatever the dialect.
LEMMA TypeStep == TypeOK /\ [Next]_vars => TypeOK'
<1> SUFFICES ASSUME TypeOK, [Next]_vars PROVE TypeOK'
  OBVIOUS
<1> USE DEF TypeOK, Closed
<1>1. ASSUME NEW u \in Users, Contact(u) PROVE TypeOK'
  BY <1>1 DEF Contact
<1>2. ASSUME NEW p \in Procs, NEW u \in Users, NEW a \in Amounts,
             NEW k \in KindsOf(a), Begin(p, u, a, k)
      PROVE  TypeOK'
  <2>1. a \in Int /\ k \in Kinds
    BY KindsOfType
  <2>2. [open |-> TRUE, user |-> u, amount |-> a, kind |-> k,
         seen |-> wallet[u], creates |-> u \notin known] \in OpenTx
    BY <2>1 DEF OpenTx
  <2> QED
    BY <1>2, <2>2 DEF Begin
<1>3. ASSUME NEW p \in Procs, Commit(p) PROVE TypeOK'
  <2> DEFINE t == tx[p]
  <2>1. t \in OpenTx
    BY <1>3 DEF Commit
  <2>2. t.user \in Users /\ t.seen \in Wallets /\ t.amount \in Int /\ t.kind \in Kinds
    BY <2>1 DEF OpenTx
  <2>3. /\ Credited(t.seen, t.amount, t.kind) \in Wallets
        /\ LedgerLine(t.seen, t.amount, t.kind) \in Lines
    BY <2>2, CreditedType
  <2> QED
    BY <1>3, <2>2, <2>3 DEF Commit
<1>4. ASSUME NEW p \in Procs, Rollback(p) PROVE TypeOK'
  BY <1>4 DEF Rollback
<1>5. CASE UNCHANGED vars
  BY <1>5 DEF vars
<1> QED
  BY <1>1, <1>2, <1>3, <1>4, <1>5 DEF Next

\* The wallets and ledgers always have their types.
THEOREM Typed == Spec => []TypeOK
<1>1. Init => TypeOK
  BY DEF Init, TypeOK, EmptyWallet, Wallets
<1> QED
  BY <1>1, TypeStep, PTL DEF Spec
-----------------------------------------------------------------------------

\* The commit of a transaction that read the row it overwrites keeps the
\* ledger of that user explained.
LEMMA CommitExplains ==
  ASSUME TypeOK, FreshRead, Explained, NEW p \in Procs, Commit(p)
  PROVE  Explained'
<1> DEFINE t == tx[p]
           v == t.user
           w == Credited(t.seen, t.amount, t.kind)
           line == LedgerLine(t.seen, t.amount, t.kind)
<1>1. t \in OpenTx /\ t.open
  BY DEF Commit, TypeOK, Closed
<1>2. v \in Users /\ t.seen \in Wallets /\ t.amount \in Int /\ t.kind \in Kinds
  BY <1>1 DEF OpenTx
<1>3. t.seen = wallet[v]
  BY <1>1 DEF FreshRead
<1>4. w \in Wallets /\ line \in Lines /\ w.balance = line.balance
  BY <1>2, CreditedType
<1>5. /\ wallet' = [wallet EXCEPT ![v] = w]
      /\ ledger' = [ledger EXCEPT ![v] = Append(@, line)]
  BY DEF Commit
<1>6. line.amount = t.amount /\ line.balance = t.amount + LastBalance(v)
  BY <1>2, <1>3 DEF LedgerLine, Explained, BalanceExplained, Wallets
<1>7. ASSUME NEW u \in Users, u # v
      PROVE  wallet'[u] = wallet[u] /\ ledger'[u] = ledger[u]
  BY <1>5, <1>7 DEF TypeOK
<1>8. wallet'[v] = w /\ ledger'[v] = Append(ledger[v], line) /\ ledger[v] \in Seq(Lines)
  BY <1>2, <1>5 DEF TypeOK
<1>9. BalanceExplained'
  <2> SUFFICES ASSUME NEW u \in Users
               PROVE  wallet'[u].balance = LastBalance(u)'
    BY DEF BalanceExplained
  <2>1. CASE u = v
    <3>1. LastBalance(u)' = line.balance
      <4>1. /\ Len(ledger'[v]) = Len(ledger[v]) + 1
            /\ ledger'[v][Len(ledger[v]) + 1] = line
            /\ ledger'[v] # <<>>
        BY <1>4, <1>8
      <4> QED
        BY <4>1, <2>1 DEF LastBalance
    <3> QED
      BY <2>1, <3>1, <1>4, <1>8
  <2>2. CASE u # v
    BY <2>2, <1>7 DEF LastBalance, Explained, BalanceExplained
  <2> QED
    BY <2>1, <2>2
<1>10. LedgerChained'
  <2> SUFFICES ASSUME NEW u \in Users, NEW i \in DOMAIN ledger'[u]
               PROVE  ledger'[u][i].balance = ledger'[u][i].amount
                        + (IF i = 1 THEN 0 ELSE ledger'[u][i - 1].balance)
    BY DEF LedgerChained
  <2>1. CASE u # v
    BY <2>1, <1>7 DEF Explained, LedgerChained
  <2>2. CASE u = v
    <3> DEFINE old == ledger[v]
    <3>1. i \in 1 .. Len(old) + 1 /\ DOMAIN old = 1 .. Len(old) /\ Len(old) \in Nat
      BY <2>2, <1>8
    <3>2. CASE i = Len(old) + 1
      <4>1. ledger'[u][i] = line
        BY <2>2, <3>2, <1>4, <1>8
      <4>2. CASE i = 1
        BY <4>1, <4>2, <3>1, <3>2, <2>2, <1>4, <1>6, <1>8 DEF LastBalance, Lines
      <4>3. CASE i # 1
        <5>1. ledger'[u][i - 1] = old[Len(old)] /\ old # <<>>
          BY <4>3, <3>1, <3>2, <2>2, <1>4, <1>8
        <5> QED
          BY <5>1, <4>1, <4>3, <1>6 DEF LastBalance
      <4> QED
        BY <4>2, <4>3
    <3>3. CASE i # Len(old) + 1
      <4>1. i \in 1 .. Len(old) /\ ledger'[u][i] = old[i]
        BY <3>1, <3>3, <2>2, <1>4, <1>8
      <4>2. i # 1 => ledger'[u][i - 1] = old[i - 1]
        BY <4>1, <2>2, <1>4, <1>8
      <4>3. old[i].balance = old[i].amount + (IF i = 1 THEN 0 ELSE old[i - 1].balance)
        BY <4>1, <3>1, <1>2 DEF Explained, LedgerChained
      <4> QED
        BY <4>1, <4>2, <4>3
    <3> QED
      BY <3>2, <3>3
  <2> QED
    BY <2>1, <2>2
<1> QED
  BY <1>9, <1>10 DEF Explained

\* Under immediate transactions the strengthening is inductive.
LEMMA LedgerInvStep ==
  ASSUME ImmediateTx
  PROVE  LedgerInv /\ [Next]_vars => LedgerInv'
<1> SUFFICES ASSUME LedgerInv, [Next]_vars PROVE LedgerInv'
  OBVIOUS
<1>0. TypeOK /\ TypeOK' /\ SoleTx /\ FreshRead /\ RealMovement /\ Explained
  BY TypeStep DEF LedgerInv
<1> SUFFICES SoleTx' /\ FreshRead' /\ RealMovement' /\ Explained'
  BY <1>0 DEF LedgerInv
<1>1. ASSUME NEW u \in Users, Contact(u)
      PROVE  SoleTx' /\ FreshRead' /\ RealMovement' /\ Explained'
  BY <1>0, <1>1 DEF Contact, SoleTx, FreshRead, Explained, BalanceExplained,
                    LastBalance, LedgerChained, RealMovement
<1>2. ASSUME NEW p \in Procs, NEW u \in Users, NEW a \in Amounts,
             NEW k \in KindsOf(a), Begin(p, u, a, k)
      PROVE  SoleTx' /\ FreshRead' /\ RealMovement' /\ Explained'
  <2>1. /\ \A q \in Procs : ~tx[q].open
        /\ \A q \in Procs : q # p => tx'[q] = tx[q]
        /\ tx'[p].user = u /\ tx'[p].seen = wallet[u]
        /\ tx'[p].amount = a /\ tx'[p].kind = k /\ a # 0
        /\ wallet' = wallet /\ ledger' = ledger
    BY <1>0, <1>2 DEF Begin, TypeOK
  <2>2. SoleTx' /\ FreshRead' /\ RealMovement'
    BY <2>1 DEF SoleTx, FreshRead, RealMovement
  <2> QED
    BY <1>0, <2>1, <2>2 DEF Explained, BalanceExplained, LastBalance, LedgerChained
<1>3. ASSUME NEW p \in Procs, Commit(p)
      PROVE  SoleTx' /\ FreshRead' /\ RealMovement' /\ Explained'
  <2>1. \A q \in Procs : ~tx'[q].open
    BY <1>0, <1>3 DEF Commit, SoleTx, TypeOK, Closed
  <2> QED
    BY <1>0, <1>3, <2>1, CommitExplains DEF SoleTx, FreshRead, RealMovement
<1>4. ASSUME NEW p \in Procs, Rollback(p)
      PROVE  SoleTx' /\ FreshRead' /\ RealMovement' /\ Explained'
  <2>1. /\ \A q \in Procs : q # p => tx'[q] = tx[q]
        /\ ~tx'[p].open /\ wallet' = wallet /\ ledger' = ledger
    BY <1>0, <1>4 DEF Rollback, TypeOK, Closed
  <2> QED
    BY <1>0, <2>1 DEF SoleTx, FreshRead, RealMovement, Explained,
                      BalanceExplained, LastBalance, LedgerChained
<1>5. CASE UNCHANGED vars
  BY <1>0, <1>5 DEF vars, SoleTx, FreshRead, Explained, BalanceExplained,
                    LastBalance, LedgerChained, RealMovement
<1> QED
  BY <1>1, <1>2, <1>3, <1>4, <1>5 DEF Next

LEMMA LedgerInvInit == Init => LedgerInv
BY DEF Init, LedgerInv, TypeOK, SoleTx, FreshRead, RealMovement, Explained,
       BalanceExplained, LastBalance, LedgerChained, EmptyWallet, Wallets, Closed

\* A balance can always be explained: on SQLite every wallet's balance is the
\* running total of its ledger, whatever the interleaving of the callers.
THEOREM LedgerExplains == ASSUME ImmediateTx PROVE Spec => []Explained
<1>1. LedgerInv => Explained
  BY DEF LedgerInv
<1> QED
  BY <1>1, LedgerInvInit, LedgerInvStep, PTL DEF Spec

-----------------------------------------------------------------------------

\* The columns credit writes, as the promise of AtomicWallet puts them.
LEMMA CreditedColumns ==
  ASSUME NEW w \in Wallets, NEW a \in Int, NEW k
  PROVE  Credited(w, a, k) =
           [balance |-> w.balance + a,
            paid |-> IF k = "topup" /\ a > 0 THEN w.paid + a ELSE w.paid,
            spent |-> IF a < 0 THEN w.spent - a ELSE w.spent]
<1>1. w.paid + (IF a > 0 /\ k = "topup" THEN a ELSE 0)
        = IF k = "topup" /\ a > 0 THEN w.paid + a ELSE w.paid
  <2>1. CASE k = "topup" /\ a > 0
    BY <2>1
  <2>2. CASE ~(k = "topup" /\ a > 0)
    BY <2>2 DEF Wallets
  <2> QED
    BY <2>1, <2>2
<1>2. w.spent + (IF a < 0 THEN -a ELSE 0) = IF a < 0 THEN w.spent - a ELSE w.spent
  <2>1. CASE a < 0
    BY <2>1 DEF Wallets
  <2>2. CASE ~(a < 0)
    BY <2>2 DEF Wallets
  <2> QED
    BY <2>1, <2>2
<1> QED
  BY <1>1, <1>2 DEF Credited

\* On SQLite credit is one atomic step to its callers: the commit is the
\* movement, every other step leaves wallets and ledgers alone.
THEOREM CreditIsAtomic == ASSUME ImmediateTx PROVE Spec => ImplementsAtomicWallet
<1>1. Init => Atomic!Init
  BY DEF Init, Atomic!Init, EmptyWallet, Atomic!EmptyWallet
<1>2. LedgerInv /\ [Next]_vars => [Atomic!Next]_(Atomic!vars)
  <2> SUFFICES ASSUME LedgerInv, [Next]_vars, ~UNCHANGED Atomic!vars
               PROVE  Atomic!Next
    OBVIOUS
  <2>1. PICK p \in Procs : Commit(p)
    BY DEF Next, vars, Atomic!vars, Contact, Begin, Rollback
  <2> DEFINE t == tx[p]
  <2>2. t \in OpenTx /\ t.open
    BY <2>1 DEF Commit, LedgerInv, TypeOK, Closed
  <2>3. t.seen = wallet[t.user] /\ t.user \in Users
    BY <2>2 DEF LedgerInv, FreshRead, OpenTx
  <2>4. t.amount \in Amounts \ {0} /\ t.kind \in Atomic!KindsOf(t.amount)
    BY <2>2 DEF LedgerInv, RealMovement, KindsOf, Atomic!KindsOf
  <2>5. ledger' = [ledger EXCEPT ![t.user] =
                     Append(@, Atomic!LedgerLine(wallet[t.user], t.amount, t.kind))]
    BY <2>1, <2>3 DEF Commit, LedgerLine, Atomic!LedgerLine
  <2>6. wallet' = [wallet EXCEPT ![t.user] = Credited(wallet[t.user], t.amount, t.kind)]
    BY <2>1, <2>3 DEF Commit
  <2>7. wallet \in [Users -> Wallets] /\ t.amount \in Int
    BY <2>2 DEF LedgerInv, TypeOK, OpenTx
  <2>8. wallet[t.user] \in Wallets
    BY <2>3, <2>7
  <2>9. Atomic!Credit(t.user, t.amount, t.kind)
    BY <2>3, <2>5, <2>6, <2>7, <2>8, CreditedColumns DEF Atomic!Credit
  <2> QED
    BY <2>3, <2>4, <2>9 DEF Atomic!Next
<1> QED
  BY <1>1, <1>2, LedgerInvInit, LedgerInvStep, PTL
     DEF Spec, ImplementsAtomicWallet, Atomic!Spec
=============================================================================
