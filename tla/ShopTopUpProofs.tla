--------------------------- MODULE ShopTopUpProofs ---------------------------
(***************************************************************************)
(* For any buyers, requests, codes, bounds and number of goroutines: the   *)
(* tables stay well typed, the uses of a code are never exceeded, requests *)
(* are paid once unless a statement can reopen them, bonuses are explained *)
(* by redemptions, and an approval is lost only by a failure or a restart  *)
(* between its mark and its credit.                                        *)
(***************************************************************************)
EXTENDS ShopTopUp, FiniteSetTheorems, TLAPS

USE NoCodeAssumption, LimitsAssumption

NoRow == [status |-> "none"]

\* The share of a positive amount, capped or not, is a natural number.
LEMMA BonusType == ASSUME NEW a \in Nat PROVE Bonus(a) \in Nat
<1>1. a * Percent \in Nat
  OBVIOUS
<1> QED
  BY <1>1 DEF Bonus

\* Setting a field of a code's row, or counting a use, keeps the row well typed.
LEMMA CountType ==
  ASSUME NEW row \in LiveCodes
  PROVE  [row EXCEPT !.used = @ + 1] \in LiveCodes
<1>1. row.used + 1 \in Nat
  BY DEF LiveCodes
<1>2. ASSUME NEW n \in Nat PROVE [row EXCEPT !.used = n] \in LiveCodes
  BY Zenon DEF LiveCodes
<1> QED
  BY <1>1, <1>2, Zenon

\* Setting a flag of a live code leaves a live code.
LEMMA FlagType ==
  ASSUME NEW row \in LiveCodes, NEW on \in BOOLEAN
  PROVE  /\ [row EXCEPT !.enabled = on] \in LiveCodes
         /\ [row EXCEPT !.expired = TRUE] \in LiveCodes
BY Zenon DEF LiveCodes

\* A movement of an integer amount keeps a wallet well typed.
LEMMA CreditedType ==
  ASSUME NEW w \in Wallets, NEW a \in Int, NEW k
  PROVE  Credited(w, a, k) \in Wallets
BY DEF Wallets, Credited

\* A goroutine in a call holds a well-typed row that exists.
LEMMA Holding ==
  ASSUME TablesOK, NEW h \in Handlers, handler[h].pc # "idle"
  PROVE  /\ handler[h] \in InCall
         /\ handler[h].topup \in TopUps
         /\ handler[h].code \in Codes \cup {NoCode}
         /\ handler[h].id \in Nat
         /\ handler[h].pc \in CodeSteps => handler[h].code \in Codes
         /\ topup[handler[h].topup] \in Rows
         /\ topup[handler[h].topup].status # "none"
<1>1. handler[h] \in InCall /\ handler[h] # Idle
  BY DEF TablesOK, Idle
<1>2. CodeSteps \cap PlainSteps = {}
  BY DEF CodeSteps, PlainSteps
<1>3. topup[handler[h].topup].status # "none"
  BY <1>1 DEF TablesOK
<1> QED
  BY <1>1, <1>2, <1>3 DEF TablesOK, InCall

\* Going on in a call keeps the goroutines well typed.
LEMMA GotoType ==
  ASSUME TablesOK, NEW h \in Handlers, handler[h].pc # "idle",
         NEW pc, Goto(h, pc),
         \/ pc \in PlainSteps
         \/ pc \in CodeSteps /\ handler[h].code \in Codes
  PROVE  /\ handler' \in [Handlers -> InCall \cup {Idle}]
         /\ handler'[h].topup = handler[h].topup
<1>1. /\ handler[h] \in InCall
      /\ handler \in [Handlers -> InCall \cup {Idle}]
  BY Holding DEF TablesOK
<1>2. [handler[h] EXCEPT !.pc = pc] \in InCall
  BY <1>1 DEF InCall
<1> QED
  BY <1>1, <1>2 DEF Goto, InCall

\* Changing the status of an existing row to a known one keeps the table.
LEMMA StatusType ==
  ASSUME TablesOK, NEW t \in TopUps, topup[t].status # "none",
         NEW s \in Statuses, SetStatus(t, s)
  PROVE  /\ topup' \in [TopUps -> Rows \cup {NoRow}]
         /\ \A x \in TopUps : topup[x].status # "none" => topup'[x].status # "none"
         /\ \A x \in TopUps : x # t => topup'[x] = topup[x]
         /\ topup'[t].status = s
<1>1. topup[t] \in Rows
  BY DEF TablesOK
<1>2. [topup[t] EXCEPT !.status = s] \in Rows /\ "none" # s
  BY <1>1 DEF Rows, Statuses
<1> QED
  BY <1>1, <1>2 DEF TablesOK, SetStatus, Rows, NoRow

\* The first statement of a call keeps types.
LEMMA LoadType ==
  ASSUME TablesOK, NEW h \in Handlers, NEW t \in TopUps, NEW pc, NEW c,
         \/ pc \in PlainSteps /\ c \in Codes \cup {NoCode}
         \/ pc \in CodeSteps /\ c \in Codes,
         Load(h, t, pc, c), calls' \in Nat
  PROVE  TablesOK'
<1>1. [pc |-> pc, topup |-> t, code |-> c, id |-> 0] \in InCall
  BY DEF InCall
<1>2. topup[t].status # "none"
  BY DEF Load, Open
<1>3. handler' \in [Handlers -> InCall \cup {Idle}]
  BY <1>1 DEF Load, TablesOK
<1>4. \A x \in Handlers : handler'[x] # Idle => topup[handler'[x].topup].status # "none"
  BY <1>1, <1>2 DEF Load, TablesOK
<1> QED
  BY <1>3, <1>4 DEF Load, TablesOK, shop

\* A call that returns, or goes on without touching a table, keeps types.
LEMMA MoveType ==
  ASSUME TablesOK, NEW h \in Handlers, handler[h].pc # "idle", UNCHANGED <<shop, calls>>,
         \/ Finish(h)
         \/ \E pc : Goto(h, pc) /\ pc \in CodeSteps /\ handler[h].code \in Codes
  PROVE  TablesOK'
<1>1. /\ handler' \in [Handlers -> InCall \cup {Idle}]
      /\ \A x \in Handlers :
           handler'[x] # Idle => handler[x] # Idle /\ handler'[x].topup = handler[x].topup
  <2>1. CASE Finish(h)
    BY <2>1 DEF Finish, TablesOK
  <2>2. ASSUME NEW pc, Goto(h, pc), pc \in CodeSteps, handler[h].code \in Codes
        PROVE  <1>1!:
    <3>1. handler[h] # Idle
      BY DEF Idle
    <3>2. \A x \in Handlers : x # h => handler'[x] = handler[x]
      BY <2>2 DEF Goto, TablesOK
    <3> QED
      BY <2>2, <3>1, <3>2, GotoType
  <2> QED
    BY <2>1, <2>2
<1> QED
  BY <1>1 DEF TablesOK, shop

\* Each later statement of a call keeps types.
LEMMA ContinueType ==
  ASSUME TablesOK, NEW h \in Handlers, Continue(h) PROVE TablesOK'
<1> DEFINE t == handler[h].topup
           c == handler[h].code
<1>0. handler[h].pc # "idle"
  BY DEF Continue, ApproveMark, ApproveCredit, RedeemValidate, RedeemClaim, RedeemRecord,
         CreditBonus, StampBonus, RejectWrite, ReceiptWrite, CodeWrite, At
<1>1. /\ t \in TopUps
      /\ topup[t] \in Rows
      /\ topup[t].status # "none"
      /\ c \in Codes \cup {NoCode}
      /\ handler[h].pc \in CodeSteps => c \in Codes
  BY <1>0, Holding
<1>2. /\ topup[t].owner \in Users
      /\ topup[t].amount \in Nat
      /\ Bonus(topup[t].amount) \in Nat
  BY <1>1, BonusType DEF Rows
<1>a. ASSUME Finish(h)
      PROVE  /\ handler' \in [Handlers -> InCall \cup {Idle}]
             /\ \A x \in Handlers : handler'[x] # Idle =>
                  handler[x] # Idle /\ handler'[x].topup = handler[x].topup
  BY <1>a DEF Finish, TablesOK
<1>b. ASSUME NEW pc, Goto(h, pc), pc \in PlainSteps \/ (pc \in CodeSteps /\ c \in Codes)
      PROVE  /\ handler' \in [Handlers -> InCall \cup {Idle}]
             /\ \A x \in Handlers : handler'[x] # Idle =>
                  handler[x] # Idle /\ handler'[x].topup = handler[x].topup
  <2>1. \A x \in Handlers : x # h => handler'[x] = handler[x]
    BY <1>b DEF Goto, TablesOK
  <2> QED
    BY <1>b, <2>1, <1>0, GotoType DEF Idle
<1>3. CASE ApproveMark(h)
  <2>1. CASE topup[t].status = "approved"
    BY <2>1, <1>3, <1>0, MoveType DEF ApproveMark, shop
  <2>2. CASE topup[t].status # "approved"
    <3>1. Goto(h, "credit") /\ SetStatus(t, "approved")
      BY <2>2, <1>3 DEF ApproveMark
    <3>2. "approved" \in Statuses /\ "credit" \in PlainSteps
      BY DEF Statuses, PlainSteps
    <3>3. /\ topup' \in [TopUps -> Rows \cup {NoRow}]
          /\ \A x \in TopUps : topup[x].status # "none" => topup'[x].status # "none"
      BY <3>1, <3>2, <1>1, StatusType
    <3>4. /\ handler' \in [Handlers -> InCall \cup {Idle}]
          /\ \A x \in Handlers : handler'[x] # Idle =>
                handler[x] # Idle /\ handler'[x].topup = handler[x].topup
      BY <3>1, <3>2, <1>b
    <3>5. \A x \in Handlers : handler[x] # Idle => handler[x].topup \in TopUps
      BY DEF TablesOK, InCall
    <3> QED
      BY <3>3, <3>4, <3>5, <1>3 DEF ApproveMark, TablesOK, NoRow
  <2> QED
    BY <2>1, <2>2
<1>4. CASE ApproveCredit(h)
  <2>1. Credited(wallet[topup[t].owner], topup[t].amount, "topup") \in Wallets
    BY <1>2, CreditedType DEF TablesOK
  <2>2. /\ wallet' \in [Users -> Wallets]
        /\ payments' \in [TopUps -> Nat]
    BY <2>1, <1>1, <1>2, <1>4 DEF ApproveCredit, TablesOK
  <2>3. "validate" \in CodeSteps /\ (c # NoCode => c \in Codes)
    BY <1>1 DEF CodeSteps
  <2>4. Finish(h) \/ (Goto(h, "validate") /\ c \in Codes)
    BY <1>4, <2>3 DEF ApproveCredit
  <2>5. /\ handler' \in [Handlers -> InCall \cup {Idle}]
        /\ \A x \in Handlers : handler'[x] # Idle =>
              handler[x] # Idle /\ handler'[x].topup = handler[x].topup
    BY <2>3, <2>4, <1>a, <1>b
  <2> QED
    BY <2>2, <2>5, <1>4 DEF ApproveCredit, TablesOK
<1>5. CASE RedeemValidate(h)
  <2>1. CASE Finish(h)
    BY <2>1, <1>5, <1>0, MoveType DEF RedeemValidate
  <2>2. CASE /\ handler' = [handler EXCEPT ![h].pc = "claim", ![h].id = discount[c].id]
    <3>1. c \in Codes /\ discount[c].id \in Nat
      BY <1>1, <1>5 DEF RedeemValidate, At, CodeSteps, TablesOK, CodeRows, LiveCodes
    <3>2. handler[h] \in InCall
      BY <1>0, Holding
    <3>3. [handler[h] EXCEPT !.pc = "claim", !.id = discount[c].id] \in InCall
      BY <3>1, <3>2 DEF InCall, CodeSteps
    <3>4. /\ handler' \in [Handlers -> InCall \cup {Idle}]
          /\ handler'[h].topup = t
          /\ \A x \in Handlers : x # h => handler'[x] = handler[x]
      BY <2>2, <3>2, <3>3 DEF TablesOK, InCall
    <3> QED
      BY <3>4, <1>1, <1>5 DEF RedeemValidate, TablesOK, shop
  <2> QED
    BY <2>1, <2>2, <1>5 DEF RedeemValidate
<1>6. CASE RedeemClaim(h)
  <2>1. c \in Codes /\ "record" \in CodeSteps
    BY <1>1, <1>6 DEF RedeemClaim, At, CodeSteps
  <2>2. /\ handler' \in [Handlers -> InCall \cup {Idle}]
        /\ \A x \in Handlers : handler'[x] # Idle =>
              handler[x] # Idle /\ handler'[x].topup = handler[x].topup
    BY <2>1, <1>6, <1>a, <1>b DEF RedeemClaim
  <2>3. discount' \in [Codes -> CodeRows]
    <3>1. CASE UNCHANGED discount
      BY <3>1 DEF TablesOK
    <3>2. CASE discount[c].exists /\ discount' = [discount EXCEPT ![c].used = @ + 1]
      <4>1. discount[c] \in LiveCodes
        BY <2>1, <3>2 DEF TablesOK, CodeRows
      <4>2. [discount[c] EXCEPT !.used = @ + 1] \in LiveCodes
        BY <4>1, CountType
      <4> QED
        BY <3>2, <4>2 DEF TablesOK, CodeRows
    <3> QED
      BY <3>1, <3>2, <1>6 DEF RedeemClaim
  <2> QED
    BY <2>2, <2>3, <1>6 DEF RedeemClaim, TablesOK
<1>7. CASE RedeemRecord(h)
  <2>1. c \in Codes /\ "bonus" \in CodeSteps
    BY <1>1, <1>7 DEF RedeemRecord, At, CodeSteps
  <2>2. /\ handler' \in [Handlers -> InCall \cup {Idle}]
        /\ \A x \in Handlers : handler'[x] # Idle =>
              handler[x] # Idle /\ handler'[x].topup = handler[x].topup
    BY <2>1, <1>7, <1>b DEF RedeemRecord
  <2>3. [code |-> c, user |-> topup[t].owner, topup |-> t] \in Redemptions
    BY <2>1, <1>1, <1>2 DEF Redemptions
  <2>4. redemptions' \in Seq(Redemptions)
    BY <2>3, <1>7 DEF RedeemRecord, TablesOK
  <2> QED
    BY <2>2, <2>4, <1>7 DEF RedeemRecord, TablesOK
<1>8. CASE CreditBonus(h)
  <2>1. c \in Codes /\ "stamp" \in CodeSteps
    BY <1>1, <1>8 DEF CreditBonus, At, CodeSteps
  <2>2. /\ handler' \in [Handlers -> InCall \cup {Idle}]
        /\ \A x \in Handlers : handler'[x] # Idle =>
              handler[x] # Idle /\ handler'[x].topup = handler[x].topup
    BY <2>1, <1>8, <1>b DEF CreditBonus
  <2>3. Credited(wallet[topup[t].owner], Bonus(topup[t].amount), "bonus") \in Wallets
    BY <1>2, CreditedType DEF TablesOK
  <2>4. wallet' \in [Users -> Wallets] /\ bonuses' \in [TopUps -> Nat]
    BY <2>3, <1>1, <1>2, <1>8 DEF CreditBonus, TablesOK
  <2> QED
    BY <2>2, <2>4, <1>8 DEF CreditBonus, TablesOK
<1>9. CASE StampBonus(h)
  <2>1. [topup[t] EXCEPT !.bonus = Bonus(topup[t].amount)] \in Rows
    BY <1>1, <1>2 DEF Rows
  <2>2. /\ topup' \in [TopUps -> Rows \cup {NoRow}]
        /\ \A x \in TopUps : topup'[x].status = topup[x].status
    BY <2>1, <1>1, <1>9 DEF StampBonus, TablesOK, NoRow, Rows
  <2>3. \A x \in Handlers : handler[x] # Idle => handler[x].topup \in TopUps
    BY DEF TablesOK, InCall
  <2> QED
    BY <2>2, <2>3, <1>a, <1>9 DEF StampBonus, TablesOK, NoRow
<1>10. ASSUME NEW s \in {"rejected", "review"}, SetStatus(t, s), Finish(h),
              UNCHANGED <<discount, redemptions, wallet, payments, bonuses, calls>>
       PROVE  TablesOK'
  <2>1. /\ topup' \in [TopUps -> Rows \cup {NoRow}]
        /\ \A x \in TopUps : topup[x].status # "none" => topup'[x].status # "none"
    BY <1>10, <1>1, StatusType DEF Statuses
  <2>2. \A x \in Handlers : handler[x] # Idle => handler[x].topup \in TopUps
    BY DEF TablesOK, InCall
  <2> QED
    BY <2>1, <2>2, <1>a, <1>10 DEF TablesOK, NoRow
<1>11. CASE CodeWrite(h)
  <2>1. c \in Codes
    BY <1>1, <1>11 DEF CodeWrite, At, CodeSteps
  <2>2. [topup[t] EXCEPT !.code = c] \in Rows
    BY <2>1, <1>1 DEF Rows
  <2>3. /\ topup' \in [TopUps -> Rows \cup {NoRow}]
        /\ \A x \in TopUps : topup'[x].status = topup[x].status
    BY <2>2, <1>1, <1>11 DEF CodeWrite, TablesOK, NoRow, Rows
  <2>4. \A x \in Handlers : handler[x] # Idle => handler[x].topup \in TopUps
    BY DEF TablesOK, InCall
  <2> QED
    BY <2>3, <2>4, <1>a, <1>11 DEF CodeWrite, TablesOK, NoRow
<1> QED
  BY <1>3, <1>4, <1>5, <1>6, <1>7, <1>8, <1>9, <1>10, <1>11
     DEF Continue, RejectWrite, ReceiptWrite

\* A new request is a well-typed row of its owner.
LEMMA RequestType ==
  ASSUME TablesOK, NEW t \in TopUps, NEW u \in Users, NEW a \in Amounts, RequestTopUp(t, u, a)
  PROVE  TablesOK'
<1>0. a \in Int /\ a > 0
  BY DEF RequestTopUp, InBounds
<1>1. a \in Nat \ {0}
  BY <1>0
<1>2. [status |-> "pending", owner |-> u, amount |-> a, code |-> NoCode, bonus |-> 0] \in Rows
  BY <1>1 DEF Rows, Statuses
<1>3. /\ topup' \in [TopUps -> Rows \cup {NoRow}]
      /\ \A x \in TopUps : topup[x].status # "none" => topup'[x].status # "none"
  BY <1>2 DEF RequestTopUp, TablesOK, NoRow
<1>4. \A x \in Handlers : handler[x] # Idle => handler[x].topup \in TopUps
  BY DEF TablesOK, InCall
<1> QED
  BY <1>3, <1>4 DEF RequestTopUp, Call, TablesOK, NoRow

\* The first statement of every other call keeps types.
LEMMA BeginType ==
  ASSUME TablesOK, NEW h \in Handlers, NEW t \in TopUps, Begin(h, t) PROVE TablesOK'
<1>1. calls' \in Nat
  BY DEF Begin, ApproveLoad, RejectLoad, ReceiptLoad, CodeLoad, Call, TablesOK
<1>2. CASE ApproveLoad(h, t)
  <2>1. topup[t] \in Rows
    BY <1>2 DEF ApproveLoad, Load, Open, TablesOK
  <2> QED
    BY <2>1, <1>1, <1>2, LoadType DEF ApproveLoad, PlainSteps, Rows
<1>3. CASE RejectLoad(h, t)
  BY <1>1, <1>3, LoadType DEF RejectLoad, PlainSteps
<1>4. CASE ReceiptLoad(h, t)
  BY <1>1, <1>4, LoadType DEF ReceiptLoad, PlainSteps
<1>5. ASSUME NEW c \in Codes, CodeLoad(h, t, c) PROVE TablesOK'
  BY <1>1, <1>5, LoadType DEF CodeLoad, CodeSteps
<1> QED
  BY <1>2, <1>3, <1>4, <1>5 DEF Begin

\* Managing a code keeps its row well typed, and its uses as they were or none.
LEMMA ManageKeeps ==
  ASSUME TablesOK, NEW c \in Codes, Manage(c)
  PROVE  /\ TablesOK'
         /\ \E row \in CodeRows :
              /\ discount' = [discount EXCEPT ![c] = row]
              /\ row.exists => \/ row.used = 0
                               \/ discount[c].exists /\ row.used = discount[c].used
<1> DEFINE Kept(row) ==
      /\ discount' = [discount EXCEPT ![c] = row]
      /\ row.exists => \/ row.used = 0
                       \/ discount[c].exists /\ row.used = discount[c].used
<1>1. discount[c] \in CodeRows
  BY DEF TablesOK
<1>2. ASSUME NEW row \in CodeRows, SetCode(c, row), calls' \in Nat
      PROVE  TablesOK'
  BY <1>2 DEF SetCode, TablesOK
<1>3. CASE CreateDiscount(c)
  <2> DEFINE row == [exists |-> TRUE, id |-> discount[c].id + 1,
                     enabled |-> TRUE, expired |-> FALSE, used |-> 0]
  <2>1. discount[c].id + 1 \in Nat
    <3>1. discount[c].id \in Nat
      BY <1>1 DEF CodeRows, LiveCodes
    <3> QED
      BY <3>1
  <2>2. row \in CodeRows /\ row.used = 0
    BY <2>1, Zenon DEF CodeRows, LiveCodes
  <2>3. SetCode(c, row) /\ calls' \in Nat
    BY <1>3 DEF CreateDiscount, Call, TablesOK
  <2> QED
    BY <2>2, <2>3, <1>2 DEF SetCode
<1>4. ASSUME NEW on \in BOOLEAN, SetDiscountEnabled(c, on)
      PROVE  TablesOK' /\ \E row \in CodeRows : Kept(row)
  <2> DEFINE row == [discount[c] EXCEPT !.enabled = on]
  <2>1. discount[c].exists /\ discount[c] \in LiveCodes
    BY <1>1, <1>4 DEF SetDiscountEnabled, CodeRows
  <2>2. row \in CodeRows /\ row.used = discount[c].used
    BY <2>1, FlagType DEF CodeRows, LiveCodes
  <2>3. SetCode(c, row) /\ calls' \in Nat
    BY <1>4 DEF SetDiscountEnabled, Call, TablesOK
  <2> QED
    BY <2>1, <2>2, <2>3, <1>2 DEF SetCode
<1>5. CASE DeleteDiscount(c)
  <2> DEFINE row == [exists |-> FALSE, id |-> discount[c].id]
  <2>1. row \in CodeRows /\ ~row.exists
    BY <1>1 DEF CodeRows, LiveCodes
  <2>2. SetCode(c, row) /\ calls' \in Nat
    BY <1>5 DEF DeleteDiscount, Call, TablesOK
  <2> QED
    BY <2>1, <2>2, <1>2 DEF SetCode
<1>6. CASE Expire(c)
  <2> DEFINE row == [discount[c] EXCEPT !.expired = TRUE]
  <2>1. discount[c].exists /\ discount[c] \in LiveCodes
    BY <1>1, <1>6 DEF Expire, CodeRows
  <2>2. row \in CodeRows /\ row.used = discount[c].used
    BY <2>1, FlagType DEF CodeRows, LiveCodes
  <2>3. SetCode(c, row) /\ calls' \in Nat
    BY <1>6 DEF Expire, TablesOK
  <2> QED
    BY <2>1, <2>2, <2>3, <1>2 DEF SetCode
<1> QED
  BY <1>3, <1>4, <1>5, <1>6 DEF Manage

\* A failing statement keeps types.
LEMMA FailType ==
  ASSUME TablesOK, NEW h \in Handlers, Fail(h) PROVE TablesOK'
<1>1. handler[h].pc # "idle" /\ UNCHANGED <<shop, calls>>
  BY DEF Fail, TablesOK, InCall, CodeSteps, PlainSteps
<1>2. CASE At(h, "bonus")
  <2>1. "stamp" \in CodeSteps /\ handler[h].code \in Codes
    BY <1>1, <1>2, Holding DEF At, CodeSteps
  <2> QED
    BY <2>1, <1>1, <1>2, MoveType DEF Fail
<1>3. CASE ~At(h, "bonus")
  BY <1>1, <1>3, MoveType DEF Fail
<1> QED
  BY <1>2, <1>3

\* Every step keeps types.
LEMMA TypeStep == TablesOK /\ [Next]_vars => TablesOK'
<1> SUFFICES ASSUME TablesOK, [Next]_vars PROVE TablesOK'
  OBVIOUS
<1>1. CASE Serve
  BY <1>1, RequestType, BeginType, ContinueType, ManageKeeps DEF Serve
<1>2. CASE Crash
  BY <1>2 DEF Crash, TablesOK, shop
<1>3. CASE \E h \in Handlers : Fail(h)
  BY <1>3, FailType
<1>4. CASE UNCHANGED vars
  BY <1>4 DEF vars, shop, TablesOK
<1> QED
  BY <1>1, <1>2, <1>3, <1>4 DEF Next

\* Initially there are no rows and nobody is in a call.
LEMMA InitTyped == Init => TablesOK
<1> SUFFICES ASSUME Init PROVE TablesOK
  OBVIOUS
<1>1. discount \in [Codes -> CodeRows]
  BY DEF Init, CodeRows
<1>2. EmptyWallet \in Wallets
  BY DEF EmptyWallet, Wallets
<1> QED
  BY <1>1, <1>2 DEF Init, TablesOK

\* The shop's tables, wallets and calls always have their types.
LEMMA TablesTyped == Spec => []TablesOK
BY InitTyped, TypeStep, PTL DEF Spec

\* So has every variable, the record of the approvals that were cut off included.
THEOREM Typed == Spec => []TypeOK
<1>1. Init => TypeOK
  BY InitTyped DEF Init, TypeOK
<1>2. TypeOK /\ [Next]_vars => TypeOK'
  BY TypeStep DEF Next, Crash, Fail, vars, TypeOK
<1> QED
  BY <1>1, <1>2, PTL DEF Spec

-----------------------------------------------------------------------------

\* Only claiming a use and managing a code touch the codes.
LEMMA CodesUntouched ==
  ASSUME NEW h \in Handlers, Continue(h), ~RedeemClaim(h) PROVE UNCHANGED discount
BY DEF Continue, ApproveMark, ApproveCredit, RedeemValidate, RedeemRecord, CreditBonus,
       StampBonus, RejectWrite, ReceiptWrite, CodeWrite, SetStatus, shop

\* No step takes a code over its limit: a use is claimed under the condition that
\* one is left, and a code that is created anew starts with none used.
LEMMA UseLimitStep == TablesOK /\ UseLimit /\ [Next]_vars => UseLimit'
<1> SUFFICES ASSUME TablesOK, UseLimit, [Next]_vars PROVE UseLimit'
  OBVIOUS
<1>1. CASE UNCHANGED discount
  BY <1>1 DEF UseLimit
<1>2. ASSUME NEW h \in Handlers, RedeemClaim(h), ~UNCHANGED discount PROVE UseLimit'
  <2> DEFINE c == handler[h].code
  <2>1. c \in Codes
    BY <1>2, Holding DEF RedeemClaim, At, CodeSteps
  <2>2. /\ discount[c].exists
        /\ MaxUses > 0 => discount[c].used < MaxUses
        /\ discount' = [discount EXCEPT ![c].used = @ + 1]
    BY <1>2 DEF RedeemClaim
  <2>3. discount[c] \in LiveCodes /\ discount[c].used \in Nat
    BY <2>1, <2>2 DEF TablesOK, CodeRows, LiveCodes
  <2>4. discount'[c].used = discount[c].used + 1
    BY <2>1, <2>2, <2>3 DEF TablesOK, LiveCodes
  <2>5. \A x \in Codes : x # c => discount'[x] = discount[x]
    BY <2>2 DEF TablesOK
  <2> QED
    BY <2>1, <2>2, <2>3, <2>4, <2>5 DEF UseLimit
<1>3. ASSUME NEW c \in Codes, Manage(c) PROVE UseLimit'
  <2>1. PICK row \in CodeRows :
          /\ discount' = [discount EXCEPT ![c] = row]
          /\ row.exists => \/ row.used = 0
                           \/ discount[c].exists /\ row.used = discount[c].used
    BY <1>3, ManageKeeps
  <2>2. discount'[c] = row /\ \A x \in Codes : x # c => discount'[x] = discount[x]
    BY <2>1 DEF TablesOK
  <2> QED
    BY <2>1, <2>2 DEF UseLimit
<1> QED
  BY <1>1, <1>2, <1>3, CodesUntouched
     DEF Next, Serve, RequestTopUp, Begin, ApproveLoad, RejectLoad, ReceiptLoad, CodeLoad,
         Load, Fail, Crash, vars, shop

\* A code with a limit is never redeemed more often than it allows, however many
\* approvals race on its last use and wherever they fail.
THEOREM UsesAreLimited == Spec => []UseLimit
<1>1. Init => UseLimit
  BY DEF Init, UseLimit
<1> QED
  BY <1>1, TablesTyped, UseLimitStep, PTL DEF Spec

-----------------------------------------------------------------------------

\* A step that writes no other status over an approved one.
StaysApproved ==
  \A t \in TopUps : topup[t].status = "approved" => topup'[t].status = "approved"

\* A request that is not approved is unpaid and nobody is about to pay it; of an
\* approved one, one goroutine at most still owes the payment.
PaidInv ==
  /\ \A t \in TopUps : topup[t].status # "approved" =>
       payments[t] = 0 /\ \A h \in Handlers : ~Owing(h, t)
  /\ \A t \in TopUps, h \in Handlers : Owing(h, t) => payments[t] = 0
  /\ \A t \in TopUps, g, h \in Handlers : Owing(g, t) /\ Owing(h, t) => g = h
  /\ PaidOnce

\* A step after which nobody owes more, and nothing was paid or reopened, keeps it.
LEMMA NothingOwed ==
  ASSUME PaidInv, UNCHANGED payments, StaysApproved,
         \A t \in TopUps, h \in Handlers : Owing(h, t)' => Owing(h, t)
  PROVE  PaidInv'
BY DEF PaidInv, PaidOnce, StaysApproved

\* Only goroutine h moves, to a step that does not pay.
MovesOn(h) ==
  \E new : handler' = [handler EXCEPT ![h] = new] /\ new.pc # "credit"

\* Such a move owes nothing.
LEMMA MovedOn ==
  ASSUME TablesOK, NEW h \in Handlers, MovesOn(h)
  PROVE  \A t \in TopUps, g \in Handlers : Owing(g, t)' => Owing(g, t)
<1>0. PICK new : handler' = [handler EXCEPT ![h] = new] /\ new.pc # "credit"
  BY DEF MovesOn
<1>1. \A g \in Handlers : handler'[g] = IF g = h THEN new ELSE handler[g]
  BY <1>0 DEF TablesOK
<1> QED
  BY <1>0, <1>1 DEF Owing, At

\* Returning from a call, and going on to any other step, are such moves.
LEMMA MovesOnBy ==
  ASSUME TablesOK, NEW h \in Handlers, handler[h] \in InCall
  PROVE  /\ Finish(h) => MovesOn(h)
         /\ \A pc : Goto(h, pc) /\ pc # "credit" => MovesOn(h)
         /\ RedeemValidate(h) => MovesOn(h)
<1>1. Finish(h) => MovesOn(h)
  <2>1. Idle.pc # "credit"
    BY DEF Idle
  <2> QED
    BY <2>1 DEF Finish, MovesOn
<1>2. ASSUME NEW pc, Goto(h, pc), pc # "credit" PROVE MovesOn(h)
  <2>1. [handler[h] EXCEPT !.pc = pc].pc = pc
    BY DEF InCall
  <2> QED
    BY <1>2, <2>1 DEF Goto, MovesOn
<1>3. ASSUME NEW i, handler' = [handler EXCEPT ![h].pc = "claim", ![h].id = i] PROVE MovesOn(h)
  <2> DEFINE new == [handler[h] EXCEPT !.pc = "claim", !.id = i]
  <2>1. new.pc = "claim"
    BY DEF InCall
  <2>2. handler' = [handler EXCEPT ![h] = new]
    BY <1>3 DEF TablesOK, InCall
  <2> HIDE DEF new
  <2> QED
    BY <2>1, <2>2 DEF MovesOn
<1>4. RedeemValidate(h) => MovesOn(h)
  BY <1>1, <1>3 DEF RedeemValidate
<1> QED
  BY <1>1, <1>2, <1>4

\* Every step that reopens no approved request keeps PaidInv.
LEMMA PaidStep ==
  TablesOK /\ PaidInv /\ [Next]_vars /\ [StaysApproved]_vars => PaidInv'
<1> SUFFICES ASSUME TablesOK, PaidInv, [Next]_vars, [StaysApproved]_vars PROVE PaidInv'
  OBVIOUS
<1>0. StaysApproved
  BY DEF StaysApproved, vars, shop
<1>1. CASE UNCHANGED <<topup, payments, handler>>
  BY <1>1 DEF PaidInv, PaidOnce, Owing, At
<1>2. ASSUME NEW t \in TopUps, NEW u \in Users, NEW a \in Amounts, RequestTopUp(t, u, a)
      PROVE  PaidInv'
  <2>1. /\ \A x \in TopUps : x # t => topup'[x] = topup[x]
        /\ UNCHANGED <<payments, handler>> /\ topup[t].status = "none"
    BY <1>2 DEF RequestTopUp, TablesOK
  <2> QED
    BY <2>1 DEF PaidInv, PaidOnce, Owing, At
<1>3. ASSUME NEW h \in Handlers, NEW t \in TopUps, Begin(h, t) PROVE PaidInv'
  <2>1. PICK pc, c : Load(h, t, pc, c) /\ pc # "credit"
    BY <1>3 DEF Begin, ApproveLoad, RejectLoad, ReceiptLoad, CodeLoad
  <2> DEFINE new == [pc |-> pc, topup |-> t, code |-> c, id |-> 0]
  <2>2. handler' = [handler EXCEPT ![h] = new] /\ UNCHANGED <<topup, payments>>
    BY <2>1 DEF Load, shop
  <2>3. new.pc # "credit"
    BY <2>1
  <2> HIDE DEF new
  <2>4. MovesOn(h)
    BY <2>2, <2>3 DEF MovesOn
  <2> QED
    BY <1>0, <2>2, <2>4, MovedOn, NothingOwed
<1>4. ASSUME NEW h \in Handlers, ApproveMark(h) PROVE PaidInv'
  <2> DEFINE t == handler[h].topup
  <2>1. t \in TopUps /\ topup[t].status # "none" /\ handler[h] \in InCall
    BY <1>4, Holding DEF ApproveMark, At
  <2>2. CASE topup[t].status = "approved"
    <3>1. Finish(h) /\ UNCHANGED <<topup, payments>>
      BY <1>4, <2>2 DEF ApproveMark
    <3>2. MovesOn(h)
      BY <2>1, <3>1, MovesOnBy
    <3> QED
      BY <1>0, <3>1, <3>2, MovedOn, NothingOwed
  <2>3. CASE topup[t].status # "approved"
    <3>1. Goto(h, "credit") /\ SetStatus(t, "approved") /\ UNCHANGED payments
      BY <1>4, <2>3 DEF ApproveMark
    <3>2. /\ \A x \in TopUps : x # t => topup'[x] = topup[x]
          /\ topup'[t].status = "approved"
      BY <3>1, <2>1, StatusType DEF Statuses
    <3>3. /\ \A g \in Handlers : g # h => handler'[g] = handler[g]
          /\ handler'[h].pc = "credit" /\ handler'[h].topup = t
      BY <3>1, <2>1 DEF Goto, TablesOK, InCall
    <3>4. payments[t] = 0 /\ \A g \in Handlers : ~Owing(g, t)
      BY <2>1, <2>3 DEF PaidInv
    <3>5. ~Owing(h, t)
      BY <3>4
    <3> QED
      BY <3>1, <3>2, <3>3, <3>4 DEF PaidInv, PaidOnce, Owing, At
  <2> QED
    BY <2>2, <2>3
<1>5. ASSUME NEW h \in Handlers, ApproveCredit(h) PROVE PaidInv'
  <2>1. PICK t \in TopUps : t = handler[h].topup /\ handler[h] \in InCall /\ Owing(h, t)
    BY <1>5, Holding DEF ApproveCredit, At, Owing
  <2>2. payments[t] = 0 /\ topup[t].status = "approved"
    BY <2>1 DEF PaidInv
  <2>3. /\ payments'[t] = 1
        /\ \A x \in TopUps : x # t => payments'[x] = payments[x]
        /\ UNCHANGED topup
    BY <1>5, <2>1, <2>2 DEF ApproveCredit, TablesOK
  <2>4. /\ \A g \in Handlers : g # h => handler'[g] = handler[g]
        /\ handler'[h].pc \in {"idle", "validate"}
    BY <1>5, <2>1 DEF ApproveCredit, Finish, Goto, TablesOK, InCall, Idle
  <2>5. \A g \in Handlers, x \in TopUps : Owing(g, x)' => Owing(g, x) /\ g # h
    BY <2>4 DEF Owing, At
  <2>6. \A g \in Handlers : ~Owing(g, t)'
    BY <2>1, <2>5 DEF PaidInv
  <2>7. \A x \in TopUps, g \in Handlers : Owing(g, x)' => payments'[x] = 0
    BY <2>3, <2>5, <2>6 DEF PaidInv
  <2>8. PaidOnce'
    BY <2>3 DEF PaidInv, PaidOnce
  <2> QED
    BY <2>2, <2>3, <2>5, <2>7, <2>8 DEF PaidInv
<1>6. ASSUME NEW h \in Handlers, Continue(h), ~ApproveMark(h), ~ApproveCredit(h)
      PROVE  PaidInv'
  <2>1. handler[h].pc # "idle" /\ UNCHANGED payments
    BY <1>6 DEF Continue, RedeemValidate, RedeemClaim, RedeemRecord, CreditBonus,
                StampBonus, RejectWrite, ReceiptWrite, CodeWrite, At, shop
  <2>2. MovesOn(h)
    BY <1>6, <2>1, Holding, MovesOnBy
       DEF Continue, RedeemClaim, RedeemRecord, CreditBonus, StampBonus, RejectWrite,
           ReceiptWrite, CodeWrite, At
  <2> QED
    BY <1>0, <2>1, <2>2, MovedOn, NothingOwed
<1>7. ASSUME NEW h \in Handlers, Fail(h) PROVE PaidInv'
  <2>1. handler[h] \in InCall /\ UNCHANGED <<topup, payments>>
    BY <1>7 DEF Fail, TablesOK, shop
  <2>2. MovesOn(h)
    BY <1>7, <2>1, MovesOnBy DEF Fail
  <2> QED
    BY <1>0, <2>1, <2>2, MovedOn, NothingOwed
<1>8. CASE Crash
  <2>1. \A h \in Handlers : handler'[h].pc = "idle"
    BY <1>8 DEF Crash, Idle
  <2> QED
    BY <1>0, <1>8, <2>1, NothingOwed DEF Crash, Owing, At, shop
<1> QED
  BY <1>1, <1>2, <1>3, <1>4, <1>5, <1>6, <1>7, <1>8
     DEF Next, Serve, Manage, CreateDiscount, SetDiscountEnabled, DeleteDiscount, Expire,
         SetCode, vars, shop

\* Approvals, receipts and rejections of one request may race, statements may fail and
\* the panel may restart: for any number of goroutines the request is credited once at
\* most, as long as no step writes another status over an approved one.  Two calls can
\* do that, and only by having read the request before it was approved.
THEOREM ApprovalPaysOnce == Spec /\ [][StaysApproved]_vars => []PaidOnce
<1>1. Init => PaidInv
  BY DEF Init, PaidInv, PaidOnce, Owing, At, Idle
<1>2. PaidInv => PaidOnce
  BY DEF PaidInv
<1> QED
  BY <1>1, <1>2, TablesTyped, PaidStep, PTL DEF Spec

-----------------------------------------------------------------------------
\* One call at a time.

OneHandler == \A g, h \in Handlers : g = h

Deciding == {"mark", "reject", "receipt"}

\* Who is about to decide a request found it open, and nothing has decided it since;
\* who is about to pay one has approved it, and only approved ones are paid.
Undisturbed ==
  /\ \A h \in Handlers : handler[h].pc \in Deciding => Open(handler[h].topup)
  /\ \A h \in Handlers : handler[h].pc = "credit" =>
       topup[handler[h].topup].status = "approved" /\ payments[handler[h].topup] = 0
  /\ \A t \in TopUps : topup[t].status # "approved" => payments[t] = 0

\* A step that decides and pays nothing.
Aside(h) ==
  /\ \A t \in TopUps : topup'[t].status = topup[t].status
  /\ payments' = payments
  /\ handler'[h].pc \notin Deciding \cup {"credit"}

\* Redeeming a code, failing and attaching a code are such steps.
LEMMA ContinueAside ==
  ASSUME TablesOK, NEW h \in Handlers,
         \/ RedeemValidate(h) \/ RedeemClaim(h) \/ RedeemRecord(h) \/ CreditBonus(h)
         \/ StampBonus(h) \/ CodeWrite(h) \/ Fail(h)
  PROVE  Aside(h)
<1>1. handler[h].pc # "idle" /\ payments' = payments
  BY DEF RedeemValidate, RedeemClaim, RedeemRecord, CreditBonus, StampBonus, CodeWrite, Fail,
         At, shop, TablesOK, InCall, CodeSteps, PlainSteps
<1>2. handler[h] \in InCall /\ handler[h].topup \in TopUps /\ topup[handler[h].topup] \in Rows
  BY <1>1, Holding
<1>3. Finish(h) => handler'[h].pc = "idle"
  BY DEF Finish, TablesOK, Idle
<1>4. ASSUME NEW pc, Goto(h, pc) PROVE handler'[h].pc = pc
  BY <1>2, <1>4 DEF Goto, TablesOK, InCall
<1>5. RedeemValidate(h) => handler'[h].pc \in {"idle", "claim"}
  <2>1. ASSUME NEW i, handler' = [handler EXCEPT ![h].pc = "claim", ![h].id = i]
        PROVE  handler'[h].pc = "claim"
    BY <1>2, <2>1 DEF TablesOK, InCall
  <2> QED
    BY <1>3, <2>1 DEF RedeemValidate
<1>6. handler'[h].pc \notin Deciding \cup {"credit"}
  BY <1>3, <1>4, <1>5 DEF RedeemClaim, RedeemRecord, CreditBonus, StampBonus, CodeWrite, Fail,
                          Deciding
<1>7. \A t \in TopUps : topup'[t].status = topup[t].status
  <2> DEFINE d == handler[h].topup
  <2>1. CASE topup' = topup
    BY <2>1
  <2>2. ASSUME NEW r, topup' = [topup EXCEPT ![d] = r], r.status = topup[d].status
        PROVE  \A t \in TopUps : topup'[t].status = topup[t].status
    BY <1>2, <2>2 DEF TablesOK
  <2>3. \A x : /\ [topup[d] EXCEPT !.bonus = x].status = topup[d].status
               /\ [topup[d] EXCEPT !.code = x].status = topup[d].status
    BY <1>2 DEF Rows
  <2>4. CASE StampBonus(h)
    BY <2>2, <2>3, <2>4 DEF StampBonus
  <2>5. CASE CodeWrite(h)
    BY <2>2, <2>3, <2>5 DEF CodeWrite
  <2> QED
    BY <2>1, <2>4, <2>5 DEF RedeemValidate, RedeemClaim, RedeemRecord, CreditBonus, Fail, shop
<1> QED
  BY <1>1, <1>6, <1>7 DEF Aside

\* ... and they disturb nothing.
LEMMA AsideKeeps ==
  ASSUME OneHandler, TablesOK, Undisturbed, NEW h \in Handlers, Aside(h)
  PROVE  Undisturbed' /\ UNCHANGED Request!vars
<1>1. \A t \in TopUps : DecisionOf(t)' = DecisionOf(t)
  BY DEF Aside, DecisionOf
<1>2. \A g \in Handlers : g = h
  BY DEF OneHandler
<1> QED
  BY <1>1, <1>2 DEF Aside, Undisturbed, Request!vars

\* Deciding a request that is open is what the abstract request does.
LEMMA DecideRefines ==
  ASSUME OneHandler, TablesOK, Undisturbed, NEW h \in Handlers,
         ApproveMark(h) \/ RejectWrite(h) \/ ReceiptWrite(h)
  PROVE  Undisturbed' /\ (Request!Next \/ UNCHANGED Request!vars)
<1>0. PICK t : t = handler[h].topup
  OBVIOUS
<1>1. /\ handler[h].pc \in Deciding /\ t \in TopUps /\ topup[t].status # "none"
      /\ handler[h] \in InCall
  BY <1>0, Holding DEF ApproveMark, RejectWrite, ReceiptWrite, At, Deciding
<1>2. Open(t) /\ payments[t] = 0
  BY <1>0, <1>1 DEF Undisturbed, Open
<1>3. \A g \in Handlers : g = h
  BY DEF OneHandler
<1>4. PICK s \in {"approved", "rejected", "review"} : SetStatus(t, s) /\ payments' = payments
        /\ (s = "approved" => handler'[h].pc = "credit" /\ handler'[h].topup = t)
        /\ (s # "approved" => handler'[h].pc = "idle")
  <2>1. CASE ApproveMark(h)
    <3>1. Goto(h, "credit") /\ SetStatus(t, "approved") /\ payments' = payments
      BY <1>0, <1>2, <2>1 DEF ApproveMark, Open
    <3>2. handler'[h].pc = "credit" /\ handler'[h].topup = t
      BY <1>0, <1>1, <3>1 DEF Goto, TablesOK, InCall
    <3> QED
      BY <3>1, <3>2
  <2>2. Finish(h) => handler'[h].pc = "idle"
    BY DEF Finish, TablesOK, Idle
  <2>3. CASE RejectWrite(h)
    BY <1>0, <2>2, <2>3 DEF RejectWrite
  <2>4. CASE ReceiptWrite(h)
    BY <1>0, <2>2, <2>4 DEF ReceiptWrite
  <2> QED
    BY <2>1, <2>3, <2>4
<1>5. /\ topup'[t].status = s
      /\ \A x \in TopUps : x # t => topup'[x] = topup[x]
  BY <1>1, <1>4, StatusType DEF Statuses
<1>6. Undisturbed'
  BY <1>1, <1>2, <1>3, <1>4, <1>5 DEF Undisturbed, Deciding
<1>7. /\ DecisionOf(t) = "open"
      /\ \A x \in TopUps : x # t => DecisionOf(x)' = DecisionOf(x)
      /\ DecisionOf(t)' = IF s = "review" THEN "open" ELSE s
  <2>1. DecisionOf(t) = "open"
    BY <1>2 DEF DecisionOf, Open
  <2>2. \A x \in TopUps : x # t => DecisionOf(x)' = DecisionOf(x)
    BY <1>5 DEF DecisionOf
  <2>3. DecisionOf(t)' = IF s = "review" THEN "open" ELSE s
    BY <1>4, <1>5 DEF DecisionOf
  <2> QED
    BY <2>1, <2>2, <2>3
<1>8. CASE s = "review"
  <2>1. \A x \in TopUps : DecisionOf(x)' = DecisionOf(x)
    BY <1>7, <1>8
  <2> QED
    BY <1>4, <1>6, <2>1 DEF Request!vars
<1>9. CASE s # "review"
  <2>1. [x \in TopUps |-> DecisionOf(x)'] = [[x \in TopUps |-> DecisionOf(x)] EXCEPT ![t] = s]
    BY <1>1, <1>7, <1>9
  <2>2. Request!Decide(t, s)
    BY <1>1, <1>4, <1>7, <2>1 DEF Request!Decide
  <2>3. s \in {"approved", "rejected"}
    BY <1>9
  <2> QED
    BY <1>1, <1>6, <2>2, <2>3 DEF Request!Next
<1> QED
  BY <1>8, <1>9

\* Crediting an approved request is the payment of the abstract one.
LEMMA CreditRefines ==
  ASSUME OneHandler, TablesOK, Undisturbed, NEW h \in Handlers, ApproveCredit(h)
  PROVE  Undisturbed' /\ Request!Next
<1> DEFINE t == handler[h].topup
<1>1. t \in TopUps /\ handler[h] \in InCall /\ handler[h].pc = "credit"
  BY Holding DEF ApproveCredit, At
<1>2. topup[t].status = "approved" /\ payments[t] = 0
  BY <1>1 DEF Undisturbed
<1>3. topup' = topup /\ payments' = [payments EXCEPT ![t] = 1]
  BY <1>1, <1>2 DEF ApproveCredit, TablesOK
<1>4. handler'[h].pc \in {"idle", "validate"} /\ \A g \in Handlers : g = h
  BY <1>1 DEF ApproveCredit, Finish, Goto, TablesOK, InCall, Idle, OneHandler
<1>5. Undisturbed'
  BY <1>1, <1>2, <1>3, <1>4 DEF Undisturbed, Deciding, TablesOK
<1>6. \A x \in TopUps : DecisionOf(x)' = DecisionOf(x)
  BY <1>3 DEF DecisionOf
<1>7. Request!Pay(t)
  BY <1>1, <1>2, <1>3, <1>6 DEF Request!Pay, DecisionOf
<1> QED
  BY <1>1, <1>5, <1>7 DEF Request!Next

\* Every step decides, pays, or leaves the requests as they are.
LEMMA RequestStep ==
  ASSUME OneHandler, TablesOK, Undisturbed, [Next]_vars
  PROVE  Undisturbed' /\ (Request!Next \/ UNCHANGED Request!vars)
<1>1. CASE UNCHANGED <<topup, payments, handler>>
  BY <1>1 DEF Undisturbed, Open, Request!vars, DecisionOf
<1>2. ASSUME NEW t \in TopUps, NEW u \in Users, NEW a \in Amounts, RequestTopUp(t, u, a)
      PROVE  Undisturbed' /\ UNCHANGED Request!vars
  <2>1. /\ topup[t].status = "none" /\ topup'[t].status = "pending"
        /\ \A x \in TopUps : x # t => topup'[x] = topup[x]
        /\ UNCHANGED <<payments, handler>>
    BY <1>2 DEF RequestTopUp, TablesOK
  <2>2. \A x \in TopUps : DecisionOf(x)' = DecisionOf(x)
    BY <2>1 DEF DecisionOf
  <2>3. \A h \in Handlers : handler[h].pc # "idle" => handler[h].topup \in TopUps
    BY Holding
  <2>4. Undisturbed'
    BY <2>1, <2>3 DEF Undisturbed, Open, Deciding
  <2> QED
    BY <2>1, <2>2, <2>4 DEF Request!vars
<1>3. ASSUME NEW h \in Handlers, NEW t \in TopUps, Begin(h, t)
      PROVE  Undisturbed' /\ UNCHANGED Request!vars
  <2>1. /\ Open(t) /\ UNCHANGED <<topup, payments>>
        /\ \E pc \in Deciding \cup {"code"} : \E c :
             handler' = [handler EXCEPT ![h] = [pc |-> pc, topup |-> t, code |-> c, id |-> 0]]
    BY <1>3 DEF Begin, ApproveLoad, RejectLoad, ReceiptLoad, CodeLoad, Load, Deciding, shop
  <2>2. handler'[h].pc \in Deciding \cup {"code"} /\ handler'[h].topup = t
        /\ \A g \in Handlers : g = h
    BY <2>1 DEF TablesOK, OneHandler
  <2> QED
    BY <2>1, <2>2 DEF Undisturbed, Open, Deciding, Request!vars, DecisionOf
<1>4. ASSUME NEW h \in Handlers, Continue(h)
      PROVE  Undisturbed' /\ (Request!Next \/ UNCHANGED Request!vars)
  BY <1>4, DecideRefines, CreditRefines, ContinueAside, AsideKeeps DEF Continue
<1>5. ASSUME NEW h \in Handlers, Fail(h) PROVE Undisturbed' /\ UNCHANGED Request!vars
  BY <1>5, ContinueAside, AsideKeeps
<1>6. CASE Crash
  <2>1. \A h \in Handlers : handler'[h].pc = "idle"
    BY <1>6 DEF Crash, Idle
  <2>2. UNCHANGED <<topup, payments>>
    BY <1>6 DEF Crash, shop
  <2> QED
    BY <2>1, <2>2 DEF Undisturbed, Deciding, Request!vars, DecisionOf
<1> QED
  BY <1>1, <1>2, <1>3, <1>4, <1>5, <1>6
     DEF Next, Serve, Manage, CreateDiscount, SetDiscountEnabled, DeleteDiscount, Expire,
         SetCode, vars, shop

\* Served one call at a time, a request is decided once, and only an approved one is
\* paid, once: for any requests, amounts and codes, and whatever fails or dies half way.
THEOREM OneAtATimeIsRight == ASSUME OneHandler PROVE Spec => ImplementsTopUpRequest
<1>1. Init => TablesOK
  <2> SUFFICES ASSUME Init PROVE TablesOK
    OBVIOUS
  <2>1. discount \in [Codes -> CodeRows]
    BY DEF Init, CodeRows
  <2>2. EmptyWallet \in Wallets
    BY DEF EmptyWallet, Wallets
  <2> QED
    BY <2>1, <2>2 DEF Init, TablesOK
<1>2. Init => Undisturbed /\ Request!Init
  BY DEF Init, Undisturbed, Deciding, Idle, Request!Init, DecisionOf
<1>3. TablesOK /\ Undisturbed /\ [Next]_vars =>
        Undisturbed' /\ [Request!Next]_(Request!vars)
  BY RequestStep
<1> QED
  BY <1>1, <1>2, <1>3, TypeStep, PTL DEF Spec, ImplementsTopUpRequest, Request!Spec

-----------------------------------------------------------------------------
\* A bonus for each redemption, a use for each redemption.

FiniteHandlers == IsFiniteSet(Handlers)

\* Codes are switched on and off but not deleted.
NoDeletes == "delete" \notin Calls

\* Who has claimed a use of the code and is about to record it; who has recorded a
\* redemption of the request and is about to credit the bonus.
Recorders(c) == {h \in Handlers : handler[h].pc = "record" /\ handler[h].code = c}
Granters(t) == {h \in Handlers : handler[h].pc = "bonus" /\ handler[h].topup = t}

RedeemedBy(c) == {i \in DOMAIN redemptions : redemptions[i].code = c}

AfterPay == {"validate", "claim", "record", "bonus", "stamp"}

\* Bonuses credited and about to be are covered by redemptions, redemptions written and
\* about to be by uses, and whoever redeems has paid.
BonusInv ==
  /\ \A t \in TopUps :
       /\ Rewarded(t) # {} => payments[t] > 0
       /\ bonuses[t] + Cardinality(Granters(t)) <= Cardinality(Rewarded(t))
  /\ \A h \in Handlers : handler[h].pc \in AfterPay => payments[handler[h].topup] > 0
  /\ \A c \in Codes :
       /\ discount[c].exists =>
            Cardinality(RedeemedBy(c)) + Cardinality(Recorders(c)) <= discount[c].used
       /\ ~discount[c].exists => RedeemedBy(c) = {} /\ Recorders(c) = {}

\* Part of a finite set has a size, and not a larger one.
LEMMA PartSize ==
  ASSUME NEW S, IsFiniteSet(S), NEW T, T \subseteq S
  PROVE  /\ IsFiniteSet(T) /\ Cardinality(T) \in Nat /\ Cardinality(S) \in Nat
         /\ Cardinality(T) <= Cardinality(S)
BY FS_Subset, FS_CardinalityType

\* One element more, one element less.
LEMMA OneMore ==
  ASSUME NEW S, IsFiniteSet(S), NEW x, x \notin S
  PROVE  Cardinality(S \cup {x}) = Cardinality(S) + 1 /\ Cardinality(S) \in Nat
BY FS_AddElement, FS_CardinalityType

LEMMA OneLess ==
  ASSUME NEW S, IsFiniteSet(S), NEW x, x \in S
  PROVE  Cardinality(S \ {x}) = Cardinality(S) - 1 /\ Cardinality(S) \in Nat
BY FS_RemoveElement, FS_CardinalityType

\* All that is counted is finite.
LEMMA Counted ==
  ASSUME FiniteHandlers, TablesOK
  PROVE  /\ \A t \in TopUps : /\ IsFiniteSet(Rewarded(t)) /\ IsFiniteSet(Granters(t))
                              /\ Cardinality(Rewarded(t)) \in Nat
                              /\ Cardinality(Granters(t)) \in Nat
         /\ \A c \in Codes : /\ IsFiniteSet(RedeemedBy(c)) /\ IsFiniteSet(Recorders(c))
                             /\ Cardinality(RedeemedBy(c)) \in Nat
                             /\ Cardinality(Recorders(c)) \in Nat
<1>1. IsFiniteSet(DOMAIN redemptions)
  <2>1. DOMAIN redemptions = 1 .. Len(redemptions) /\ Len(redemptions) \in Int
    BY DEF TablesOK
  <2> QED
    BY <2>1, FS_Interval
<1>2. \A t : Rewarded(t) \subseteq DOMAIN redemptions /\ Granters(t) \subseteq Handlers
  BY DEF Rewarded, Granters
<1>3. \A c : RedeemedBy(c) \subseteq DOMAIN redemptions /\ Recorders(c) \subseteq Handlers
  BY DEF RedeemedBy, Recorders
<1>4. \A S, T : IsFiniteSet(S) /\ T \subseteq S => IsFiniteSet(T) /\ Cardinality(T) \in Nat
  BY PartSize
<1> QED
  BY <1>1, <1>2, <1>3, <1>4 DEF FiniteHandlers

\* A step by which nobody starts to record or to credit keeps the accounts.
LEMMA Quieter ==
  ASSUME FiniteHandlers, TablesOK, TablesOK', BonusInv,
         UNCHANGED <<redemptions, bonuses>>,
         \A t \in TopUps : payments'[t] >= payments[t],
         \A h \in Handlers : handler'[h].pc \in {"record", "bonus"} => handler'[h] = handler[h],
         \A h \in Handlers : handler'[h].pc \in AfterPay => payments'[handler'[h].topup] > 0,
         \A c \in Codes : discount[c].exists =>
                            discount'[c].exists /\ discount'[c].used >= discount[c].used
  PROVE  BonusInv'
<1>1. \A t : Rewarded(t)' = Rewarded(t) /\ Granters(t)' \subseteq Granters(t)
  BY DEF Rewarded, Granters
<1>2. \A c : RedeemedBy(c)' = RedeemedBy(c) /\ Recorders(c)' \subseteq Recorders(c)
  BY DEF RedeemedBy, Recorders
<1>3. ASSUME NEW t \in TopUps
      PROVE  /\ Rewarded(t)' # {} => payments'[t] > 0
             /\ bonuses'[t] + Cardinality(Granters(t)') <= Cardinality(Rewarded(t)')
  <2>1. /\ Cardinality(Granters(t)') \in Nat
        /\ Cardinality(Granters(t)') <= Cardinality(Granters(t))
    BY <1>1, Counted, PartSize
  <2>2. Cardinality(Granters(t)) \in Nat /\ Cardinality(Rewarded(t)) \in Nat
    BY Counted
  <2>3. bonuses[t] \in Nat /\ payments[t] \in Nat /\ payments'[t] \in Nat
    BY DEF TablesOK
  <2> QED
    BY <1>1, <2>1, <2>2, <2>3 DEF BonusInv
<1>4. ASSUME NEW c \in Codes
      PROVE  /\ discount'[c].exists =>
                  Cardinality(RedeemedBy(c)') + Cardinality(Recorders(c)') <= discount'[c].used
             /\ ~discount'[c].exists => RedeemedBy(c)' = {} /\ Recorders(c)' = {}
  <2>1. /\ Cardinality(Recorders(c)') \in Nat
        /\ Cardinality(Recorders(c)') <= Cardinality(Recorders(c))
    BY <1>2, Counted, PartSize
  <2>2. Cardinality(Recorders(c)) \in Nat /\ Cardinality(RedeemedBy(c)) \in Nat
    BY Counted
  <2>3. /\ discount[c].exists => discount[c].used \in Nat
        /\ discount'[c].exists => discount'[c].used \in Nat
    BY DEF TablesOK, CodeRows, LiveCodes
  <2>4. CASE discount[c].exists
    BY <1>2, <2>1, <2>2, <2>3, <2>4 DEF BonusInv
  <2>5. CASE ~discount[c].exists
    <3>1. RedeemedBy(c)' = {} /\ Recorders(c)' = {}
      BY <1>2, <2>5 DEF BonusInv
    <3>2. Cardinality({}) = 0
      BY FS_EmptySet
    <3> QED
      BY <2>3, <3>1, <3>2
  <2> QED
    BY <2>4, <2>5
<1> QED
  BY <1>3, <1>4 DEF BonusInv

\* A goroutine that goes on leaves the others where they are.
LEMMA GoingOn ==
  ASSUME TablesOK, NEW h \in Handlers, handler[h].pc # "idle", NEW pc, Goto(h, pc)
  PROVE  /\ handler'[h].pc = pc /\ handler'[h].topup = handler[h].topup
         /\ handler'[h].code = handler[h].code
         /\ \A g \in Handlers : g # h => handler'[g] = handler[g]
<1>1. handler[h] \in InCall
  BY Holding
<1> QED
  BY <1>1 DEF Goto, TablesOK, InCall

\* Claiming a use counts it and makes one recorder.
LEMMA ClaimCounts ==
  ASSUME FiniteHandlers, TablesOK, TablesOK', BonusInv, NEW h \in Handlers, RedeemClaim(h),
         Goto(h, "record"), NEW c, c = handler[h].code,
         discount[c].exists, discount' = [discount EXCEPT ![c].used = @ + 1]
  PROVE  BonusInv'
<1>1. /\ handler[h].pc = "claim" /\ c \in Codes
      /\ UNCHANGED <<redemptions, payments, bonuses>>
  BY Holding DEF RedeemClaim, At, CodeSteps
<1>2. /\ handler'[h].pc = "record" /\ handler'[h].code = c
      /\ handler'[h].topup = handler[h].topup
      /\ \A g \in Handlers : g # h => handler'[g] = handler[g]
  BY <1>1, GoingOn
<1>3. /\ Recorders(c)' = Recorders(c) \cup {h} /\ h \notin Recorders(c)
      /\ \A d \in Codes : d # c => Recorders(d)' = Recorders(d)
  BY <1>1, <1>2 DEF Recorders
<1>4. /\ \A d : RedeemedBy(d)' = RedeemedBy(d)
      /\ \A t : Rewarded(t)' = Rewarded(t) /\ Granters(t)' = Granters(t)
  BY <1>1, <1>2 DEF RedeemedBy, Rewarded, Granters
<1>5. /\ discount'[c].exists /\ discount'[c].used = discount[c].used + 1
      /\ discount[c].used \in Nat
      /\ \A d \in Codes : d # c => discount'[d] = discount[d]
  <2>1. discount[c] \in LiveCodes
    BY <1>1 DEF TablesOK, CodeRows
  <2>2. /\ [discount[c] EXCEPT !.used = @ + 1].used = discount[c].used + 1
        /\ [discount[c] EXCEPT !.used = @ + 1].exists
    BY <2>1 DEF LiveCodes
  <2>3. discount[c].used \in Nat
    BY <2>1 DEF LiveCodes
  <2> QED
    BY <1>1, <2>2, <2>3 DEF TablesOK
<1>6. ASSUME NEW d \in Codes
      PROVE  /\ discount'[d].exists =>
                  Cardinality(RedeemedBy(d)') + Cardinality(Recorders(d)') <= discount'[d].used
             /\ ~discount'[d].exists => RedeemedBy(d)' = {} /\ Recorders(d)' = {}
  <2>1. CASE d = c
    <3>1. Cardinality(Recorders(c)') = Cardinality(Recorders(c)) + 1
      BY <1>1, <1>3, Counted, OneMore
    <3>2. Cardinality(RedeemedBy(c)) + Cardinality(Recorders(c)) <= discount[c].used
      BY <1>1 DEF BonusInv
    <3>3. Cardinality(RedeemedBy(c)) \in Nat /\ Cardinality(Recorders(c)) \in Nat
      BY <1>1, Counted
    <3> QED
      BY <1>4, <1>5, <2>1, <3>1, <3>2, <3>3
  <2>2. CASE d # c
    BY <1>3, <1>4, <1>5, <2>2 DEF BonusInv
  <2> QED
    BY <2>1, <2>2
<1>7. \A g \in Handlers : handler'[g].pc \in AfterPay => payments'[handler'[g].topup] > 0
  BY <1>1, <1>2 DEF BonusInv, AfterPay
<1> QED
  BY <1>1, <1>4, <1>6, <1>7 DEF BonusInv

\* Recording a redemption turns one recorder into one who grants.
LEMMA RecordCounts ==
  ASSUME FiniteHandlers, TablesOK, TablesOK', BonusInv, NEW h \in Handlers, RedeemRecord(h)
  PROVE  BonusInv'
<1>0. PICK c, t : c = handler[h].code /\ t = handler[h].topup
  OBVIOUS
<1>1. /\ handler[h].pc = "record" /\ c \in Codes /\ t \in TopUps
      /\ UNCHANGED <<discount, payments, bonuses>>
  BY <1>0, Holding DEF RedeemRecord, At, CodeSteps
<1>2. /\ handler'[h].pc = "bonus" /\ handler'[h].topup = t
      /\ \A g \in Handlers : g # h => handler'[g] = handler[g]
  BY <1>0, <1>1, GoingOn DEF RedeemRecord
<1>3. PICK n \in Nat : /\ n = Len(redemptions) /\ DOMAIN redemptions = 1 .. n
                       /\ DOMAIN redemptions' = (1 .. n) \cup {n + 1} /\ n + 1 \notin 1 .. n
                       /\ \A i \in 1 .. n : redemptions'[i] = redemptions[i]
                       /\ redemptions'[n + 1].code = c /\ redemptions'[n + 1].topup = t
  <2>1. redemptions \in Seq(Redemptions)
    BY DEF TablesOK
  <2>2. redemptions' = Append(redemptions, [code |-> c, user |-> topup[t].owner, topup |-> t])
    BY <1>0 DEF RedeemRecord
  <2> QED
    BY <2>1, <2>2
<1>4. /\ Rewarded(t)' = Rewarded(t) \cup {n + 1} /\ n + 1 \notin Rewarded(t)
      /\ \A x \in TopUps : x # t => Rewarded(x)' = Rewarded(x)
  BY <1>3 DEF Rewarded
<1>5. /\ RedeemedBy(c)' = RedeemedBy(c) \cup {n + 1} /\ n + 1 \notin RedeemedBy(c)
      /\ \A x \in Codes : x # c => RedeemedBy(x)' = RedeemedBy(x)
  BY <1>3 DEF RedeemedBy
<1>6. /\ Granters(t)' = Granters(t) \cup {h} /\ h \notin Granters(t)
      /\ \A x \in TopUps : x # t => Granters(x)' = Granters(x)
  BY <1>1, <1>2 DEF Granters
<1>7. /\ Recorders(c)' = Recorders(c) \ {h} /\ h \in Recorders(c)
      /\ \A x \in Codes : x # c => Recorders(x)' = Recorders(x)
  BY <1>0, <1>1, <1>2 DEF Recorders
<1>8. ASSUME NEW x \in TopUps
      PROVE  /\ Rewarded(x)' # {} => payments'[x] > 0
             /\ bonuses'[x] + Cardinality(Granters(x)') <= Cardinality(Rewarded(x)')
  <2>1. CASE x = t
    <3>1. Cardinality(Granters(t)') = Cardinality(Granters(t)) + 1
      BY <1>1, <1>6, Counted, OneMore
    <3>2. Cardinality(Rewarded(t)') = Cardinality(Rewarded(t)) + 1
      BY <1>1, <1>4, Counted, OneMore
    <3>3. Cardinality(Granters(t)) \in Nat /\ Cardinality(Rewarded(t)) \in Nat
      BY <1>1, Counted
    <3>4. payments[t] > 0 /\ bonuses[t] \in Nat
      BY <1>0, <1>1 DEF BonusInv, AfterPay, TablesOK
    <3>5. bonuses[t] + Cardinality(Granters(t)) <= Cardinality(Rewarded(t))
      BY <1>1 DEF BonusInv
    <3> QED
      BY <1>1, <2>1, <3>1, <3>2, <3>3, <3>4, <3>5
  <2>2. CASE x # t
    BY <1>1, <1>4, <1>6, <2>2 DEF BonusInv
  <2> QED
    BY <2>1, <2>2
<1>9. ASSUME NEW d \in Codes
      PROVE  /\ discount'[d].exists =>
                  Cardinality(RedeemedBy(d)') + Cardinality(Recorders(d)') <= discount'[d].used
             /\ ~discount'[d].exists => RedeemedBy(d)' = {} /\ Recorders(d)' = {}
  <2>1. CASE d = c
    <3>1. Cardinality(Recorders(c)') = Cardinality(Recorders(c)) - 1
      BY <1>1, <1>7, Counted, OneLess
    <3>2. Cardinality(RedeemedBy(c)') = Cardinality(RedeemedBy(c)) + 1
      BY <1>1, <1>5, Counted, OneMore
    <3>3. Cardinality(RedeemedBy(c)) \in Nat /\ Cardinality(Recorders(c)) \in Nat
      BY <1>1, Counted
    <3>4. discount[c].exists
      BY <1>1, <1>7 DEF BonusInv
    <3>5. Cardinality(RedeemedBy(c)) + Cardinality(Recorders(c)) <= discount[c].used
      BY <1>1, <3>4 DEF BonusInv
    <3> QED
      BY <1>1, <2>1, <3>1, <3>2, <3>3, <3>4, <3>5
  <2>2. CASE d # c
    BY <1>1, <1>5, <1>7, <2>2 DEF BonusInv
  <2> QED
    BY <2>1, <2>2
<1>10. \A g \in Handlers : handler'[g].pc \in AfterPay => payments'[handler'[g].topup] > 0
  BY <1>0, <1>1, <1>2 DEF BonusInv, AfterPay
<1> QED
  BY <1>8, <1>9, <1>10 DEF BonusInv

\* Crediting a bonus counts it and takes one who was to grant it.
LEMMA GrantCounts ==
  ASSUME FiniteHandlers, TablesOK, TablesOK', BonusInv, NEW h \in Handlers, CreditBonus(h)
  PROVE  BonusInv'
<1>0. PICK t : t = handler[h].topup
  OBVIOUS
<1>1. /\ handler[h].pc = "bonus" /\ t \in TopUps
      /\ UNCHANGED <<discount, redemptions, payments>>
  BY <1>0, Holding DEF CreditBonus, At
<1>2. /\ handler'[h].pc = "stamp" /\ handler'[h].topup = t
      /\ \A g \in Handlers : g # h => handler'[g] = handler[g]
  BY <1>0, <1>1, GoingOn DEF CreditBonus
<1>3. /\ bonuses'[t] = bonuses[t] + 1 /\ bonuses[t] \in Nat
      /\ \A x \in TopUps : x # t => bonuses'[x] = bonuses[x]
  BY <1>0, <1>1 DEF CreditBonus, TablesOK
<1>4. /\ \A x : Rewarded(x)' = Rewarded(x)
      /\ \A x : RedeemedBy(x)' = RedeemedBy(x) /\ Recorders(x)' = Recorders(x)
  BY <1>1, <1>2 DEF Rewarded, RedeemedBy, Recorders
<1>5. /\ Granters(t)' = Granters(t) \ {h} /\ h \in Granters(t)
      /\ \A x \in TopUps : x # t => Granters(x)' = Granters(x)
  BY <1>0, <1>1, <1>2 DEF Granters
<1>6. ASSUME NEW x \in TopUps
      PROVE  bonuses'[x] + Cardinality(Granters(x)') <= Cardinality(Rewarded(x)')
  <2>1. CASE x = t
    <3>1. Cardinality(Granters(t)') = Cardinality(Granters(t)) - 1
      BY <1>1, <1>5, Counted, OneLess
    <3>2. Cardinality(Granters(t)) \in Nat /\ Cardinality(Rewarded(t)) \in Nat
      BY <1>1, Counted
    <3>3. bonuses[t] + Cardinality(Granters(t)) <= Cardinality(Rewarded(t))
      BY <1>1 DEF BonusInv
    <3> QED
      BY <1>3, <1>4, <2>1, <3>1, <3>2, <3>3
  <2>2. CASE x # t
    BY <1>3, <1>4, <1>5, <2>2 DEF BonusInv
  <2> QED
    BY <2>1, <2>2
<1>7. \A g \in Handlers : handler'[g].pc \in AfterPay => payments'[handler'[g].topup] > 0
  BY <1>0, <1>1, <1>2 DEF BonusInv, AfterPay
<1>8. \A x \in TopUps : Rewarded(x)' # {} => payments'[x] > 0
  BY <1>1, <1>4 DEF BonusInv
<1>9. \A c \in Codes :
        /\ discount'[c].exists =>
             Cardinality(RedeemedBy(c)') + Cardinality(Recorders(c)') <= discount'[c].used
        /\ ~discount'[c].exists => RedeemedBy(c)' = {} /\ Recorders(c)' = {}
  BY <1>1, <1>4 DEF BonusInv
<1> QED
  BY <1>6, <1>7, <1>8, <1>9 DEF BonusInv

\* A code that is there counts its uses.
LEMMA UsesAreNat ==
  ASSUME TablesOK
  PROVE  \A c \in Codes : discount[c].exists =>
           /\ discount[c] \in LiveCodes /\ discount[c].used \in Nat
           /\ discount[c].used >= discount[c].used
<1> SUFFICES ASSUME NEW c \in Codes, discount[c].exists
             PROVE  /\ discount[c] \in LiveCodes /\ discount[c].used \in Nat
                    /\ discount[c].used >= discount[c].used
  OBVIOUS
<1>1. discount[c] \in LiveCodes
  BY DEF TablesOK, CodeRows
<1>2. discount[c].used \in Nat
  BY <1>1 DEF LiveCodes
<1> QED
  BY <1>1, <1>2

\* A goroutine that moves, but neither to record nor to credit, keeps the accounts.
LEMMA QuietMove ==
  ASSUME FiniteHandlers, TablesOK, TablesOK', BonusInv, NEW h \in Handlers,
         UNCHANGED <<discount, redemptions, bonuses>>,
         \A t \in TopUps : payments'[t] >= payments[t],
         \A g \in Handlers : g # h => handler'[g] = handler[g],
         handler'[h].pc \notin {"record", "bonus"},
         handler'[h].pc \in AfterPay => payments'[handler'[h].topup] > 0
  PROVE  BonusInv'
<1>1. ASSUME NEW g \in Handlers, g # h, handler[g].pc \in AfterPay
      PROVE  payments'[handler[g].topup] > 0
  <2>1. handler[g].topup \in TopUps
    BY <1>1, Holding DEF AfterPay
  <2>2. payments[handler[g].topup] \in Nat /\ payments'[handler[g].topup] \in Nat
    BY <2>1 DEF TablesOK
  <2> QED
    BY <1>1, <2>1, <2>2 DEF BonusInv
<1>2. \A g \in Handlers : handler'[g].pc \in AfterPay => payments'[handler'[g].topup] > 0
  BY <1>1
<1>3. \A c \in Codes : discount[c].exists =>
                         discount'[c].exists /\ discount'[c].used >= discount[c].used
  BY UsesAreNat
<1> QED
  BY <1>2, <1>3, Quieter

\* The admin's codes: without deletions uses are never forgotten.
LEMMA ManageQuiet ==
  ASSUME FiniteHandlers, NoDeletes, TablesOK, TablesOK', BonusInv, NEW c \in Codes, Manage(c)
  PROVE  BonusInv'
<1>1. UNCHANGED <<redemptions, payments, bonuses, handler>>
  BY DEF Manage, CreateDiscount, SetDiscountEnabled, DeleteDiscount, Expire, SetCode
<1>2. \A d \in Codes : d # c => discount'[d] = discount[d]
  BY DEF Manage, CreateDiscount, SetDiscountEnabled, DeleteDiscount, Expire, SetCode, TablesOK
<1>3. ~DeleteDiscount(c)
  BY DEF NoDeletes, DeleteDiscount, Call
<1>4. discount[c].exists =>
        discount'[c].exists /\ discount'[c].used = discount[c].used
  <2> SUFFICES ASSUME discount[c].exists
               PROVE  discount'[c].exists /\ discount'[c].used = discount[c].used
    OBVIOUS
  <2>1. discount[c] \in LiveCodes
    BY UsesAreNat
  <2>2. \A on : /\ [discount[c] EXCEPT !.enabled = on].exists
                /\ [discount[c] EXCEPT !.enabled = on].used = discount[c].used
                /\ [discount[c] EXCEPT !.expired = on].exists
                /\ [discount[c] EXCEPT !.expired = on].used = discount[c].used
    BY <2>1 DEF LiveCodes
  <2>3. PICK row : /\ discount' = [discount EXCEPT ![c] = row]
                   /\ row.exists /\ row.used = discount[c].used
    BY <1>3, <2>2 DEF Manage, CreateDiscount, SetDiscountEnabled, Expire, SetCode
  <2> QED
    BY <2>3 DEF TablesOK
<1>5. \A d \in Codes : discount[d].exists =>
                         discount'[d].exists /\ discount'[d].used >= discount[d].used
  BY <1>2, <1>4, UsesAreNat
<1>6. \A t \in TopUps : payments'[t] >= payments[t]
  BY <1>1 DEF TablesOK
<1>7. \A h \in Handlers : handler'[h].pc \in AfterPay => payments'[handler'[h].topup] > 0
  BY <1>1 DEF BonusInv
<1> QED
  BY <1>1, <1>5, <1>6, <1>7, Quieter

\* Every step keeps the accounts of bonuses and uses.
LEMMA BonusStep ==
  ASSUME FiniteHandlers, NoDeletes, TablesOK, TablesOK', BonusInv, [Next]_vars
  PROVE  BonusInv'
<1>0. \A t \in TopUps : payments[t] \in Nat /\ payments[t] >= payments[t]
  BY DEF TablesOK
<1>1. CASE UNCHANGED <<discount, redemptions, bonuses, payments, handler>>
  <2>1. \A c \in Codes : discount[c].exists =>
                           discount'[c].exists /\ discount'[c].used >= discount[c].used
    BY <1>1, UsesAreNat
  <2>2. \A h \in Handlers : handler'[h].pc \in AfterPay => payments'[handler'[h].topup] > 0
    BY <1>1 DEF BonusInv
  <2> QED
    BY <1>0, <1>1, <2>1, <2>2, Quieter
<1>2. ASSUME NEW h \in Handlers, NEW t \in TopUps, Begin(h, t) PROVE BonusInv'
  <2>1. PICK pc, c : pc \in PlainSteps \cup {"code"} /\ Load(h, t, pc, c)
    BY <1>2 DEF Begin, ApproveLoad, RejectLoad, ReceiptLoad, CodeLoad, PlainSteps
  <2>2. /\ UNCHANGED <<discount, redemptions, bonuses, payments>>
        /\ \A g \in Handlers : g # h => handler'[g] = handler[g]
        /\ handler'[h].pc = pc
    BY <2>1 DEF Load, shop, TablesOK
  <2>3. pc \notin AfterPay /\ pc \notin {"record", "bonus"}
    BY <2>1 DEF AfterPay, PlainSteps
  <2> QED
    BY <1>0, <2>2, <2>3, QuietMove
<1>3. ASSUME NEW h \in Handlers, Finish(h), UNCHANGED <<discount, redemptions, bonuses, payments>>
      PROVE  BonusInv'
  <2>1. /\ handler'[h].pc = "idle"
        /\ \A g \in Handlers : g # h => handler'[g] = handler[g]
    BY <1>3 DEF Finish, TablesOK, Idle
  <2>2. "idle" \notin AfterPay
    BY DEF AfterPay
  <2> QED
    BY <1>0, <1>3, <2>1, <2>2, QuietMove
<1>4. ASSUME NEW h \in Handlers, ApproveMark(h) PROVE BonusInv'
  <2>1. UNCHANGED <<discount, redemptions, bonuses, payments>> /\ handler[h].pc # "idle"
    BY <1>4 DEF ApproveMark, At
  <2>2. CASE Goto(h, "credit")
    <3>1. /\ handler'[h].pc = "credit"
          /\ \A g \in Handlers : g # h => handler'[g] = handler[g]
      BY <2>1, <2>2, GoingOn
    <3>2. "credit" \notin AfterPay
      BY DEF AfterPay
    <3> QED
      BY <1>0, <2>1, <3>1, <3>2, QuietMove
  <2> QED
    BY <1>3, <1>4, <2>1, <2>2 DEF ApproveMark
<1>5. ASSUME NEW h \in Handlers, ApproveCredit(h) PROVE BonusInv'
  <2>0. PICK t : t = handler[h].topup
    OBVIOUS
  <2>1. /\ handler[h].pc # "idle" /\ handler[h].pc = "credit" /\ t \in TopUps
        /\ UNCHANGED <<discount, redemptions, bonuses>>
    BY <1>5, <2>0, Holding DEF ApproveCredit, At
  <2>2. /\ \A x \in TopUps : payments'[x] >= payments[x]
        /\ payments'[t] > 0
    BY <1>0, <1>5, <2>0, <2>1 DEF ApproveCredit, TablesOK
  <2>3. /\ handler'[h].pc \in {"idle", "validate"}
        /\ handler'[h].pc \in AfterPay => handler'[h].topup = t
        /\ \A g \in Handlers : g # h => handler'[g] = handler[g]
    <3>1. CASE Finish(h)
      BY <3>1 DEF Finish, TablesOK, Idle, AfterPay
    <3>2. CASE Goto(h, "validate")
      BY <2>0, <2>1, <3>2, GoingOn
    <3> QED
      BY <1>5, <3>1, <3>2 DEF ApproveCredit
  <2> QED
    BY <2>1, <2>2, <2>3, QuietMove
<1>6. ASSUME NEW h \in Handlers, RedeemValidate(h) PROVE BonusInv'
  <2>1. UNCHANGED <<discount, redemptions, bonuses, payments>> /\ handler[h].pc = "validate"
    BY <1>6 DEF RedeemValidate, At, shop
  <2>2. ASSUME NEW i, handler' = [handler EXCEPT ![h].pc = "claim", ![h].id = i]
        PROVE  BonusInv'
    <3>1. handler[h] \in InCall /\ payments[handler[h].topup] > 0
      BY <2>1, Holding DEF BonusInv, AfterPay
    <3>2. /\ handler'[h].pc = "claim" /\ handler'[h].topup = handler[h].topup
          /\ \A g \in Handlers : g # h => handler'[g] = handler[g]
      BY <2>2, <3>1 DEF TablesOK, InCall
    <3> QED
      BY <1>0, <2>1, <3>1, <3>2, QuietMove
  <2> QED
    BY <1>3, <1>6, <2>1, <2>2 DEF RedeemValidate
<1>7. ASSUME NEW h \in Handlers, RedeemClaim(h) PROVE BonusInv'
  <2>1. CASE Finish(h) /\ UNCHANGED discount
    BY <1>3, <1>7, <2>1 DEF RedeemClaim
  <2>2. ASSUME NEW c, c = handler[h].code, discount[c].exists, Goto(h, "record"),
               discount' = [discount EXCEPT ![c].used = @ + 1]
        PROVE  BonusInv'
    BY <1>7, <2>2, ClaimCounts
  <2> QED
    BY <1>7, <2>1, <2>2 DEF RedeemClaim
<1>8. ASSUME NEW h \in Handlers,
             StampBonus(h) \/ RejectWrite(h) \/ ReceiptWrite(h) \/ CodeWrite(h)
      PROVE  BonusInv'
  BY <1>3, <1>8 DEF StampBonus, RejectWrite, ReceiptWrite, CodeWrite
<1>9. ASSUME NEW h \in Handlers, Fail(h) PROVE BonusInv'
  <2>1. UNCHANGED <<discount, redemptions, bonuses, payments>>
    BY <1>9 DEF Fail, shop
  <2>2. CASE At(h, "bonus") /\ Goto(h, "stamp")
    <3>1. /\ handler'[h].pc = "stamp" /\ handler'[h].topup = handler[h].topup
          /\ \A g \in Handlers : g # h => handler'[g] = handler[g]
      BY <2>2, GoingOn DEF At
    <3>2. payments[handler[h].topup] > 0
      BY <2>2 DEF BonusInv, At, AfterPay
    <3> QED
      BY <1>0, <2>1, <3>1, <3>2, QuietMove
  <2> QED
    BY <1>3, <1>9, <2>1, <2>2 DEF Fail
<1>10. CASE Crash
  <2>1. \A h \in Handlers : handler'[h].pc = "idle"
    BY <1>10 DEF Crash, Idle
  <2>2. UNCHANGED <<discount, redemptions, bonuses, payments>>
    BY <1>10 DEF Crash, shop
  <2>3. \A c \in Codes : discount[c].exists =>
                           discount'[c].exists /\ discount'[c].used >= discount[c].used
    BY <2>2, UsesAreNat
  <2> QED
    BY <1>0, <2>1, <2>2, <2>3, Quieter DEF AfterPay
<1>11. ASSUME NEW h \in Handlers, Continue(h) PROVE BonusInv'
  BY <1>4, <1>5, <1>6, <1>7, <1>8, <1>11, RecordCounts, GrantCounts DEF Continue
<1>12. ASSUME NEW t \in TopUps, NEW u \in Users, NEW a \in Amounts, RequestTopUp(t, u, a)
       PROVE  BonusInv'
  BY <1>1, <1>12 DEF RequestTopUp
<1> QED
  BY <1>1, <1>2, <1>9, <1>10, <1>11, <1>12, ManageQuiet DEF Next, Serve, vars, shop

\* However approvals, receipts, rejections, failures and restarts interleave, a bonus is
\* credited for a recorded redemption of a paid request only, and each redemption took one
\* of the uses of its code: for any number of goroutines, wherever codes are not deleted.
THEOREM BonusesAreExplained ==
  ASSUME FiniteHandlers, NoDeletes PROVE Spec => []BonusExplained
<1>1. Init => BonusInv
  <2> SUFFICES ASSUME Init PROVE BonusInv
    OBVIOUS
  <2>1. DOMAIN redemptions = {} /\ \A h \in Handlers : handler[h].pc = "idle"
    BY DEF Init, Idle
  <2>2. /\ \A t : Rewarded(t) = {} /\ Granters(t) = {}
        /\ \A c : RedeemedBy(c) = {} /\ Recorders(c) = {}
    BY <2>1 DEF Rewarded, Granters, RedeemedBy, Recorders
  <2>3. Cardinality({}) = 0
    BY FS_EmptySet
  <2>4. /\ \A c \in Codes : ~discount[c].exists
        /\ \A t \in TopUps : bonuses[t] + 0 <= 0
    BY DEF Init
  <2>5. \A h \in Handlers : handler[h].pc \notin AfterPay
    BY <2>1 DEF AfterPay
  <2> QED
    BY <2>2, <2>3, <2>4, <2>5 DEF BonusInv
<1>2. TablesOK /\ BonusInv => BonusExplained
  <2> SUFFICES ASSUME TablesOK, BonusInv PROVE BonusExplained
    OBVIOUS
  <2>1. ASSUME NEW t \in TopUps PROVE bonuses[t] <= Cardinality(Rewarded(t))
    BY Counted DEF BonusInv, TablesOK
  <2>2. ASSUME NEW c \in Codes, discount[c].exists
        PROVE  Cardinality(RedeemedBy(c)) <= discount[c].used
    <3>1. discount[c].used \in Nat
      BY <2>2 DEF TablesOK, CodeRows, LiveCodes
    <3> QED
      BY <2>2, <3>1, Counted DEF BonusInv
  <2> QED
    BY <2>1, <2>2 DEF BonusExplained, BonusInv, RedeemedBy
<1>3. TablesOK /\ TablesOK' /\ BonusInv /\ [Next]_vars => BonusInv'
  BY BonusStep
<1> QED
  BY <1>1, <1>2, <1>3, TablesTyped, PTL DEF Spec
-----------------------------------------------------------------------------
\* The safety half of "an approved request is credited in the end": an approval that is
\* not paid yet is in somebody's hands, or was cut off before its credit.
InHand ==
  \A t \in TopUps : topup[t].status = "approved" /\ payments[t] = 0 =>
    t \in dropped \/ \E h \in Handlers : Owing(h, t)

\* Only approving makes a debt, and only crediting ends a goroutine's duty to pay it.
LEMMA StillInHand ==
  ASSUME InHand, UNCHANGED payments, dropped \subseteq dropped',
         \A t \in TopUps : topup'[t].status = "approved" => topup[t].status = "approved",
         \A h \in Handlers, t \in TopUps : Owing(h, t) => Owing(h, t)'
  PROVE  InHand'
BY DEF InHand

\* A goroutine that owes nothing may move as it likes.
LEMMA OthersStillOwe ==
  ASSUME TablesOK, NEW h \in Handlers, ~At(h, "credit"),
         NEW new, handler' = [handler EXCEPT ![h] = new]
  PROVE  \A g \in Handlers, t \in TopUps : Owing(g, t) => Owing(g, t)'
<1>1. \A g \in Handlers : g # h => handler'[g] = handler[g]
  BY DEF TablesOK
<1> QED
  BY <1>1 DEF Owing, At

\* Of the statements of a call, only the mark approves a request.
LEMMA OnlyMarkApproves ==
  ASSUME TablesOK, NEW h \in Handlers, Continue(h), ~ApproveMark(h)
  PROVE  \A t \in TopUps : topup'[t].status = "approved" => topup[t].status = "approved"
<1> DEFINE x == handler[h].topup
<1>1. CASE UNCHANGED topup
  BY <1>1
<1>2. CASE ~UNCHANGED topup
  <2>1. StampBonus(h) \/ RejectWrite(h) \/ ReceiptWrite(h) \/ CodeWrite(h)
    BY <1>2 DEF Continue, ApproveCredit, RedeemValidate, RedeemClaim, RedeemRecord,
                CreditBonus, shop
  <2>2. /\ x \in TopUps /\ topup[x] \in Rows /\ topup[x].status # "none"
    BY <2>1, Holding DEF StampBonus, RejectWrite, ReceiptWrite, CodeWrite, At
  <2>3. ASSUME NEW s \in {"rejected", "review"}, SetStatus(x, s)
        PROVE  \A t \in TopUps :
                 topup'[t].status = "approved" => topup[t].status = "approved"
    BY <2>2, <2>3, StatusType DEF Statuses
  <2>4. ASSUME NEW row, topup' = [topup EXCEPT ![x] = row], row.status = topup[x].status
        PROVE  \A t \in TopUps :
                 topup'[t].status = "approved" => topup[t].status = "approved"
    BY <2>2, <2>4 DEF TablesOK
  <2>5. \A v : /\ [topup[x] EXCEPT !.bonus = v].status = topup[x].status
               /\ [topup[x] EXCEPT !.code = v].status = topup[x].status
    BY <2>2 DEF Rows
  <2> QED
    BY <2>1, <2>3, <2>4, <2>5 DEF StampBonus, RejectWrite, ReceiptWrite, CodeWrite
<1> QED
  BY <1>1, <1>2

\* A goroutine that is not about to credit only replaces its own entry.
LEMMA MovesAlone ==
  ASSUME TablesOK, NEW h \in Handlers, Continue(h), ~ApproveCredit(h)
  PROVE  /\ ~At(h, "credit") /\ UNCHANGED payments
         /\ \E new : handler' = [handler EXCEPT ![h] = new]
<1>1. ~At(h, "credit") /\ UNCHANGED payments
  BY DEF Continue, ApproveMark, RedeemValidate, RedeemClaim, RedeemRecord, CreditBonus,
         StampBonus, RejectWrite, ReceiptWrite, CodeWrite, At, shop
<1>2. ASSUME NEW i, handler' = [handler EXCEPT ![h].pc = "claim", ![h].id = i]
      PROVE  \E new : handler' = [handler EXCEPT ![h] = new]
  <2>1. handler' = [handler EXCEPT ![h] = [handler[h] EXCEPT !.pc = "claim", !.id = i]]
    BY <1>2 DEF TablesOK
  <2> QED
    BY <2>1
<1>3. Finish(h) => \E new : handler' = [handler EXCEPT ![h] = new]
  BY DEF Finish
<1>4. \A pc : Goto(h, pc) => \E new : handler' = [handler EXCEPT ![h] = new]
  BY DEF Goto
<1>5. \E new : handler' = [handler EXCEPT ![h] = new]
  BY <1>2, <1>3, <1>4
     DEF Continue, ApproveMark, RedeemValidate, RedeemClaim, RedeemRecord, CreditBonus,
         StampBonus, RejectWrite, ReceiptWrite, CodeWrite
<1> QED
  BY <1>1, <1>5

\* Every step keeps the debts in hand, or notes the one it drops.
LEMMA InHandStep == TablesOK /\ InHand /\ [Next]_vars => InHand'
<1> SUFFICES ASSUME TablesOK, InHand, [Next]_vars PROVE InHand'
  OBVIOUS
<1>0. dropped \subseteq dropped'
  BY DEF Next, Crash, Fail, vars
<1>1. CASE UNCHANGED <<topup, payments, handler>>
  BY <1>0, <1>1 DEF InHand, Owing, At
<1>2. ASSUME NEW t \in TopUps, NEW u \in Users, NEW a \in Amounts, RequestTopUp(t, u, a)
      PROVE  InHand'
  <2>1. /\ \A x \in TopUps : x # t => topup'[x] = topup[x]
        /\ topup'[t].status = "pending" /\ UNCHANGED <<payments, handler>>
    BY <1>2 DEF RequestTopUp, TablesOK
  <2> QED
    BY <1>0, <2>1, StillInHand DEF Owing, At
<1>3. ASSUME NEW h \in Handlers, NEW t \in TopUps, Begin(h, t) PROVE InHand'
  <2>1. PICK pc, c : Load(h, t, pc, c)
    BY <1>3 DEF Begin, ApproveLoad, RejectLoad, ReceiptLoad, CodeLoad
  <2> DEFINE new == [pc |-> pc, topup |-> t, code |-> c, id |-> 0]
  <2>2. handler' = [handler EXCEPT ![h] = new] /\ UNCHANGED <<topup, payments>>
    BY <2>1 DEF Load, shop
  <2>3. ~At(h, "credit")
    BY <2>1 DEF Load, At, Idle
  <2> HIDE DEF new
  <2> QED
    BY <1>0, <2>2, <2>3, OthersStillOwe, StillInHand
<1>4. ASSUME NEW h \in Handlers, ApproveMark(h) PROVE InHand'
  <2>1. PICK t \in TopUps :
          t = handler[h].topup /\ topup[t].status # "none" /\ handler[h] \in InCall
    BY <1>4, Holding DEF ApproveMark, At
  <2>2. PICK new : handler' = [handler EXCEPT ![h] = new]
    BY <1>4, MovesAlone DEF ApproveCredit, ApproveMark, At, Continue
  <2>3. ~At(h, "credit") /\ UNCHANGED payments
    BY <1>4 DEF ApproveMark, At
  <2>4. \A g \in Handlers, x \in TopUps : Owing(g, x) => Owing(g, x)'
    BY <2>2, <2>3, OthersStillOwe
  <2>5. CASE topup[t].status = "approved"
    BY <1>0, <1>4, <2>1, <2>3, <2>4, <2>5, StillInHand DEF ApproveMark
  <2>6. CASE topup[t].status # "approved"
    <3>1. Goto(h, "credit") /\ SetStatus(t, "approved")
      BY <1>4, <2>1, <2>6 DEF ApproveMark
    <3>2. \A x \in TopUps : x # t => topup'[x] = topup[x]
      BY <3>1, <2>1, StatusType DEF Statuses
    <3>3. Owing(h, t)'
      BY <3>1, <2>1 DEF Goto, TablesOK, InCall, Owing, At
    <3>4. ASSUME NEW x \in TopUps, topup'[x].status = "approved", payments'[x] = 0
          PROVE  x \in dropped' \/ \E g \in Handlers : Owing(g, x)'
      <4>1. CASE x = t
        BY <3>3, <4>1
      <4>2. CASE x # t
        <5>1. x \in dropped \/ \E g \in Handlers : Owing(g, x)
          BY <2>3, <3>2, <3>4, <4>2 DEF InHand
        <5> QED
          BY <1>0, <2>4, <5>1
      <4> QED
        BY <4>1, <4>2
    <3> QED
      BY <3>4 DEF InHand
  <2> QED
    BY <2>5, <2>6
<1>5. ASSUME NEW h \in Handlers, ApproveCredit(h) PROVE InHand'
  <2> DEFINE t == handler[h].topup
  <2>1. t \in TopUps /\ handler[h] \in InCall
    BY <1>5, Holding DEF ApproveCredit, At
  <2>2. /\ payments'[t] > 0
        /\ \A x \in TopUps : x # t => payments'[x] = payments[x]
        /\ UNCHANGED topup
    BY <1>5, <2>1 DEF ApproveCredit, TablesOK
  <2>3. \A g \in Handlers : g # h => handler'[g] = handler[g]
    BY <1>5 DEF ApproveCredit, Finish, Goto, TablesOK
  <2>4. \A g \in Handlers, x \in TopUps : x # t /\ Owing(g, x) => Owing(g, x)'
    BY <2>3 DEF Owing, At
  <2> QED
    BY <1>0, <2>1, <2>2, <2>4 DEF InHand
<1>6. ASSUME NEW h \in Handlers, Continue(h), ~ApproveMark(h), ~ApproveCredit(h)
      PROVE  InHand'
  BY <1>0, <1>6, MovesAlone, OthersStillOwe, OnlyMarkApproves, StillInHand
<1>7. ASSUME NEW h \in Handlers, Fail(h) PROVE InHand'
  <2>1. /\ UNCHANGED <<topup, payments>>
        /\ \A t \in TopUps : Owing(h, t) => t \in dropped'
        /\ \A g \in Handlers : g # h => handler'[g] = handler[g]
    BY <1>7 DEF Fail, Finish, Goto, shop, TablesOK
  <2> QED
    BY <1>0, <2>1 DEF InHand, Owing, At
<1>8. CASE Crash
  <2>1. /\ UNCHANGED <<topup, payments>>
        /\ \A t \in TopUps : (\E h \in Handlers : Owing(h, t)) => t \in dropped'
    BY <1>8 DEF Crash, shop
  <2> QED
    BY <1>0, <2>1 DEF InHand
<1> QED
  BY <1>1, <1>2, <1>3, <1>4, <1>5, <1>6, <1>7, <1>8
     DEF Next, Serve, Manage, CreateDiscount, SetDiscountEnabled, DeleteDiscount, Expire,
         SetCode, vars, shop

\* A request that is approved and not paid has a goroutine about to pay it, or an error or
\* a restart hit between its mark and its credit: receipts, rejections and other failures
\* that interleave lose no payment.  With the scheduling of that goroutine this is what
\* makes every other approval paid in the end.
THEOREM ApprovalsAreInHand == Spec => []InHand
<1>1. Init => InHand
  BY DEF Init, InHand
<1> QED
  BY <1>1, TablesTyped, InHandStep, PTL DEF Spec
=============================================================================
