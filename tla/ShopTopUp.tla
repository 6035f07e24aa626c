------------------------------ MODULE ShopTopUp ------------------------------
(***************************************************************************)
(* Wallet top-ups and discount codes of the Telegram shop (ShopService).   *)
(*                                                                         *)
(* A handler is one goroutine of the sales bot or of the web panel inside  *)
(* one service call.  Every statement the call sends to the database is a  *)
(* step of its own, so the steps of two calls interleave; only `credit` is *)
(* one step, as WalletLedger shows it is on SQLite.  A panel that dies     *)
(* takes every call in progress with it and keeps what was committed.      *)
(***************************************************************************)
EXTENDS Wallet, FiniteSets, Sequences

CONSTANTS
  Users, TopUps, Codes, NoCode,
  Handlers,            \* goroutines that may be inside a call at once
  Calls,               \* the service calls that are made in this instance
  MinTopUp, MaxTopUp,  \* settings shopMinTopUp, shopMaxTopUp; 0 = no bound
  Amounts,             \* amounts a buyer may type
  Percent, MaxBonus, MaxUses,   \* how every code is set up; 0 = no limit
  MaxCalls             \* bound on the calls made

ASSUME NoCodeAssumption == NoCode \notin Codes
ASSUME LimitsAssumption ==
  /\ {MinTopUp, MaxTopUp, MaxBonus, MaxUses, MaxCalls} \subseteq Nat
  /\ Percent \in 1 .. 100
  /\ Amounts \subseteq Int

VARIABLES
  topup,        \* wallet_topups: owner, amount, status, code, bonus
  discount,     \* discount_codes: exists, enabled, expired, used
  redemptions,  \* discount_redemptions, oldest first
  wallet,       \* bot_users: the wallet of each user
  payments,     \* ghost: how often each top-up's amount was credited
  bonuses,      \* ghost: how often each top-up's bonus was credited
  handler,      \* where each goroutine is, and the rows it has read
  calls,        \* calls made so far
  dropped       \* ghost: requests whose approval was cut off before the credit

shop == <<topup, discount, redemptions, wallet, payments, bonuses>>
vars == <<shop, handler, calls, dropped>>

Idle == [pc |-> "idle"]

AllCalls == {"request", "code", "receipt", "approve", "reject",
             "create", "enable", "disable", "delete"}

ASSUME CallsAssumption == Calls \subseteq AllCalls

Init ==
  /\ topup = [t \in TopUps |-> [status |-> "none"]]
  /\ discount = [c \in Codes |-> [exists |-> FALSE, id |-> 0]]
  /\ redemptions = <<>>
  /\ wallet = [u \in Users |-> EmptyWallet]
  /\ payments = [t \in TopUps |-> 0]
  /\ bonuses = [t \in TopUps |-> 0]
  /\ handler = [h \in Handlers |-> Idle]
  /\ calls = 0
  /\ dropped = {}

-----------------------------------------------------------------------------
\* Calls that are one statement, and the first statement of the others.

Call(name) ==
  /\ name \in Calls
  /\ calls < MaxCalls
  /\ calls' = calls + 1

Open(t) == topup[t].status \in {"pending", "review"}

\* RequestTopUp: an amount within the configured bounds opens a request.
InBounds(a) ==
  /\ a > 0
  /\ MinTopUp > 0 => a >= MinTopUp
  /\ MaxTopUp > 0 => a <= MaxTopUp

RequestTopUp(t, u, a) ==
  /\ Call("request")
  /\ topup[t].status = "none"
  /\ InBounds(a)
  /\ topup' = [topup EXCEPT ![t] =
       [status |-> "pending", owner |-> u, amount |-> a, code |-> NoCode, bonus |-> 0]]
  /\ UNCHANGED <<discount, redemptions, wallet, payments, bonuses, handler>>

Redeemed(c, u) ==
  {i \in DOMAIN redemptions : redemptions[i].code = c /\ redemptions[i].user = u}

\* ValidateDiscount: known, enabled, not expired, not used up, and not yet
\* redeemed by this user.
Valid(c, u) ==
  /\ discount[c].exists
  /\ discount[c].enabled
  /\ ~discount[c].expired
  /\ MaxUses > 0 => discount[c].used < MaxUses
  /\ Redeemed(c, u) = {}

\* DiscountBonus: a share of the amount, capped.
Bonus(amount) ==
  LET share == (amount * Percent) \div 100
  IN IF MaxBonus > 0 /\ share > MaxBonus THEN MaxBonus ELSE share

\* The first statement of a call reads its row and goes on at `pc`; the checks
\* of the call are made on what was read here.
Load(h, t, pc, c) ==
  /\ handler[h] = Idle
  /\ Open(t)
  /\ handler' = [handler EXCEPT ![h] = [pc |-> pc, topup |-> t, code |-> c, id |-> 0]]
  /\ UNCHANGED shop

ApproveLoad(h, t) == Call("approve") /\ Load(h, t, "mark", topup[t].code)

RejectLoad(h, t) == Call("reject") /\ Load(h, t, "reject", NoCode)

ReceiptLoad(h, t) == Call("receipt") /\ Load(h, t, "receipt", NoCode)

\* The bot validates a typed code before it attaches it.
CodeLoad(h, t, c) ==
  /\ Call("code")
  /\ Load(h, t, "code", c)
  /\ Valid(c, topup[t].owner)

-----------------------------------------------------------------------------
\* The later statements of a call.

At(h, pc) == handler[h].pc = pc
Goto(h, pc) == handler' = [handler EXCEPT ![h].pc = pc]
Finish(h) == handler' = [handler EXCEPT ![h] = Idle]
SetStatus(t, status) == topup' = [topup EXCEPT ![t].status = status]

\* The goroutine that moved the request to approved and has yet to credit it.
Owing(h, t) == At(h, "credit") /\ handler[h].topup = t

\* Faulty variants of ApproveMark: every approval that read an open row pays; the
\* row is not marked; a marked row is not credited.
MarkUnconditionally(h) ==
  /\ At(h, "mark")
  /\ Goto(h, "credit")
  /\ SetStatus(handler[h].topup, "approved")
  /\ UNCHANGED <<discount, redemptions, wallet, payments, bonuses, calls>>
CreditUnmarked(h) ==
  /\ At(h, "mark")
  /\ Goto(h, "credit")
  /\ UNCHANGED <<shop, calls>>
MarkOnly(h) ==
  /\ At(h, "mark")
  /\ Finish(h)
  /\ SetStatus(handler[h].topup, "approved")
  /\ UNCHANGED <<discount, redemptions, wallet, payments, bonuses, calls>>

\* ApproveTopUp: UPDATE ... WHERE status <> 'approved'; whoever changes no row
\* gives up.
ApproveMark(h) ==
  /\ At(h, "mark")
  /\ LET t == handler[h].topup IN
       IF topup[t].status = "approved"
       THEN Finish(h) /\ UNCHANGED topup
       ELSE Goto(h, "credit") /\ SetStatus(t, "approved")
  /\ UNCHANGED <<discount, redemptions, wallet, payments, bonuses, calls>>

ApproveCredit(h) ==
  /\ At(h, "credit")
  /\ LET t == handler[h].topup
         u == topup[t].owner
     IN /\ wallet' = [wallet EXCEPT ![u] = Credited(@, topup[t].amount, "topup")]
        /\ payments' = [payments EXCEPT ![t] = @ + 1]
  /\ IF handler[h].code = NoCode THEN Finish(h) ELSE Goto(h, "validate")
  /\ UNCHANGED <<topup, discount, redemptions, bonuses, calls>>

\* redeemDiscount: a code that is no longer valid, or worth nothing on this
\* amount, grants nothing.
RedeemValidate(h) ==
  /\ At(h, "validate")
  /\ LET row == topup[handler[h].topup] IN
       IF Valid(handler[h].code, row.owner) /\ Bonus(row.amount) > 0
       THEN handler' = [handler EXCEPT ![h].pc = "claim",
                                       ![h].id = discount[handler[h].code].id]
       ELSE Finish(h)
  /\ UNCHANGED <<shop, calls>>

\* Faulty variants of RedeemClaim: the limit was only checked by the validation;
\* the redemption is not recorded.
ClaimUnconditionally(h) ==
  /\ At(h, "claim")
  /\ discount[handler[h].code].exists
  /\ Goto(h, "record")
  /\ discount' = [discount EXCEPT ![handler[h].code].used = @ + 1]
  /\ UNCHANGED <<topup, redemptions, wallet, payments, bonuses, calls>>
ClaimUnrecorded(h) ==
  /\ At(h, "claim")
  /\ Goto(h, "bonus")
  /\ UNCHANGED <<shop, calls>>

\* A use is claimed under a condition: UPDATE ... SET used = used + 1 WHERE
\* id = ? AND used < max_uses; it changes no row when that row is gone.
RedeemClaim(h) ==
  /\ At(h, "claim")
  /\ LET c == handler[h].code IN
       IF /\ discount[c].exists
          /\ discount[c].id = handler[h].id
          /\ MaxUses > 0 => discount[c].used < MaxUses
       THEN Goto(h, "record") /\ discount' = [discount EXCEPT ![c].used = @ + 1]
       ELSE Finish(h) /\ UNCHANGED discount
  /\ UNCHANGED <<topup, redemptions, wallet, payments, bonuses, calls>>

RedeemRecord(h) ==
  /\ At(h, "record")
  /\ LET t == handler[h].topup IN
       redemptions' = Append(redemptions,
         [code |-> handler[h].code, user |-> topup[t].owner, topup |-> t])
  /\ Goto(h, "bonus")
  /\ UNCHANGED <<topup, discount, wallet, payments, bonuses, calls>>

CreditBonus(h) ==
  /\ At(h, "bonus")
  /\ LET t == handler[h].topup
         u == topup[t].owner
     IN /\ wallet' = [wallet EXCEPT ![u] = Credited(@, Bonus(topup[t].amount), "bonus")]
        /\ bonuses' = [bonuses EXCEPT ![t] = @ + 1]
  /\ Goto(h, "stamp")
  /\ UNCHANGED <<topup, discount, redemptions, payments, calls>>

StampBonus(h) ==
  /\ At(h, "stamp")
  /\ LET t == handler[h].topup IN
       topup' = [topup EXCEPT ![t].bonus = Bonus(topup[t].amount)]
  /\ Finish(h)
  /\ UNCHANGED <<discount, redemptions, wallet, payments, bonuses, calls>>

\* RejectTopUp, AttachTopUpReceipt and AttachDiscountCode write by id alone:
\* whatever the row has become since they read it.
RejectWrite(h) ==
  /\ At(h, "reject")
  /\ SetStatus(handler[h].topup, "rejected")
  /\ Finish(h)
  /\ UNCHANGED <<discount, redemptions, wallet, payments, bonuses, calls>>

ReceiptWrite(h) ==
  /\ At(h, "receipt")
  /\ SetStatus(handler[h].topup, "review")
  /\ Finish(h)
  /\ UNCHANGED <<discount, redemptions, wallet, payments, bonuses, calls>>

CodeWrite(h) ==
  /\ At(h, "code")
  /\ topup' = [topup EXCEPT ![handler[h].topup].code = handler[h].code]
  /\ Finish(h)
  /\ UNCHANGED <<discount, redemptions, wallet, payments, bonuses, calls>>

-----------------------------------------------------------------------------
\* The admin's codes.  A code that is deleted and created again is a new row with
\* no uses; its redemptions stay.

SetCode(c, row) ==
  /\ discount' = [discount EXCEPT ![c] = row]
  /\ UNCHANGED <<topup, redemptions, wallet, payments, bonuses, handler>>

CreateDiscount(c) ==
  /\ Call("create")
  /\ ~discount[c].exists
  /\ SetCode(c, [exists |-> TRUE, id |-> discount[c].id + 1,
                enabled |-> TRUE, expired |-> FALSE, used |-> 0])

SetDiscountEnabled(c, on) ==
  /\ Call(IF on THEN "enable" ELSE "disable")
  /\ discount[c].exists
  /\ SetCode(c, [discount[c] EXCEPT !.enabled = on])

DeleteDiscount(c) ==
  /\ Call("delete")
  /\ discount[c].exists
  /\ SetCode(c, [exists |-> FALSE, id |-> discount[c].id])

\* The clock passes expires_at.
Expire(c) ==
  /\ discount[c].exists
  /\ SetCode(c, [discount[c] EXCEPT !.expired = TRUE])
  /\ UNCHANGED calls

\* A statement of a call returns an error.  The call gives up, except that the
\* bonus is stamped on the request although crediting it failed.  The mark of a
\* request stays although its credit failed.
Fail(h) ==
  /\ handler[h] # Idle
  /\ IF At(h, "bonus") THEN Goto(h, "stamp") ELSE Finish(h)
  /\ dropped' = dropped \cup {t \in TopUps : Owing(h, t)}
  /\ UNCHANGED <<shop, calls>>

\* The panel dies or restarts: the calls in progress are gone.
Crash ==
  /\ \E h \in Handlers : handler[h] # Idle
  /\ handler' = [h \in Handlers |-> Idle]
  /\ dropped' = dropped \cup {t \in TopUps : \E h \in Handlers : Owing(h, t)}
  /\ UNCHANGED <<shop, calls>>

-----------------------------------------------------------------------------

Begin(h, t) ==
  \/ ApproveLoad(h, t)
  \/ RejectLoad(h, t)
  \/ ReceiptLoad(h, t)
  \/ \E c \in Codes : CodeLoad(h, t, c)

Continue(h) ==
  \/ ApproveMark(h)
  \/ ApproveCredit(h)
  \/ RedeemValidate(h)
  \/ RedeemClaim(h)
  \/ RedeemRecord(h)
  \/ CreditBonus(h)
  \/ StampBonus(h)
  \/ RejectWrite(h)
  \/ ReceiptWrite(h)
  \/ CodeWrite(h)

Manage(c) ==
  \/ CreateDiscount(c)
  \/ \E on \in BOOLEAN : SetDiscountEnabled(c, on)
  \/ DeleteDiscount(c)
  \/ Expire(c)

Serve ==
  \/ \E t \in TopUps, u \in Users, a \in Amounts : RequestTopUp(t, u, a)
  \/ \E h \in Handlers, t \in TopUps : Begin(h, t)
  \/ \E h \in Handlers : Continue(h)
  \/ \E c \in Codes : Manage(c)

\* A statement may fail, and the panel may die, at any time.
Next == (Serve /\ UNCHANGED dropped) \/ Crash \/ \E h \in Handlers : Fail(h)

Spec == Init /\ [][Next]_vars

\* A goroutine in a call is scheduled until it returns, fails or dies.
FairSpec ==
  Spec /\ \A h \in Handlers : WF_vars(Continue(h) /\ UNCHANGED dropped)

-----------------------------------------------------------------------------

Statuses == {"pending", "review", "approved", "rejected"}

Rows == [status : Statuses, owner : Users, amount : Nat \ {0},
         code : Codes \cup {NoCode}, bonus : Nat]

LiveCodes ==
  [exists : {TRUE}, id : Nat, enabled : BOOLEAN, expired : BOOLEAN, used : Nat]

CodeRows == LiveCodes \cup [exists : {FALSE}, id : Nat]

Redemptions == [code : Codes, user : Users, topup : TopUps]

Wallets == [balance : Int, paid : Int, spent : Int]

\* The places in a call that hold a code, and those that may hold none.
CodeSteps == {"validate", "claim", "record", "bonus", "stamp", "code"}
PlainSteps == {"mark", "credit", "reject", "receipt"}

InCall ==
  [pc : CodeSteps, topup : TopUps, code : Codes, id : Nat]
    \cup [pc : PlainSteps, topup : TopUps, code : Codes \cup {NoCode}, id : Nat]

\* The tables and the goroutines keep their types, and a call only holds a row that
\* exists.
TablesOK ==
  /\ topup \in [TopUps -> Rows \cup {[status |-> "none"]}]
  /\ discount \in [Codes -> CodeRows]
  /\ redemptions \in Seq(Redemptions)
  /\ wallet \in [Users -> Wallets]
  /\ payments \in [TopUps -> Nat]
  /\ bonuses \in [TopUps -> Nat]
  /\ handler \in [Handlers -> InCall \cup {Idle}]
  /\ calls \in Nat
  /\ \A h \in Handlers : handler[h] # Idle => topup[handler[h].topup].status # "none"

\* Every variable keeps its type.
TypeOK == TablesOK /\ dropped \subseteq TopUps

\* "Deciding twice is refused, so a double-tap on the approve button cannot pay
\* someone twice": ApproveTopUp credits a request at most once.
PaidOnce == \A t \in TopUps : payments[t] <= 1

\* The uses of a limited code are never exceeded, however approvals interleave.
UseLimit ==
  \A c \in Codes : discount[c].exists /\ MaxUses > 0 => discount[c].used <= MaxUses

Rewarded(t) == {i \in DOMAIN redemptions : redemptions[i].topup = t}

\* "A request that is never approved consumes nothing", and a bonus is only
\* ever credited for a recorded redemption of that request: a redemption
\* implies the payment it rewards, there are never more bonuses than
\* redemptions, and each redemption of an existing code took one of its uses
\* (checked where codes are not deleted: a new code of the same name starts
\* without uses, its redemptions stay).
BonusExplained ==
  /\ \A t \in TopUps :
       /\ Rewarded(t) # {} => payments[t] > 0
       /\ bonuses[t] <= Cardinality(Rewarded(t))
  /\ \A c \in Codes : discount[c].exists =>
       Cardinality({i \in DOMAIN redemptions : redemptions[i].code = c})
         <= discount[c].used

\* What an approval owes is settled: an approved request is credited in the end,
\* through every other failure and restart, unless one of them hit between the
\* statement that marked it and the one that credits it.
ApprovedIsPaid ==
  \A t \in TopUps :
    topup[t].status = "approved" ~> payments[t] > 0 \/ t \in dropped

\* One request at a time implements TopUpRequest.
DecisionOf(t) ==
  IF topup[t].status \in {"approved", "rejected"} THEN topup[t].status ELSE "open"

Request == INSTANCE TopUpRequest
             WITH decision <- [t \in TopUps |-> DecisionOf(t)]

ImplementsTopUpRequest == Request!Spec
=============================================================================
