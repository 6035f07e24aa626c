----------------------------- MODULE ShopBilling -----------------------------
(***************************************************************************)
(* Metered billing of the Telegram shop, and everything that decides       *)
(* whether a shop config works: BillAll and reconcileWallets, the owner    *)
(* pausing, creating and deleting a config, the wallet being filled, an    *)
(* admin blocking a user.                                                  *)
(*                                                                         *)
(* Billers are the goroutines that may run BillAll: the billing job, but   *)
(* also every web or bot handler that changed a wallet.  Owners are those  *)
(* serving a config's owner.  A call is a sequence of database statements, *)
(* each a step; `credit` is one step, as WalletLedger shows.               *)
(***************************************************************************)
EXTENDS Tariff, ClientSwitch, FiniteSets

CONSTANTS
  Users, OwnerOf,    \* who owns the config that goes by this name
  Billers, Owners,   \* the goroutines
  Calls, Faults,     \* the calls made, and what goes wrong, in this instance
  TopUpAmount,
  MaxMoved, MaxAge, MaxCalls   \* bounds: traffic, days, calls and faults

ASSUME OwnerAssumption == OwnerOf \in [Configs -> Users]
ASSUME CallersAssumption == Callers = Billers \cup Owners /\ Billers \cap Owners = {}
ASSUME CallsAssumption ==
  /\ Calls \subseteq {"topup", "block", "unblock", "pause", "resume", "create",
                      "delete", "reset"}
  /\ Faults \subseteq {"crash", "debit", "book", "client", "insert"}
  /\ {TopUpAmount, MaxMoved, MaxAge, MaxCalls} \subseteq Nat

VARIABLES
  balance, blocked,   \* bot_users
  row,                \* bot_configs: state, active, paused, charged
  used,               \* client_traffics: the meter of each config's client
  age,                \* full days since each config was created
  at,                 \* where each goroutine is
  calls,              \* calls made, and faults, so far
  moved,              \* ghost: traffic ever moved, which no reset forgets
  debited,            \* ghost: what each config has ever cost its owner
  orphans             \* ghost: clients that an error or a restart parted from a row

wallets == <<balance, blocked>>
world == <<used, age, moved, orphans>>
vars == <<wallets, row, world, at, calls, debited, client, switch>>

\* What a config is charged for.
Meters == {"traffic", "days"}
Nothing == [k \in Meters |-> 0]

NoRow == [state |-> "none", active |-> FALSE, paused |-> FALSE, charged |-> Nothing]
NewRow == [state |-> "live", active |-> TRUE, paused |-> FALSE, charged |-> Nothing]

Idle == [pc |-> "idle"]

Init ==
  /\ balance = [u \in Users |-> 0]
  /\ blocked = [u \in Users |-> FALSE]
  /\ row = [c \in Configs |-> NoRow]
  /\ used = [c \in Configs |-> 0]
  /\ age = [c \in Configs |-> 0]
  /\ at = [p \in Callers |-> Idle]
  /\ calls = 0
  /\ moved = [c \in Configs |-> 0]
  /\ debited = [c \in Configs |-> Nothing]
  /\ orphans = {}
  /\ SwitchInit

Live(c) == row[c].state = "live"
Funded(u) == balance[u] > 0 /\ ~blocked[u]

At(p, pc) == at[p].pc = pc
Goto(p, pc) == at' = [at EXCEPT ![p].pc = pc]
Finish(p) == at' = [at EXCEPT ![p] = Idle]

\* Calls and faults are counted together, and bounded.
Counted ==
  /\ calls < MaxCalls
  /\ calls' = calls + 1

Call(name) == name \in Calls /\ Counted
Fault(name) == name \in Faults /\ Counted

-----------------------------------------------------------------------------
\* One run of BillAll: every config is read, then every meter.

DayCost(days, active) == IF active THEN days * PricePerDay ELSE 0

\* Without prices, or without configs, the run returns at once.
StartRun(b) ==
  /\ at[b] = Idle
  /\ PricePerGB > 0 \/ PricePerDay > 0
  /\ \E c \in Configs : Live(c)
  /\ at' = [at EXCEPT ![b] = [pc |-> "meters", rows |-> row]]
  /\ UNCHANGED <<wallets, row, world, calls, debited, client, switch>>

\* What a config that is live has cost so far; one that is not is not billed.
CostOf(c, r) ==
  IF r.state = "live"
  THEN [traffic |-> TrafficCost(used[c]), days |-> DayCost(age[c], r.active)]
  ELSE r.charged

\* Faulty variant: the bill forgets what was charged before.
ReadMetersFromZero(b) ==
  /\ At(b, "meters")
  /\ at' = [at EXCEPT ![b] =
       [pc |-> "bill",
        bill |-> [c \in Configs |->
          [cost |-> CostOf(c, at[b].rows[c]), charged |-> Nothing]]]]
  /\ UNCHANGED <<wallets, row, world, calls, debited, client, switch>>

\* The cost of all a config has ever used, against what the row said was charged.
ReadMeters(b) ==
  /\ At(b, "meters")
  /\ at' = [at EXCEPT ![b] =
       [pc |-> "bill",
        bill |-> [c \in Configs |->
          [cost |-> CostOf(c, at[b].rows[c]), charged |-> at[b].rows[c].charged]]]]
  /\ UNCHANGED <<wallets, row, world, calls, debited, client, switch>>

\* What b's bill still has against a config.
Owed(b, c, k) == at[b].bill[c].cost[k] - at[b].bill[c].charged[k]

\* The item a run may debit now: a config's traffic before its days, and its days
\* before the next config.
Due(b, c, k) ==
  /\ at[b].pc \in {"bill", "days"}
  /\ Owed(b, c, k) > 0
  /\ k = "days" => Owed(b, c, "traffic") <= 0
  /\ At(b, "days") => c = at[b].item.config

\* Where the run goes on once an item of config c is dealt with.
AfterItem(b, c, k) ==
  IF k = "traffic" /\ Owed(b, c, "days") > 0 THEN "days" ELSE "bill"

\* credit(-owed): the wallet pays, the row does not know yet.
Debit(b, c, k) ==
  /\ Due(b, c, k)
  /\ balance' = [balance EXCEPT ![OwnerOf[c]] = @ - Owed(b, c, k)]
  /\ debited' = [debited EXCEPT ![c][k] = @ + Owed(b, c, k)]
  /\ at' = [at EXCEPT ![b] =
       [pc |-> "book", bill |-> @.bill, item |-> [config |-> c, meter |-> k]]]
  /\ UNCHANGED <<blocked, row, world, calls, client, switch>>

\* The debit fails: a config whose traffic cannot be charged is left to the next
\* run, rent included.
DebitFails(b, c, k) ==
  /\ Fault("debit")
  /\ Due(b, c, k)
  /\ LET now == at[b].bill[c]
         given_up == IF k = "traffic" THEN Meters ELSE {k}
     IN at' = [at EXCEPT ![b] =
          [pc |-> "bill",
           bill |-> [@.bill EXCEPT ![c].cost =
             [m \in Meters |-> IF m \in given_up THEN now.charged[m] ELSE now.cost[m]]]]]
  /\ UNCHANGED <<wallets, row, world, debited, client, switch>>

\* The item is settled on the bill, whether or not the row was told.
Settle(b) ==
  LET c == at[b].item.config
      k == at[b].item.meter
  IN at' = [at EXCEPT ![b] =
       [pc |-> AfterItem(b, c, k), item |-> @.item,
        bill |-> [@.bill EXCEPT ![c].charged[k] = at[b].bill[c].cost[k]]]]

\* Faulty variant: the row is told what was owed, not what the total is now.
BookOwed(b) ==
  /\ At(b, "book")
  /\ LET c == at[b].item.config
         k == at[b].item.meter
     IN row' = IF Live(c) THEN [row EXCEPT ![c].charged[k] = Owed(b, c, k)] ELSE row
  /\ Settle(b)
  /\ UNCHANGED <<wallets, world, calls, debited, client, switch>>

\* Faulty variant: the row is told what the meter says by now.
BookMeter(b) ==
  /\ At(b, "book")
  /\ LET c == at[b].item.config
         k == at[b].item.meter
     IN row' = IF Live(c)
               THEN [row EXCEPT ![c].charged[k] = CostOf(c, row[c])[k]]
               ELSE row
  /\ Settle(b)
  /\ UNCHANGED <<wallets, world, calls, debited, client, switch>>

\* UPDATE bot_configs SET charged_... = cost: nothing to update once the config is
\* deleted.
Book(b) ==
  /\ At(b, "book")
  /\ LET c == at[b].item.config
         k == at[b].item.meter
     IN row' = IF Live(c)
               THEN [row EXCEPT ![c].charged[k] = at[b].bill[c].cost[k]]
               ELSE row
  /\ Settle(b)
  /\ UNCHANGED <<wallets, world, calls, debited, client, switch>>

\* The update fails; its error is dropped.
BookFails(b) ==
  /\ Fault("book")
  /\ At(b, "book")
  /\ Settle(b)
  /\ UNCHANGED <<wallets, row, world, debited, client, switch>>

-----------------------------------------------------------------------------
\* The run ends in reconcileWallets: every wallet is read, then one user after the
\* other has the configs switched that are not as their wallet wants them.

ReadWallets(b) ==
  /\ At(b, "bill")
  /\ \A c \in Configs, k \in Meters : Owed(b, c, k) <= 0
  /\ at' = [at EXCEPT ![b] =
       [pc |-> "wallets", left |-> Users, jobs |-> {},
        funded |-> {u \in Users : Funded(u)}]]
  /\ UNCHANGED <<wallets, row, world, calls, debited, client, switch>>

Wanted(b, c) == OwnerOf[c] \in at[b].funded /\ ~row[c].paused

\* Faulty variant: funded wallets are not looked at.
ReadConfigsToCutOff(b, u) ==
  /\ At(b, "wallets") /\ at[b].jobs = {}
  /\ u \in at[b].left
  /\ LET mine == {c \in Configs : Live(c) /\ OwnerOf[c] = u /\ ~Wanted(b, c)} IN
       at' = [at EXCEPT ![b].left = @ \ {u},
                        ![b].jobs = {[config |-> c, active |-> FALSE] :
                                       c \in {d \in mine : row[d].active}}]
  /\ UNCHANGED <<wallets, row, world, calls, debited, client, switch>>

ReadConfigs(b, u) ==
  /\ At(b, "wallets") /\ at[b].jobs = {}
  /\ u \in at[b].left
  /\ LET mine == {c \in Configs : Live(c) /\ OwnerOf[c] = u} IN
       at' = [at EXCEPT ![b].left = @ \ {u},
                        ![b].jobs = {[config |-> c, active |-> Wanted(b, c)] :
                                       c \in {d \in mine : row[d].active # Wanted(b, d)}}]
  /\ UNCHANGED <<wallets, row, world, calls, debited, client, switch>>

OnOff(active) == IF active THEN "on" ELSE "off"

SwitchConfig(b) ==
  /\ At(b, "wallets")
  /\ \E job \in at[b].jobs :
       /\ Request(b, job.config, OnOff(job.active))
       /\ at' = [at EXCEPT ![b].pc = "switching", ![b].jobs = (@ \ {job})]
  /\ UNCHANGED <<wallets, row, world, calls, debited, client>>

\* Only a client that was switched has its row follow.
FollowSwitch(b) ==
  /\ At(b, "switching")
  /\ LET c == switch[b].config IN
       \/ /\ SwitchAt(b, "done")
          /\ row' = IF Live(c)
                    THEN [row EXCEPT ![c].active = (switch[b].want = "on")]
                    ELSE row
       \/ SwitchAt(b, "failed") /\ UNCHANGED row
  /\ switch' = [switch EXCEPT ![b] = NotSwitching]
  /\ Goto(b, "wallets")
  /\ UNCHANGED <<wallets, world, calls, debited, client>>

EndRun(b) ==
  /\ At(b, "wallets") /\ at[b].jobs = {} /\ at[b].left = {}
  /\ Finish(b)
  /\ UNCHANGED <<wallets, row, world, calls, debited, client, switch>>

-----------------------------------------------------------------------------
\* The owner's calls.

\* SetConfigPaused: resuming only takes effect if the wallet can pay.
PauseLoad(o, c, paused) ==
  /\ Call(IF paused THEN "pause" ELSE "resume")
  /\ at[o] = Idle
  /\ Live(c)
  /\ at' = [at EXCEPT ![o] =
       [pc |-> "pause", config |-> c, paused |-> paused,
        active |-> ~paused /\ Funded(OwnerOf[c])]]
  /\ UNCHANGED <<wallets, row, world, debited, client, switch>>

\* The intent is recorded first, then the client follows.
PauseWrite(o) ==
  /\ At(o, "pause")
  /\ LET c == at[o].config IN
       /\ row' = IF Live(c)
                 THEN [row EXCEPT ![c].paused = at[o].paused, ![c].active = at[o].active]
                 ELSE row
       /\ Request(o, c, OnOff(at[o].active))
  /\ Goto(o, "pausing")
  /\ UNCHANGED <<wallets, world, calls, debited, client>>

\* A client that could not be switched is only logged.
PauseReturn(o) ==
  /\ At(o, "pausing")
  /\ SwitchAt(o, "done") \/ SwitchAt(o, "failed")
  /\ switch' = [switch EXCEPT ![o] = NotSwitching]
  /\ Finish(o)
  /\ UNCHANGED <<wallets, row, world, calls, debited, client>>

\* CreateConfig: for an unblocked user with money, under a random name nobody else
\* has drawn; first the client, enabled, then the row.
Drawn(c) == \E o \in Owners : at[o].pc \in {"create", "insert"} /\ at[o].config = c

CreateCheck(o, c) ==
  /\ Call("create")
  /\ at[o] = Idle
  /\ row[c].state = "none" /\ client[c] = "none" /\ ~Drawn(c)
  /\ Funded(OwnerOf[c])
  /\ at' = [at EXCEPT ![o] = [pc |-> "create", config |-> c]]
  /\ UNCHANGED <<wallets, row, world, debited, client, switch>>

CreateClient(o) ==
  /\ At(o, "create")
  /\ LET c == at[o].config IN
       IF client[c] = "none"
       THEN client' = [client EXCEPT ![c] = "on"] /\ Goto(o, "insert")
       ELSE Finish(o) /\ UNCHANGED client
  /\ UNCHANGED <<wallets, row, world, calls, debited, switch>>

\* When the insert fails the client stays, enabled and without a row.
InsertConfig(o) ==
  /\ At(o, "insert")
  /\ LET c == at[o].config IN
       \/ row' = [row EXCEPT ![c] = NewRow] /\ UNCHANGED <<orphans, calls>>
       \/ Fault("insert") /\ orphans' = orphans \cup {c} /\ UNCHANGED row
  /\ Finish(o)
  /\ UNCHANGED <<wallets, used, age, moved, debited, client, switch>>

\* DeleteConfig: the client goes, its meter with it; then the row, even if the
\* client would not.
DeleteLoad(o, c) ==
  /\ Call("delete")
  /\ at[o] = Idle
  /\ Live(c)
  /\ at' = [at EXCEPT ![o] = [pc |-> "delete", config |-> c]]
  /\ UNCHANGED <<wallets, row, world, debited, client, switch>>

\* Faulty variant: the client is left behind.
DeleteClientLater(o) ==
  /\ At(o, "delete")
  /\ Goto(o, "forget")
  /\ UNCHANGED <<wallets, row, world, calls, debited, client, switch>>

DeleteClient(o) ==
  /\ At(o, "delete")
  /\ LET c == at[o].config IN
       \/ /\ client' = [client EXCEPT ![c] = "none"]
          /\ used' = [used EXCEPT ![c] = 0]
          /\ UNCHANGED <<orphans, calls>>
       \/ Fault("client") /\ orphans' = orphans \cup {c} /\ UNCHANGED <<client, used>>
  /\ Goto(o, "forget")
  /\ UNCHANGED <<wallets, row, age, moved, debited, switch>>

DeleteRow(o) ==
  /\ At(o, "forget")
  /\ row' = [row EXCEPT ![at[o].config].state = "deleted"]
  /\ Finish(o)
  /\ UNCHANGED <<wallets, world, calls, debited, client, switch>>

\* Wallets change in one statement.
TopUp(u) ==
  /\ Call("topup")
  /\ balance' = [balance EXCEPT ![u] = @ + TopUpAmount]
  /\ UNCHANGED <<blocked, row, world, at, debited, client, switch>>

SetBlocked(u, on) ==
  /\ Call(IF on THEN "block" ELSE "unblock")
  /\ blocked' = [blocked EXCEPT ![u] = on]
  /\ UNCHANGED <<balance, row, world, at, debited, client, switch>>

-----------------------------------------------------------------------------
\* What happens around the shop.

\* A client that is on moves traffic, and its meter with it.
Use(c) ==
  /\ client[c] = "on"
  /\ moved[c] < MaxMoved
  /\ moved' = [moved EXCEPT ![c] = @ + 1]
  /\ used' = [used EXCEPT ![c] = @ + 1]
  /\ UNCHANGED <<wallets, row, age, orphans, at, calls, debited, client, switch>>

\* An admin, or the inbound's periodic reset, sets a meter back to zero.
ResetMeter(c) ==
  /\ Call("reset")
  /\ client[c] # "none"
  /\ used' = [used EXCEPT ![c] = 0]
  /\ UNCHANGED <<wallets, row, age, moved, orphans, at, debited, client, switch>>

DayPasses(c) ==
  /\ Live(c)
  /\ age[c] < MaxAge
  /\ age' = [age EXCEPT ![c] = @ + 1]
  /\ UNCHANGED <<wallets, row, used, moved, orphans, at, calls, debited, client, switch>>

\* The client is made and its row is not.
Parted(o, c) == At(o, "insert") /\ at[o].config = c

\* The panel dies and comes back: every goroutine is gone.
Crash ==
  /\ Fault("crash")
  /\ \E p \in Callers : at[p] # Idle
  /\ at' = [p \in Callers |-> Idle]
  /\ switch' = [p \in Callers |-> NotSwitching]
  /\ orphans' = orphans \cup {c \in Configs : \E o \in Owners : Parted(o, c)}
  /\ UNCHANGED <<wallets, row, used, age, moved, debited, client>>

-----------------------------------------------------------------------------

Switching(p) ==
  /\ SwitchStep(p)
  /\ UNCHANGED <<wallets, row, world, at, calls, debited>>

\* The steps of a run that write nothing twice, and those that may fail.
Bill(b) ==
  \/ ReadMeters(b)
  \/ \E c \in Configs, k \in Meters : Debit(b, c, k)
  \/ Book(b)

BillFails(b) ==
  \/ \E c \in Configs, k \in Meters : DebitFails(b, c, k)
  \/ BookFails(b)

Reconcile(b) ==
  \/ ReadWallets(b)
  \/ \E u \in Users : ReadConfigs(b, u)
  \/ SwitchConfig(b)
  \/ Switching(b)
  \/ FollowSwitch(b)
  \/ EndRun(b)

Run(b) == StartRun(b) \/ Bill(b) \/ Reconcile(b)

Ask(o) ==
  \E c \in Configs :
    \/ \E paused \in BOOLEAN : PauseLoad(o, c, paused)
    \/ CreateCheck(o, c)
    \/ DeleteLoad(o, c)

Serve(o) ==
  \/ PauseWrite(o) \/ Switching(o) \/ PauseReturn(o)
  \/ CreateClient(o) \/ InsertConfig(o)
  \/ DeleteClient(o) \/ DeleteRow(o)

Around ==
  \/ \E u \in Users : TopUp(u) \/ \E on \in BOOLEAN : SetBlocked(u, on)
  \/ \E c \in Configs : Use(c) \/ ResetMeter(c) \/ DayPasses(c)
  \/ Crash

Next ==
  \/ \E b \in Billers : Run(b) \/ BillFails(b)
  \/ \E o \in Owners : Ask(o) \/ Serve(o)
  \/ Around

\* The job comes back every few minutes, and a call that has begun goes on; nobody
\* has to use, pay for or change anything.
Spec ==
  /\ Init /\ [][Next]_vars
  /\ \A b \in Billers : WF_vars(Run(b))
  /\ \A o \in Owners : WF_vars(Serve(o))

-----------------------------------------------------------------------------

Rows == [state : {"none", "live", "deleted"}, active : BOOLEAN, paused : BOOLEAN,
         charged : [Meters -> Int]]

Accounts == [cost : [Meters -> Int], charged : [Meters -> Int]]
Bills == [Configs -> Accounts]
Items == [config : Configs, meter : Meters]
Jobs == [config : Configs, active : BOOLEAN]

RunStates ==
  [pc : {"meters"}, rows : [Configs -> Rows]]
    \cup [pc : {"bill"}, bill : Bills]
    \cup [pc : {"bill", "days", "book"}, bill : Bills, item : Items]
    \cup [pc : {"wallets", "switching"}, left : SUBSET Users, jobs : SUBSET Jobs,
          funded : SUBSET Users]

OwnerStates ==
  [pc : {"pause", "pausing"}, config : Configs, paused : BOOLEAN, active : BOOLEAN]
    \cup [pc : {"create", "insert", "delete", "forget"}, config : Configs]

\* Every variable keeps its type; only a goroutine that waits for it is inside a
\* call of setClientEnabled.
TypeOK ==
  /\ balance \in [Users -> Int]
  /\ blocked \in [Users -> BOOLEAN]
  /\ row \in [Configs -> Rows]
  /\ used \in [Configs -> Nat]
  /\ age \in [Configs -> Nat]
  /\ moved \in [Configs -> Nat]
  /\ debited \in [Configs -> [Meters -> Int]]
  /\ at \in [Callers -> {Idle} \cup RunStates \cup OwnerStates]
  /\ calls \in Nat
  /\ orphans \subseteq Configs
  /\ SwitchTypeOK
  /\ \A p \in Callers : switch[p] # NotSwitching => at[p].pc \in {"switching", "pausing"}

InRun(p) == at[p] \in RunStates

\* Between runs, a config's row says exactly what its owner was debited for it.
BooksMatchLedger ==
  (\A b \in Billers : ~InRun(b)) =>
    \A c \in Configs : Live(c) => row[c].charged = debited[c]

\* A client that moves traffic belongs to a config that is billed, or to one that
\* is just being made or removed: no order of toggles, removals, pauses and runs
\* leaves another.  The exceptions are the errors the code gives up on: a row that
\* could not be inserted, a client that could not be removed, a restart in between.
EveryClientBilled ==
  \A c \in Configs : client[c] = "on" =>
    \/ Live(c)
    \/ c \in orphans
    \/ \E o \in Owners : at[o].pc \in {"insert", "delete", "forget"} /\ at[o].config = c

\* "It records the intent on the config so a billing run cannot undo it": a paused
\* config is off, once its owner's call has returned.
PausedStaysOff ==
  \A c \in Configs :
    /\ Live(c) /\ row[c].paused
    /\ \A o \in Owners : at[o] # Idle => at[o].config # c
    => client[c] # "on"

ClientsOff(u) ==
  \A c \in Configs : Live(c) /\ OwnerOf[c] = u => client[c] # "on"

\* "When a wallet empties that user's configs switch off" (and a blocked user's).
CutOff ==
  \A u \in Users : <>[]~Funded(u) => <>[]ClientsOff(u)

\* "... and they come back the moment it is topped up": a config nobody paused
\* works in the end if its wallet stays funded.
ComesBack ==
  \A c \in Configs :
    <>[](Live(c) /\ ~row[c].paused /\ Funded(OwnerOf[c])) => <>[](client[c] = "on")

\* "They are charged for what they actually consume": all a config ever moves is
\* paid for in the end, unless the config or its client is deleted first.
EverythingBilled ==
  \A c \in Configs :
    <>[](Live(c) /\ client[c] # "none") => <>[](debited[c]["traffic"] >= TrafficCost(moved[c]))

\* Without a second run beside it, billing is pay-as-you-go: whatever a config
\* has cost is the price of traffic it moved and of days it existed.
Promise ==
  INSTANCE PayAsYouGo WITH paid <- [c \in Configs |-> debited[c]["traffic"]],
                           rent <- [c \in Configs |-> debited[c]["days"]]

ImplementsPayAsYouGo == Promise!Spec
=============================================================================
