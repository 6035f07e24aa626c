------------------------- MODULE ShopBillingProofs -------------------------
(***************************************************************************)
(* Metered billing, for any users, configs, goroutines, prices, traffic    *)
(* and number of calls: the types, that no client moves traffic unbilled,  *)
(* and, while one goroutine bills, that the rows tell what was debited and *)
(* that billing is pay-as-you-go.                                          *)
(***************************************************************************)
EXTENDS ShopBilling, TLAPS

USE OwnerAssumption, CallersAssumption, CallsAssumption, TariffAssumption

-----------------------------------------------------------------------------
\* The shapes of a goroutine's record, one per place it may be at.

AtMeters == [pc : {"meters"}, rows : [Configs -> Rows]]
AtBill == [pc : {"bill"}, bill : Bills]
AtItem == [pc : {"bill", "days", "book"}, bill : Bills, item : Items]
AtWallets == [pc : {"wallets", "switching"}, left : SUBSET Users, jobs : SUBSET Jobs,
              funded : SUBSET Users]
AtPause == [pc : {"pause", "pausing"}, config : Configs, paused : BOOLEAN,
            active : BOOLEAN]
AtConfig == [pc : {"create", "insert", "delete", "forget"}, config : Configs]

Places == {Idle} \cup RunStates \cup OwnerStates

\* Where a goroutine is tells what it carries.
LEMMA PlaceOf ==
  ASSUME NEW s \in Places
  PROVE  /\ s.pc = "meters" => s \in AtMeters
         /\ s.pc \in {"bill", "days", "book"} => s \in AtBill \cup AtItem
         /\ s.pc \in {"days", "book"} => s \in AtItem
         /\ s.pc \in {"wallets", "switching"} => s \in AtWallets
         /\ s.pc \in {"pause", "pausing"} => s \in AtPause
         /\ s.pc \in {"create", "insert", "delete", "forget"} => s \in AtConfig
         /\ s.pc = "idle" => s = Idle
BY DEF Places, RunStates, OwnerStates, Idle, AtMeters, AtBill, AtItem, AtWallets,
       AtPause, AtConfig

\* ... and each of these is a place a goroutine may be at.
LEMMA PlacesAre ==
  /\ AtMeters \subseteq Places /\ AtBill \subseteq Places /\ AtItem \subseteq Places
  /\ AtWallets \subseteq Places /\ AtPause \subseteq Places /\ AtConfig \subseteq Places
  /\ Idle \in Places
BY DEF Places, RunStates, OwnerStates, Idle, AtMeters, AtBill, AtItem, AtWallets,
       AtPause, AtConfig

\* A cost is a whole number.
LEMMA CostType == ASSUME NEW n \in Nat PROVE TrafficCost(n) \in Int
<1>1. n \div GB \in Int /\ n % GB \in Int
  OBVIOUS
<1> QED
  BY <1>1 DEF TrafficCost

LEMMA CostOfType ==
  ASSUME TypeOK, NEW c \in Configs, NEW r \in Rows
  PROVE  CostOf(c, r) \in [Meters -> Int]
<1>1. used[c] \in Nat /\ age[c] \in Nat
  BY DEF TypeOK
<1>2. TrafficCost(used[c]) \in Int
  BY <1>1, CostType
<1>3. DayCost(age[c], r.active) \in Int
  BY <1>1 DEF DayCost
<1> QED
  BY <1>2, <1>3 DEF CostOf, Rows, Meters

\* A switch goes on as a switch, or is over.
LEMMA SwitchStepType ==
  ASSUME TypeOK, NEW p \in Callers, SwitchStep(p)
  PROVE  SwitchTypeOK' /\ switch[p] # NotSwitching
                       /\ \A q \in Callers : q # p => switch'[q] = switch[q]
<1> DEFINE s == switch[p]
           To(step) == [s EXCEPT !.step = step]
<1>1. s \in Switches
  BY DEF TypeOK, SwitchTypeOK
<1>2. CASE Look(p)
  <2>1. s.step = "look" /\ s.config \in Configs /\ s.want \in {"on", "off"}
        /\ s \in [step : {"look", "read", "done", "failed"}, config : Configs,
                  want : {"on", "off"}]
    BY <1>1, <1>2 DEF Look, SwitchAt, Switches, NotSwitching
  <2>2. \A step \in {"failed", "done", "read"} : To(step) \in Switches
    BY <2>1 DEF Switches
  <2>3. PICK t \in Switches : switch' = [switch EXCEPT ![p] = t]
    BY <1>2, <2>2 DEF Look, SwitchTo
  <2>4. client' = client /\ s # NotSwitching
    BY <1>2, <2>1 DEF Look, NotSwitching
  <2> HIDE DEF s
  <2> QED
    BY <2>3, <2>4 DEF TypeOK, SwitchTypeOK, s
<1>3. CASE Read(p)
  <2>1. s.step = "read" /\ s.config \in Configs /\ s.want \in {"on", "off"}
        /\ s \in [step : {"look", "read", "done", "failed"}, config : Configs,
                  want : {"on", "off"}]
    BY <1>1, <1>3 DEF Read, SwitchAt, Switches, NotSwitching
  <2>2. To("failed") \in Switches
    BY <2>1 DEF Switches
  <2>3. \A new \in {"on", "off"} :
          [step |-> "write", config |-> s.config, want |-> s.want, new |-> new]
            \in Switches
    BY <2>1 DEF Switches
  <2>4. PICK t \in Switches : switch' = [switch EXCEPT ![p] = t]
    BY <1>3, <2>2, <2>3 DEF Read, SwitchTo, Opposite
  <2>5. client' = client /\ s # NotSwitching
    BY <1>3, <2>1 DEF Read, NotSwitching
  <2> HIDE DEF s
  <2> QED
    BY <2>4, <2>5 DEF TypeOK, SwitchTypeOK, s
<1>4. CASE Write(p)
  <2>1. s.step = "write" /\ s.config \in Configs /\ s.new \in {"on", "off"}
        /\ s \in [step : {"write", "done", "failed"}, config : Configs,
                  want : {"on", "off"}, new : {"on", "off"}]
    BY <1>1, <1>4 DEF Write, SwitchAt, Switches, NotSwitching
  <2>2. \A step \in {"failed", "done"} : To(step) \in Switches
    BY <2>1 DEF Switches
  <2>3. PICK t \in Switches : switch' = [switch EXCEPT ![p] = t]
    BY <1>4, <2>2 DEF Write, SwitchTo
  <2>4. client' \in [Configs -> {"none", "on", "off"}]
    BY <1>4, <2>1 DEF Write, TypeOK, SwitchTypeOK
  <2>5. s # NotSwitching
    BY <2>1 DEF NotSwitching
  <2> HIDE DEF s
  <2> QED
    BY <2>3, <2>4, <2>5 DEF TypeOK, SwitchTypeOK, s
<1> QED
  BY <1>2, <1>3, <1>4 DEF SwitchStep

-----------------------------------------------------------------------------
\* Types.

\* What TypeOK says of the goroutines.
AtOK ==
  /\ at \in [Callers -> Places]
  /\ \A p \in Callers : switch[p] # NotSwitching => at[p].pc \in {"switching", "pausing"}

\* A goroutine that is in no switch goes to another place.
LEMMA Moves ==
  ASSUME AtOK, NEW p \in Callers, NEW s \in Places,
         at[p].pc \notin {"switching", "pausing"},
         at' = [at EXCEPT ![p] = s], switch' = switch
  PROVE  AtOK'
BY DEF AtOK

\* A goroutine begins a switch, or is told of its end.
LEMMA MovesSwitching ==
  ASSUME AtOK, NEW p \in Callers, NEW s \in Places, NEW t \in Switches,
         SwitchTypeOK, t # NotSwitching => s.pc \in {"switching", "pausing"},
         at' = [at EXCEPT ![p] = s], switch' = [switch EXCEPT ![p] = t],
         client' = client
  PROVE  AtOK' /\ SwitchTypeOK'
BY DEF AtOK, SwitchTypeOK

\* A request is a switch.
LEMMA RequestType ==
  ASSUME NEW p \in Callers, NEW c \in Configs, NEW want \in {"on", "off"},
         Request(p, c, want)
  PROVE  \E t \in Switches : switch' = [switch EXCEPT ![p] = t]
BY DEF Request, Switches

LEMMA OnOffType == \A active \in BOOLEAN : OnOff(active) \in {"on", "off"}
BY DEF OnOff

\* Everything but the goroutines.
DataOK ==
  /\ balance \in [Users -> Int]
  /\ blocked \in [Users -> BOOLEAN]
  /\ row \in [Configs -> Rows]
  /\ used \in [Configs -> Nat]
  /\ age \in [Configs -> Nat]
  /\ moved \in [Configs -> Nat]
  /\ debited \in [Configs -> [Meters -> Int]]
  /\ calls \in Nat
  /\ orphans \subseteq Configs

LEMMA TypeParts ==
  /\ TypeOK <=> DataOK /\ SwitchTypeOK /\ AtOK
  /\ TypeOK' <=> DataOK' /\ SwitchTypeOK' /\ AtOK'
BY DEF TypeOK, DataOK, AtOK, Places

LEMMA RowTypes ==
  /\ NoRow \in Rows /\ NewRow \in Rows /\ Nothing \in [Meters -> Int]
  /\ \A r \in Rows, active, paused \in BOOLEAN :
       /\ [r EXCEPT !.active = active] \in Rows
       /\ [r EXCEPT !.paused = paused, !.active = active] \in Rows
       /\ [r EXCEPT !.state = "deleted"] \in Rows
       /\ \A k \in Meters, n \in Int : [r EXCEPT !.charged[k] = n] \in Rows
<1>1. NoRow \in Rows /\ NewRow \in Rows /\ Nothing \in [Meters -> Int]
  BY DEF Rows, NoRow, NewRow, Nothing, Meters
<1>2. ASSUME NEW r \in Rows, NEW active \in BOOLEAN, NEW paused \in BOOLEAN
      PROVE  /\ [r EXCEPT !.active = active] \in Rows
             /\ [r EXCEPT !.paused = paused, !.active = active] \in Rows
             /\ [r EXCEPT !.state = "deleted"] \in Rows
  BY DEF Rows
<1>3. ASSUME NEW r \in Rows, NEW k \in Meters, NEW n \in Int
      PROVE  [r EXCEPT !.charged[k] = n] \in Rows
  <2>1. [r.charged EXCEPT ![k] = n] \in [Meters -> Int]
    BY DEF Rows
  <2> QED
    BY <2>1 DEF Rows
<1> QED
  BY <1>1, <1>2, <1>3

\* The steps that bill keep the types ...
LEMMA StartRunType ==
  ASSUME TypeOK, NEW b \in Billers, StartRun(b)
  PROVE  TypeOK'
<1> USE TypeParts DEF StartRun, wallets, world
<1>1. DataOK' /\ SwitchTypeOK'
  BY DEF DataOK, SwitchTypeOK
<1>2. [pc |-> "meters", rows |-> row] \in Places
  BY PlacesAre DEF AtMeters, DataOK
<1>3. AtOK'
  <2>1. at[b].pc = "idle" /\ b \in Callers
    BY DEF Idle
  <2>2. at' = [at EXCEPT ![b] = [pc |-> "meters", rows |-> row]] /\ switch' = switch
    OBVIOUS
  <2>3. AtOK
    OBVIOUS
  <2> QED
    BY <1>2, <2>1, <2>2, <2>3, Moves
<1> QED
  BY <1>1, <1>3

LEMMA ReadMetersType ==
  ASSUME TypeOK, NEW b \in Billers, ReadMeters(b)
  PROVE  TypeOK'
<1> USE TypeParts DEF ReadMeters, At, wallets, world
<1>1. DataOK' /\ SwitchTypeOK'
  BY DEF DataOK, SwitchTypeOK
<1> DEFINE rows == at[b].rows
           bill == [c \in Configs |-> [cost |-> CostOf(c, rows[c]),
                                       charged |-> rows[c].charged]]
<1>2. rows \in [Configs -> Rows]
  BY PlaceOf DEF AtMeters, AtOK
<1>3. \A c \in Configs : CostOf(c, rows[c]) \in [Meters -> Int]
  BY <1>2, CostOfType
<1>4. \A c \in Configs : rows[c].charged \in [Meters -> Int]
  BY <1>2 DEF Rows
<1>5. bill \in Bills
  BY <1>3, <1>4 DEF Bills, Accounts
<1>6. [pc |-> "bill", bill |-> bill] \in Places
  BY <1>5, PlacesAre DEF AtBill
<1>7. AtOK'
  BY <1>6, Moves
<1> QED
  BY <1>1, <1>7

LEMMA OwedType ==
  ASSUME TypeOK, NEW b \in Callers, at[b].pc \in {"bill", "days", "book"},
         NEW c \in Configs, NEW k \in Meters
  PROVE  /\ at[b].bill \in Bills
         /\ at[b].bill[c].cost[k] \in Int /\ at[b].bill[c].charged[k] \in Int
         /\ Owed(b, c, k) \in Int
<1>1. at[b] \in AtBill \cup AtItem
  BY TypeParts, PlaceOf DEF AtOK
<1>2. at[b].bill \in Bills
  BY <1>1 DEF AtBill, AtItem
<1> QED
  BY <1>2 DEF Bills, Accounts, Owed

LEMMA DebitType ==
  ASSUME TypeOK, NEW b \in Billers, NEW c \in Configs, NEW k \in Meters, Debit(b, c, k)
  PROVE  TypeOK'
<1> USE TypeParts
<1>1. at[b].bill \in Bills /\ Owed(b, c, k) \in Int
  BY OwedType DEF Debit, Due
<1>2. DataOK'
  BY <1>1 DEF DataOK, Debit, world
<1>3. [pc |-> "book", bill |-> at[b].bill, item |-> [config |-> c, meter |-> k]]
        \in Places
  BY <1>1, PlacesAre DEF AtItem, Items
<1>4. AtOK' /\ SwitchTypeOK'
  BY <1>3, Moves DEF Debit, Due, SwitchTypeOK
<1> QED
  BY <1>2, <1>4

LEMMA DebitFailsType ==
  ASSUME TypeOK, NEW b \in Billers, NEW c \in Configs, NEW k \in Meters,
         DebitFails(b, c, k)
  PROVE  TypeOK'
<1> USE TypeParts
<1>1. at[b].bill \in Bills /\ \A d \in Configs, m \in Meters :
        at[b].bill[d].charged[m] \in Int /\ at[b].bill[d].cost[m] \in Int
  BY OwedType DEF DebitFails, Due
<1>2. DataOK' /\ SwitchTypeOK'
  <2>1. /\ UNCHANGED <<balance, blocked, row, used, age, moved, orphans, debited, client, switch>>
        /\ calls' = calls + 1
    BY DEF DebitFails, Fault, Counted, wallets, world
  <2> QED
    BY <2>1 DEF DataOK, SwitchTypeOK
<1> DEFINE now == at[b].bill[c]
           given_up == IF k = "traffic" THEN Meters ELSE {k}
           bill == [at[b].bill EXCEPT ![c].cost =
             [m \in Meters |-> IF m \in given_up THEN now.charged[m] ELSE now.cost[m]]]
<1>3. bill \in Bills
  BY <1>1 DEF Bills, Accounts
<1>4. [pc |-> "bill", bill |-> bill] \in Places
  BY <1>3, PlacesAre DEF AtBill
<1>5. /\ at' = [at EXCEPT ![b] = [pc |-> "bill", bill |-> bill]]
      /\ switch' = switch /\ at[b].pc \in {"bill", "days"}
  BY DEF DebitFails, Due
<1>6. AtOK'
  <2> HIDE DEF bill
  <2> QED
    BY <1>4, <1>5, Moves
<1> QED
  BY <1>2, <1>6

LEMMA SettleType ==
  ASSUME TypeOK, NEW b \in Billers, At(b, "book"), Settle(b), switch' = switch
  PROVE  AtOK'
<1> USE TypeParts DEF At
<1> DEFINE c == at[b].item.config
           k == at[b].item.meter
           bill == [at[b].bill EXCEPT ![c].charged[k] = at[b].bill[c].cost[k]]
<1>1. at[b].item \in Items /\ at[b].bill \in Bills /\ c \in Configs /\ k \in Meters
  BY PlaceOf DEF AtOK, AtItem, Items
<1>2. bill \in Bills
  BY <1>1 DEF Bills, Accounts
<1>3. AfterItem(b, c, k) \in {"bill", "days"}
  BY DEF AfterItem
<1>4. [pc |-> AfterItem(b, c, k), item |-> at[b].item, bill |-> bill] \in AtItem
  BY <1>1, <1>2, <1>3 DEF AtItem
<1> QED
  BY <1>4, PlacesAre, Moves DEF Settle

LEMMA BookType ==
  ASSUME TypeOK, NEW b \in Billers, Book(b)
  PROVE  TypeOK'
<1> USE TypeParts
<1> DEFINE c == at[b].item.config
           k == at[b].item.meter
<1>1. c \in Configs /\ k \in Meters
  BY PlaceOf DEF AtOK, AtItem, Items, Book, At
<1>2. at[b].bill[c].cost[k] \in Int
  BY <1>1, OwedType DEF Book, At
<1>3. [row[c] EXCEPT !.charged[k] = at[b].bill[c].cost[k]] \in Rows
  BY <1>1, <1>2, RowTypes DEF DataOK
<1>4. row' \in [Configs -> Rows]
  BY <1>1, <1>3 DEF Book, DataOK
<1>5. DataOK' /\ SwitchTypeOK'
  BY <1>4 DEF DataOK, SwitchTypeOK, Book, wallets, world
<1>6. AtOK'
  BY SettleType DEF Book
<1> QED
  BY <1>5, <1>6

LEMMA BookFailsType ==
  ASSUME TypeOK, NEW b \in Billers, BookFails(b)
  PROVE  TypeOK'
<1> USE TypeParts
<1>1. DataOK' /\ SwitchTypeOK'
  BY DEF DataOK, SwitchTypeOK, BookFails, Fault, Counted, wallets, world
<1>2. AtOK'
  BY SettleType DEF BookFails
<1> QED
  BY <1>1, <1>2

\* A step of a switch concerns nothing else.
LEMMA SwitchingType ==
  ASSUME TypeOK, NEW p \in Callers, Switching(p)
  PROVE  TypeOK'
<1> USE TypeParts
<1>1. SwitchTypeOK' /\ switch[p] # NotSwitching
      /\ \A q \in Callers : q # p => switch'[q] = switch[q]
  BY SwitchStepType DEF Switching
<1>2. DataOK' /\ at' = at
  BY DEF Switching, DataOK, wallets, world
<1>3. AtOK'
  BY <1>1, <1>2 DEF AtOK
<1> QED
  BY <1>1, <1>2, <1>3

\* ... the steps that switch configs as their wallets want them ...
LEMMA ReconcileType ==
  ASSUME TypeOK, NEW b \in Billers, Reconcile(b)
  PROVE  TypeOK'
<1> USE TypeParts
<1>1. CASE ReadWallets(b)
  <2>1. DataOK' /\ SwitchTypeOK'
    BY <1>1 DEF DataOK, SwitchTypeOK, ReadWallets, wallets, world
  <2>2. [pc |-> "wallets", left |-> Users, jobs |-> {},
         funded |-> {u \in Users : Funded(u)}] \in Places
    BY PlacesAre DEF AtWallets
  <2> QED
    BY <1>1, <2>1, <2>2, Moves DEF ReadWallets, At
<1>2. ASSUME NEW u \in Users, ReadConfigs(b, u) PROVE TypeOK'
  <2> DEFINE mine == {c \in Configs : Live(c) /\ OwnerOf[c] = u}
             jobs == {[config |-> c, active |-> Wanted(b, c)] :
                        c \in {d \in mine : row[d].active # Wanted(b, d)}}
             s == [at[b] EXCEPT !.left = @ \ {u}, !.jobs = jobs]
  <2>1. DataOK' /\ SwitchTypeOK'
    BY <1>2 DEF DataOK, SwitchTypeOK, ReadConfigs, wallets, world
  <2>2. at[b] \in AtWallets
    BY <1>2, PlaceOf DEF ReadConfigs, At, AtOK
  <2>3. \A c \in Configs : Wanted(b, c) \in BOOLEAN
    BY DEF Wanted
  <2>4. jobs \subseteq Jobs
    BY <2>3 DEF Jobs
  <2>5. s \in AtWallets /\ s.pc = at[b].pc
    BY <2>2, <2>4 DEF AtWallets
  <2>6. at' = [at EXCEPT ![b] = s] /\ switch' = switch
    BY <1>2, <2>2 DEF ReadConfigs, AtOK, AtWallets
  <2>7. AtOK'
    <3> HIDE DEF s
    <3> QED
      BY <2>5, <2>6, PlacesAre DEF AtOK
  <2> QED
    BY <2>1, <2>7
<1>3. CASE SwitchConfig(b)
  <2>1. PICK job \in at[b].jobs :
          /\ Request(b, job.config, OnOff(job.active))
          /\ at' = [at EXCEPT ![b].pc = "switching", ![b].jobs = (@ \ {job})]
    BY <1>3 DEF SwitchConfig
  <2> DEFINE s == [at[b] EXCEPT !.pc = "switching", !.jobs = @ \ {job}]
  <2>2. at[b] \in AtWallets
    BY <1>3, PlaceOf DEF SwitchConfig, At, AtOK
  <2>3. job.config \in Configs /\ job.active \in BOOLEAN
    BY <2>2 DEF AtWallets, Jobs
  <2>4. OnOff(job.active) \in {"on", "off"}
    BY <2>3, OnOffType
  <2>5. PICK t \in Switches : switch' = [switch EXCEPT ![b] = t]
    BY <2>1, <2>3, <2>4, RequestType
  <2>6. s \in AtWallets /\ s.pc = "switching"
    BY <2>2 DEF AtWallets
  <2>7. at' = [at EXCEPT ![b] = s]
    BY <2>1, <2>2 DEF AtOK, AtWallets
  <2>8. DataOK' /\ client' = client
    BY <1>3 DEF DataOK, SwitchConfig, wallets, world
  <2>9. AtOK' /\ SwitchTypeOK'
    <3> HIDE DEF s
    <3> QED
      BY <2>5, <2>6, <2>7, <2>8, PlacesAre, MovesSwitching
  <2> QED
    BY <2>8, <2>9
<1>4. CASE Switching(b)
  BY <1>4, SwitchingType
<1>5. CASE FollowSwitch(b)
  <2> DEFINE c == switch[b].config
             s == [at[b] EXCEPT !.pc = "wallets"]
  <2>1. at[b] \in AtWallets
    BY <1>5, PlaceOf DEF FollowSwitch, At, AtOK
  <2>2. s \in AtWallets /\ s.pc = "wallets"
    BY <2>1 DEF AtWallets
  <2>3. at' = [at EXCEPT ![b] = s] /\ switch' = [switch EXCEPT ![b] = NotSwitching]
        /\ client' = client
    BY <1>5, <2>1 DEF FollowSwitch, Goto, AtOK, AtWallets
  <2>4. row' \in [Configs -> Rows]
    <3>1. CASE row' = [row EXCEPT ![c].active = (switch[b].want = "on")]
      <4>1. [row[c] EXCEPT !.active = (switch[b].want = "on")] \in Rows \/ c \notin Configs
        BY RowTypes DEF DataOK
      <4> QED
        BY <3>1, <4>1 DEF DataOK
    <3>2. CASE row' = row
      BY <3>2 DEF DataOK
    <3> QED
      BY <1>5, <3>1, <3>2 DEF FollowSwitch
  <2>5. DataOK'
    BY <1>5, <2>4 DEF DataOK, FollowSwitch, wallets, world
  <2>6. NotSwitching \in Switches
    BY DEF Switches
  <2>7. AtOK' /\ SwitchTypeOK'
    <3> HIDE DEF s
    <3> QED
      BY <2>2, <2>3, <2>6, PlacesAre, MovesSwitching
  <2> QED
    BY <2>5, <2>7
<1>6. CASE EndRun(b)
  <2>1. DataOK' /\ SwitchTypeOK'
    BY <1>6 DEF DataOK, SwitchTypeOK, EndRun, wallets, world
  <2>2. AtOK'
    BY <1>6, PlacesAre, Moves DEF EndRun, At, Finish
  <2> QED
    BY <2>1, <2>2
<1> QED
  BY <1>1, <1>2, <1>3, <1>4, <1>5, <1>6 DEF Reconcile

\* ... the owner's calls ...
LEMMA AskType ==
  ASSUME TypeOK, NEW o \in Owners, Ask(o)
  PROVE  TypeOK'
<1> USE TypeParts
<1>1. PICK c \in Configs :
        \/ \E paused \in BOOLEAN : PauseLoad(o, c, paused)
        \/ CreateCheck(o, c)
        \/ DeleteLoad(o, c)
  BY DEF Ask
<1>2. /\ UNCHANGED <<balance, blocked, row, used, age, moved, orphans, debited, client, switch>>
      /\ calls' = calls + 1 /\ at[o].pc = "idle"
  BY <1>1 DEF PauseLoad, CreateCheck, DeleteLoad, Call, Counted, wallets, world, Idle
<1>3. DataOK' /\ SwitchTypeOK'
  BY <1>2 DEF DataOK, SwitchTypeOK
<1>4. \E s \in AtPause \cup AtConfig : at' = [at EXCEPT ![o] = s]
  <2>1. ASSUME NEW paused \in BOOLEAN, PauseLoad(o, c, paused)
        PROVE  \E s \in AtPause : at' = [at EXCEPT ![o] = s]
    <3>1. [pc |-> "pause", config |-> c, paused |-> paused,
           active |-> ~paused /\ Funded(OwnerOf[c])] \in AtPause
      BY DEF AtPause
    <3> QED
      BY <2>1, <3>1 DEF PauseLoad
  <2>2. CASE CreateCheck(o, c)
    BY <2>2 DEF CreateCheck, AtConfig
  <2>3. CASE DeleteLoad(o, c)
    BY <2>3 DEF DeleteLoad, AtConfig
  <2> QED
    BY <1>1, <2>1, <2>2, <2>3
<1>5. AtOK'
  BY <1>2, <1>4, PlacesAre, Moves
<1> QED
  BY <1>3, <1>5

LEMMA ServeType ==
  ASSUME TypeOK, NEW o \in Owners, Serve(o)
  PROVE  TypeOK'
<1> USE TypeParts
<1> DEFINE c == at[o].config
           To(pc) == [at[o] EXCEPT !.pc = pc]
<1>1. CASE PauseWrite(o)
  <2>1. at[o] \in AtPause
    BY <1>1, PlaceOf DEF PauseWrite, At, AtOK
  <2>2. c \in Configs /\ at[o].paused \in BOOLEAN /\ at[o].active \in BOOLEAN
    BY <2>1 DEF AtPause
  <2>3. [row[c] EXCEPT !.paused = at[o].paused, !.active = at[o].active] \in Rows
    BY <2>2, RowTypes DEF DataOK
  <2>4. row' \in [Configs -> Rows]
    BY <1>1, <2>2, <2>3 DEF PauseWrite, DataOK
  <2>5. DataOK' /\ client' = client
    BY <1>1, <2>4 DEF PauseWrite, DataOK, wallets, world
  <2>6. OnOff(at[o].active) \in {"on", "off"}
    BY <2>2, OnOffType
  <2>7. PICK t \in Switches : switch' = [switch EXCEPT ![o] = t]
    BY <1>1, <2>2, <2>6, RequestType DEF PauseWrite
  <2>8. To("pausing") \in AtPause /\ To("pausing").pc = "pausing"
    BY <2>1 DEF AtPause
  <2>9. at' = [at EXCEPT ![o] = To("pausing")]
    BY <1>1 DEF PauseWrite, Goto, AtOK
  <2>10. AtOK' /\ SwitchTypeOK'
    <3> HIDE DEF To
    <3> QED
      BY <2>5, <2>7, <2>8, <2>9, PlacesAre, MovesSwitching
  <2> QED
    BY <2>5, <2>10
<1>2. CASE Switching(o)
  BY <1>2, SwitchingType
<1>3. CASE PauseReturn(o)
  <2>1. DataOK'
    BY <1>3 DEF PauseReturn, DataOK, wallets, world
  <2>2. NotSwitching \in Switches
    BY DEF Switches
  <2>3. AtOK' /\ SwitchTypeOK'
    BY <1>3, <2>2, PlacesAre, MovesSwitching DEF PauseReturn, Finish
  <2> QED
    BY <2>1, <2>3
<1>4. CASE CreateClient(o)
  <2>1. at[o] \in AtConfig /\ c \in Configs
    BY <1>4, PlaceOf DEF CreateClient, At, AtOK, AtConfig
  <2>2. DataOK' /\ SwitchTypeOK' /\ switch' = switch
    BY <1>4, <2>1 DEF CreateClient, DataOK, SwitchTypeOK, wallets, world
  <2>3. To("insert") \in AtConfig
    BY <2>1 DEF AtConfig
  <2>4. \E s \in Places : at' = [at EXCEPT ![o] = s]
    BY <1>4, <2>3, PlacesAre DEF CreateClient, Goto, Finish, AtOK
  <2>5. AtOK'
    BY <1>4, <2>2, <2>4, Moves DEF CreateClient, At
  <2> QED
    BY <2>2, <2>5
<1>5. CASE InsertConfig(o)
  <2>1. at[o] \in AtConfig /\ c \in Configs
    BY <1>5, PlaceOf DEF InsertConfig, At, AtOK, AtConfig
  <2>2. row' \in [Configs -> Rows] /\ calls' \in Nat /\ orphans' \subseteq Configs
    <3>1. NewRow \in Rows
      BY RowTypes
    <3>2. row' \in {row, [row EXCEPT ![c] = NewRow]}
      BY <1>5 DEF InsertConfig
    <3>3. calls' \in {calls, calls + 1} /\ orphans' \in {orphans, orphans \cup {c}}
      BY <1>5 DEF InsertConfig, Fault, Counted
    <3> QED
      BY <2>1, <3>1, <3>2, <3>3 DEF DataOK
  <2>3. DataOK' /\ SwitchTypeOK' /\ switch' = switch
    BY <1>5, <2>2 DEF InsertConfig, DataOK, SwitchTypeOK, wallets
  <2>4. AtOK'
    BY <1>5, <2>3, PlacesAre, Moves DEF InsertConfig, At, Finish
  <2> QED
    BY <2>3, <2>4
<1>6. CASE DeleteClient(o)
  <2>1. at[o] \in AtConfig /\ c \in Configs
    BY <1>6, PlaceOf DEF DeleteClient, At, AtOK, AtConfig
  <2>2. /\ used' \in [Configs -> Nat] /\ calls' \in Nat /\ orphans' \subseteq Configs
        /\ client' \in [Configs -> {"none", "on", "off"}]
    <3>1. /\ used' \in {used, [used EXCEPT ![c] = 0]}
          /\ client' \in {client, [client EXCEPT ![c] = "none"]}
      BY <1>6 DEF DeleteClient
    <3>2. calls' \in {calls, calls + 1} /\ orphans' \in {orphans, orphans \cup {c}}
      BY <1>6 DEF DeleteClient, Fault, Counted
    <3>3. used' \in [Configs -> Nat]
      BY <3>1 DEF DataOK
    <3>4. client' \in [Configs -> {"none", "on", "off"}]
      BY <3>1 DEF SwitchTypeOK
    <3>5. calls' \in Nat /\ orphans' \subseteq Configs
      BY <2>1, <3>2 DEF DataOK
    <3> QED
      BY <3>3, <3>4, <3>5
  <2>3. DataOK' /\ SwitchTypeOK' /\ switch' = switch
    BY <1>6, <2>2 DEF DeleteClient, DataOK, SwitchTypeOK, wallets
  <2>4. To("forget") \in AtConfig
    BY <2>1 DEF AtConfig
  <2>5. at' = [at EXCEPT ![o] = To("forget")]
    BY <1>6 DEF DeleteClient, Goto, AtOK
  <2>6. AtOK'
    <3> HIDE DEF To
    <3> QED
      BY <1>6, <2>3, <2>4, <2>5, PlacesAre, Moves DEF DeleteClient, At
  <2> QED
    BY <2>3, <2>6
<1>7. CASE DeleteRow(o)
  <2>1. at[o] \in AtConfig /\ c \in Configs
    BY <1>7, PlaceOf DEF DeleteRow, At, AtOK, AtConfig
  <2>2. [row[c] EXCEPT !.state = "deleted"] \in Rows
    BY <2>1, RowTypes DEF DataOK
  <2>3. DataOK' /\ SwitchTypeOK'
    BY <1>7, <2>1, <2>2 DEF DeleteRow, DataOK, SwitchTypeOK, wallets, world
  <2>4. AtOK'
    BY <1>7, PlacesAre, Moves DEF DeleteRow, At, Finish
  <2> QED
    BY <2>3, <2>4
<1> QED
  BY <1>1, <1>2, <1>3, <1>4, <1>5, <1>6, <1>7 DEF Serve

\* ... and what happens around the shop.
LEMMA AroundType ==
  ASSUME TypeOK, Around
  PROVE  TypeOK'
<1> USE TypeParts
<1>1. ASSUME NEW u \in Users, TopUp(u) PROVE TypeOK'
  BY <1>1 DEF TopUp, Call, Counted, DataOK, SwitchTypeOK, AtOK, world
<1>2. ASSUME NEW u \in Users, NEW on \in BOOLEAN, SetBlocked(u, on) PROVE TypeOK'
  BY <1>2 DEF SetBlocked, Call, Counted, DataOK, SwitchTypeOK, AtOK, world
<1>3. ASSUME NEW c \in Configs, Use(c) PROVE TypeOK'
  BY <1>3 DEF Use, DataOK, SwitchTypeOK, AtOK, wallets
<1>4. ASSUME NEW c \in Configs, ResetMeter(c) PROVE TypeOK'
  BY <1>4 DEF ResetMeter, Call, Counted, DataOK, SwitchTypeOK, AtOK, wallets
<1>5. ASSUME NEW c \in Configs, DayPasses(c) PROVE TypeOK'
  BY <1>5 DEF DayPasses, DataOK, SwitchTypeOK, AtOK, wallets
<1>6. CASE Crash
  <2>1. DataOK'
    BY <1>6 DEF Crash, Fault, Counted, DataOK, wallets, world
  <2>2. SwitchTypeOK' /\ AtOK'
    BY <1>6, PlacesAre DEF Crash, SwitchTypeOK, Switches, AtOK
  <2> QED
    BY <2>1, <2>2
<1> QED
  BY <1>1, <1>2, <1>3, <1>4, <1>5, <1>6 DEF Around

LEMMA TypeStep == TypeOK /\ [Next]_vars => TypeOK'
<1> SUFFICES ASSUME TypeOK, [Next]_vars PROVE TypeOK'
  OBVIOUS
<1>1. ASSUME NEW b \in Billers, Run(b) PROVE TypeOK'
  BY <1>1, StartRunType, ReadMetersType, DebitType, BookType, ReconcileType DEF Run, Bill
<1>2. ASSUME NEW b \in Billers, BillFails(b) PROVE TypeOK'
  BY <1>2, DebitFailsType, BookFailsType DEF BillFails
<1>3. ASSUME NEW o \in Owners, Ask(o) \/ Serve(o) PROVE TypeOK'
  BY <1>3, AskType, ServeType
<1>4. CASE Around
  BY <1>4, AroundType
<1>5. CASE UNCHANGED vars
  BY <1>5, TypeParts DEF vars, wallets, world, DataOK, SwitchTypeOK, AtOK
<1> QED
  BY <1>1, <1>2, <1>3, <1>4, <1>5 DEF Next

LEMMA TypeInit == Init => TypeOK
<1> SUFFICES ASSUME Init PROVE TypeOK
  OBVIOUS
<1>1. DataOK
  <2>1. NoRow \in Rows /\ Nothing \in [Meters -> Int]
    BY RowTypes
  <2> QED
    BY <2>1 DEF Init, DataOK
<1>2. SwitchTypeOK /\ AtOK
  BY PlacesAre DEF Init, SwitchInit, SwitchTypeOK, Switches, AtOK
<1> QED
  BY <1>1, <1>2, TypeParts

\* Every variable keeps its type, whatever is called and whatever fails; and only a
\* goroutine that waits for it is inside a call of setClientEnabled.
THEOREM Typed == Spec => []TypeOK
BY TypeInit, TypeStep, PTL DEF Spec

-----------------------------------------------------------------------------
\* Configs come and go.

Making == {"create", "insert", "delete", "forget"}

\* A config some owner is making has no row, and nobody else makes it; one that is
\* being deleted has one.
OneMaker ==
  /\ \A o \in Owners : at[o].pc \in {"create", "insert"} => row[at[o].config].state = "none"
  /\ \A o, q \in Owners :
       at[o].pc \in {"create", "insert"} /\ at[q].pc \in {"create", "insert"} /\ o # q
         => at[o].config # at[q].config
  /\ \A o \in Owners : at[o].pc \in {"delete", "forget"} => row[at[o].config].state # "none"

\* Steps that neither make nor delete a config.
OnlyAround ==
  /\ \A c \in Configs : row'[c].state = row[c].state
  /\ \A c \in Configs : client'[c] = "none" <=> client[c] = "none"
  /\ \A o \in Owners : at'[o] = at[o] \/ (at[o].pc \notin Making /\ at'[o].pc \notin Making)

MakingStep ==
  \/ \E o \in Owners, c \in Configs : CreateCheck(o, c) \/ DeleteLoad(o, c)
  \/ \E o \in Owners :
       CreateClient(o) \/ InsertConfig(o) \/ DeleteClient(o) \/ DeleteRow(o)

\* A switch neither makes nor removes a client.
LEMMA SwitchKeepsClients ==
  ASSUME TypeOK, NEW p \in Callers, SwitchStep(p)
  PROVE  \A c \in Configs : client'[c] = "none" <=> client[c] = "none"
<1>1. CASE Look(p) \/ Read(p)
  BY <1>1 DEF Look, Read
<1>2. CASE Write(p)
  <2> DEFINE s == switch[p]
  <2>1. s.step = "write" /\ s \in Switches
    BY <1>2 DEF Write, SwitchAt, TypeOK, SwitchTypeOK
  <2>2. s.config \in Configs /\ s.new \in {"on", "off"}
    BY <2>1 DEF Switches, NotSwitching
  <2> QED
    BY <1>2, <2>2 DEF Write, TypeOK, SwitchTypeOK
<1> QED
  BY <1>1, <1>2 DEF SwitchStep

\* Updating a row's other fields leaves its state alone.
LEMMA RowStates ==
  ASSUME NEW d, NEW v, NEW w, row \in [Configs -> Rows],
         \/ row' = row
         \/ row' = [row EXCEPT ![d].active = v]
         \/ row' = [row EXCEPT ![d].charged[w] = v]
         \/ row' = [row EXCEPT ![d].paused = w, ![d].active = v]
  PROVE  \A c \in Configs : row'[c].state = row[c].state
<1> SUFFICES ASSUME NEW c \in Configs PROVE row'[c].state = row[c].state
  OBVIOUS
<1>1. /\ [row[c] EXCEPT !.active = v].state = row[c].state
      /\ [row[c] EXCEPT !.charged[w] = v].state = row[c].state
      /\ [row[c] EXCEPT !.paused = w, !.active = v].state = row[c].state
  <2>1. row[c] \in Rows
    OBVIOUS
  <2> QED
    BY <2>1 DEF Rows
<1>2. CASE row' = [row EXCEPT ![d].active = v]
  BY <1>1, <1>2
<1>3. CASE row' = [row EXCEPT ![d].charged[w] = v]
  BY <1>1, <1>3
<1>4. CASE row' = [row EXCEPT ![d].paused = w, ![d].active = v]
  <2>1. row'[c] = row[c] \/ row'[c] = [row[c] EXCEPT !.paused = w, !.active = v]
    BY <1>4
  <2> QED
    BY <1>1, <2>1
<1> QED
  BY <1>2, <1>3, <1>4

\* A run makes and deletes nothing.
LEMMA RunOnlyAround ==
  ASSUME TypeOK, NEW b \in Billers, Run(b) \/ BillFails(b)
  PROVE  OnlyAround
<1> USE TypeParts
<1>1. \A o \in Owners : at'[o] = at[o]
  <2>1. \A o \in Owners : o # b
    OBVIOUS
  <2>2. at' = at \/ \E s : at' = [at EXCEPT ![b] = s]
    BY DEF Run, BillFails, StartRun, Bill, ReadMeters, Debit, DebitFails, Book, BookFails,
           Settle, Reconcile, ReadWallets, ReadConfigs, SwitchConfig, Switching,
           FollowSwitch, Goto, EndRun, Finish
  <2> QED
    BY <2>1, <2>2 DEF AtOK
<1>2. \A c \in Configs : row'[c].state = row[c].state
  <2>1. CASE Book(b)
    <3> DEFINE d == at[b].item.config
               k == at[b].item.meter
    <3>1. row' = [row EXCEPT ![d].charged[k] = at[b].bill[d].cost[k]] \/ row' = row
      BY <2>1 DEF Book
    <3> QED
      BY <3>1, RowStates DEF DataOK
  <2>2. CASE FollowSwitch(b)
    <3>1. \/ row' = [row EXCEPT ![switch[b].config].active = (switch[b].want = "on")]
          \/ row' = row
      BY <2>2 DEF FollowSwitch
    <3> QED
      BY <3>1, RowStates DEF DataOK
  <2>3. row' = row \/ Book(b) \/ FollowSwitch(b)
    BY DEF Run, BillFails, StartRun, Bill, ReadMeters, Debit, DebitFails, BookFails,
           Reconcile, ReadWallets, ReadConfigs, SwitchConfig, Switching, EndRun
  <2> QED
    BY <2>1, <2>2, <2>3
<1>3. \A c \in Configs : client'[c] = "none" <=> client[c] = "none"
  <2>1. client' = client \/ Switching(b)
    BY DEF Run, BillFails, StartRun, Bill, ReadMeters, Debit, DebitFails, Book, BookFails,
           Reconcile, ReadWallets, ReadConfigs, SwitchConfig, FollowSwitch, EndRun
  <2> QED
    BY <2>1, SwitchKeepsClients DEF Switching
<1> QED
  BY <1>1, <1>2, <1>3 DEF OnlyAround

\* Nor does the owner by pausing.
LEMMA PauseOnlyAround ==
  ASSUME TypeOK, NEW o \in Owners,
         \/ \E c \in Configs, paused \in BOOLEAN : PauseLoad(o, c, paused)
         \/ PauseWrite(o) \/ Switching(o) \/ PauseReturn(o)
  PROVE  OnlyAround
<1> USE TypeParts DEF OnlyAround, Making
<1>1. CASE \E c \in Configs, paused \in BOOLEAN : PauseLoad(o, c, paused)
  BY <1>1 DEF PauseLoad, AtOK, Idle
<1>2. CASE PauseWrite(o)
  <2>1. \A q \in Owners : at'[q] = at[q]
                          \/ (q = o /\ at[q].pc = "pause" /\ at'[q].pc = "pausing")
    <3>1. at' = [at EXCEPT ![o] = [at[o] EXCEPT !.pc = "pausing"]] /\ at[o].pc = "pause"
      BY <1>2 DEF PauseWrite, Goto, At
    <3>2. at[o] \in AtPause
      BY <3>1, PlaceOf DEF AtOK
    <3>3. [at[o] EXCEPT !.pc = "pausing"].pc = "pausing"
      BY <3>2 DEF AtPause
    <3> QED
      BY <3>1, <3>3 DEF AtOK
  <2>2. \A c \in Configs : row'[c].state = row[c].state
    <3>1. \/ row' = row
          \/ row' = [row EXCEPT ![at[o].config].paused = at[o].paused,
                                ![at[o].config].active = at[o].active]
      BY <1>2 DEF PauseWrite
    <3> QED
      BY <3>1, RowStates DEF DataOK
  <2> QED
    BY <1>2, <2>1, <2>2 DEF PauseWrite
<1>3. CASE Switching(o)
  BY <1>3, SwitchKeepsClients DEF Switching
<1>4. CASE PauseReturn(o)
  BY <1>4 DEF PauseReturn, Finish, At, AtOK, Idle
<1> QED
  BY <1>1, <1>2, <1>3, <1>4

\* Every step makes or deletes a config, or leaves that alone, or kills everyone.
LEMMA StepKinds ==
  ASSUME TypeOK, [Next]_vars
  PROVE  OnlyAround \/ MakingStep \/ Crash
<1>1. ASSUME NEW b \in Billers, Run(b) \/ BillFails(b) PROVE OnlyAround
  BY <1>1, RunOnlyAround
<1>2. ASSUME NEW o \in Owners, Ask(o) \/ Serve(o) PROVE OnlyAround \/ MakingStep
  BY <1>2, PauseOnlyAround DEF Ask, Serve, MakingStep
<1>3. CASE Around
  <2>1. ASSUME NEW u \in Users, TopUp(u) \/ \E on \in BOOLEAN : SetBlocked(u, on)
        PROVE  OnlyAround
    BY <2>1 DEF TopUp, SetBlocked, OnlyAround
  <2>2. ASSUME NEW c \in Configs, Use(c) \/ ResetMeter(c) \/ DayPasses(c)
        PROVE  OnlyAround
    BY <2>2 DEF Use, ResetMeter, DayPasses, OnlyAround
  <2> QED
    BY <1>3, <2>1, <2>2 DEF Around
<1>4. CASE UNCHANGED vars
  BY <1>4 DEF vars, OnlyAround
<1> QED
  BY <1>1, <1>2, <1>3, <1>4 DEF Next

\* When one owner makes or deletes a config, the other goroutines stay where they are.
LEMMA OthersStay ==
  ASSUME NEW o \in Owners,
         \/ \E c \in Configs : CreateCheck(o, c) \/ DeleteLoad(o, c)
         \/ CreateClient(o) \/ InsertConfig(o) \/ DeleteClient(o) \/ DeleteRow(o),
         TypeOK
  PROVE  \A q \in Callers : q # o => at'[q] = at[q]
BY TypeParts DEF AtOK, CreateCheck, DeleteLoad, CreateClient, InsertConfig, DeleteClient,
                 DeleteRow, Goto, Finish

\* A step of making a config: who moves, and where to.
LEMMA MakersMove ==
  ASSUME TypeOK, NEW o \in Owners
  PROVE  /\ \A c \in Configs : CreateCheck(o, c) =>
              /\ at[o] = Idle /\ at'[o].pc = "create" /\ at'[o].config = c
              /\ row' = row /\ client' = client
         /\ \A c \in Configs : DeleteLoad(o, c) =>
              /\ at[o] = Idle /\ at'[o].pc = "delete" /\ at'[o].config = c
              /\ row' = row /\ client' = client
         /\ CreateClient(o) =>
              /\ at[o].pc = "create" /\ at[o].config \in Configs /\ row' = row
              /\ \/ /\ at'[o].pc = "insert" /\ at'[o].config = at[o].config
                    /\ client' = [client EXCEPT ![at[o].config] = "on"]
                 \/ at'[o] = Idle /\ client' = client
         /\ DeleteClient(o) =>
              /\ at[o].pc = "delete" /\ at[o].config \in Configs /\ row' = row
              /\ at'[o].pc = "forget" /\ at'[o].config = at[o].config
              /\ \/ client' = [client EXCEPT ![at[o].config] = "none"]
                 \/ client' = client /\ at[o].config \in orphans'
         /\ InsertConfig(o) =>
              /\ at[o].pc = "insert" /\ at[o].config \in Configs /\ at'[o] = Idle
              /\ client' = client
              /\ \/ row' = [row EXCEPT ![at[o].config] = NewRow]
                 \/ row' = row /\ at[o].config \in orphans'
         /\ DeleteRow(o) =>
              /\ at[o].pc = "forget" /\ at[o].config \in Configs /\ at'[o] = Idle
              /\ row' = [row EXCEPT ![at[o].config].state = "deleted"] /\ client' = client
<1> USE TypeParts DEF AtOK
<1>1. at[o].pc \in Making => at[o] \in AtConfig /\ at[o].config \in Configs
  BY PlaceOf DEF Making, AtConfig
<1>2. ASSUME NEW pc \in Making, at[o].pc \in Making, at' = [at EXCEPT ![o].pc = pc]
      PROVE  at'[o].pc = pc /\ at'[o].config = at[o].config
  BY <1>1, <1>2 DEF AtConfig
<1>3. \A c \in Configs : CreateCheck(o, c) =>
        /\ at[o] = Idle /\ at'[o].pc = "create" /\ at'[o].config = c
        /\ row' = row /\ client' = client
  BY DEF CreateCheck
<1>4. \A c \in Configs : DeleteLoad(o, c) =>
        /\ at[o] = Idle /\ at'[o].pc = "delete" /\ at'[o].config = c
        /\ row' = row /\ client' = client
  BY DEF DeleteLoad
<1>5. CreateClient(o) =>
        /\ at[o].pc = "create" /\ at[o].config \in Configs /\ row' = row
        /\ \/ /\ at'[o].pc = "insert" /\ at'[o].config = at[o].config
              /\ client' = [client EXCEPT ![at[o].config] = "on"]
           \/ at'[o] = Idle /\ client' = client
  BY <1>1, <1>2 DEF CreateClient, At, Goto, Finish, Making
<1>6. DeleteClient(o) =>
        /\ at[o].pc = "delete" /\ at[o].config \in Configs /\ row' = row
        /\ at'[o].pc = "forget" /\ at'[o].config = at[o].config
        /\ \/ client' = [client EXCEPT ![at[o].config] = "none"]
           \/ client' = client /\ at[o].config \in orphans'
  BY <1>1, <1>2 DEF DeleteClient, At, Goto, Fault, Making
<1>7. InsertConfig(o) =>
        /\ at[o].pc = "insert" /\ at[o].config \in Configs /\ at'[o] = Idle
        /\ client' = client
        /\ \/ row' = [row EXCEPT ![at[o].config] = NewRow]
           \/ row' = row /\ at[o].config \in orphans'
  BY <1>1 DEF InsertConfig, At, Finish, Making
<1>8. DeleteRow(o) =>
        /\ at[o].pc = "forget" /\ at[o].config \in Configs /\ at'[o] = Idle
        /\ row' = [row EXCEPT ![at[o].config].state = "deleted"] /\ client' = client
  BY <1>1 DEF DeleteRow, At, Finish, Making
<1> QED
  BY <1>3, <1>4, <1>5, <1>6, <1>7, <1>8

LEMMA OneMakerStep == TypeOK /\ OneMaker /\ [Next]_vars => OneMaker'
<1> SUFFICES ASSUME TypeOK, OneMaker, [Next]_vars PROVE OneMaker'
  OBVIOUS
<1> USE DEF OneMaker, Idle
<1>1. row \in [Configs -> Rows] /\ \A o \in Owners : at[o].pc \in Making => at[o].config \in Configs
  BY TypeParts, PlaceOf DEF DataOK, AtOK, Making, AtConfig
<1>2. CASE OnlyAround
  BY <1>1, <1>2 DEF OnlyAround, Making
<1>3. ASSUME NEW o \in Owners, NEW c \in Configs, CreateCheck(o, c) PROVE OneMaker'
  <2>1. row[c].state = "none" /\ \A q \in Owners :
          at[q].pc \in {"create", "insert"} => at[q].config # c
    BY <1>3 DEF CreateCheck, Drawn
  <2>2. at'[o].pc = "create" /\ at'[o].config = c /\ row' = row
        /\ \A q \in Owners : q # o => at'[q] = at[q]
    BY <1>3, MakersMove, OthersStay
  <2> QED
    BY <2>1, <2>2
<1>4. ASSUME NEW o \in Owners, NEW c \in Configs, DeleteLoad(o, c) PROVE OneMaker'
  <2>1. row[c].state = "live"
    BY <1>4 DEF DeleteLoad, Live
  <2>2. at'[o].pc = "delete" /\ at'[o].config = c /\ row' = row
        /\ \A q \in Owners : q # o => at'[q] = at[q]
    BY <1>4, MakersMove, OthersStay
  <2> QED
    BY <2>1, <2>2
<1>5. ASSUME NEW o \in Owners, CreateClient(o) \/ DeleteClient(o) PROVE OneMaker'
  <2>1. /\ \/ at'[o] = Idle
           \/ at[o].pc = "create" /\ at'[o].pc = "insert" /\ at'[o].config = at[o].config
           \/ at[o].pc = "delete" /\ at'[o].pc = "forget" /\ at'[o].config = at[o].config
        /\ row' = row /\ \A q \in Owners : q # o => at'[q] = at[q]
    BY <1>5, MakersMove, OthersStay
  <2> QED
    BY <2>1
<1>6. ASSUME NEW o \in Owners, InsertConfig(o) PROVE OneMaker'
  <2> DEFINE d == at[o].config
  <2>1. at[o].pc = "insert" /\ d \in Configs /\ at'[o] = Idle
        /\ row' \in {row, [row EXCEPT ![d] = NewRow]}
        /\ \A q \in Owners : q # o => at'[q] = at[q]
    BY <1>6, MakersMove, OthersStay
  <2>2. CASE row' = row
    BY <2>1, <2>2
  <2>3. CASE row' = [row EXCEPT ![d] = NewRow]
    <3>1. row'[d].state = "live" /\ \A c \in Configs : c # d => row'[c] = row[c]
      BY <1>1, <2>1, <2>3 DEF NewRow
    <3> QED
      BY <1>1, <2>1, <3>1 DEF Making
  <2> QED
    BY <2>1, <2>2, <2>3
<1>7. ASSUME NEW o \in Owners, DeleteRow(o) PROVE OneMaker'
  <2> DEFINE d == at[o].config
  <2>1. at[o].pc = "forget" /\ d \in Configs /\ at'[o] = Idle
        /\ row' = [row EXCEPT ![d].state = "deleted"]
        /\ \A q \in Owners : q # o => at'[q] = at[q]
    BY <1>7, MakersMove, OthersStay
  <2>2. row'[d].state = "deleted" /\ \A c \in Configs : c # d => row'[c] = row[c]
    BY <1>1, <2>1 DEF Rows
  <2>3. row[d].state # "none"
    BY <2>1
  <2> QED
    BY <1>1, <2>1, <2>2, <2>3 DEF Making
<1>8. CASE Crash
  BY <1>8 DEF Crash
<1> QED
  BY <1>2, <1>3, <1>4, <1>5, <1>6, <1>7, <1>8, StepKinds DEF MakingStep

LEMMA OneMakerInit == Init => OneMaker
BY DEF Init, OneMaker, Idle

\* The client of a config that is about to be forgotten is gone, or would not go; and
\* every client there is has a row, an owner about to insert it, or an error or a restart
\* that kept it from one.
ClientsKnown ==
  /\ \A o \in Owners : at[o].pc = "forget" =>
       client[at[o].config] = "none" \/ at[o].config \in orphans
  /\ \A c \in Configs : client[c] # "none" =>
       \/ Live(c) \/ c \in orphans
       \/ \E o \in Owners : at[o].pc = "insert" /\ at[o].config = c

\* What was parted from its row is never counted as billed again.
LEMMA OrphansStay == ASSUME [Next]_vars PROVE orphans \subseteq orphans'
<1>1. ASSUME NEW b \in Billers, Run(b) \/ BillFails(b) PROVE UNCHANGED orphans
  BY <1>1 DEF Run, BillFails, StartRun, Bill, ReadMeters, Debit, DebitFails, Book, BookFails,
              Reconcile, ReadWallets, ReadConfigs, SwitchConfig, Switching, FollowSwitch,
              EndRun, world
<1>2. ASSUME NEW o \in Owners, Ask(o) \/ Serve(o) PROVE orphans \subseteq orphans'
  BY <1>2 DEF Ask, Serve, PauseLoad, CreateCheck, DeleteLoad, PauseWrite, Switching,
              PauseReturn, CreateClient, InsertConfig, DeleteClient, DeleteRow, world
<1>3. CASE Around
  BY <1>3 DEF Around, TopUp, SetBlocked, Use, ResetMeter, DayPasses, Crash, world
<1>4. CASE UNCHANGED vars
  BY <1>4 DEF vars, world
<1> QED
  BY <1>1, <1>2, <1>3, <1>4 DEF Next

LEMMA ClientsKnownStep ==
  ASSUME TypeOK, OneMaker, ClientsKnown, [Next]_vars
  PROVE  ClientsKnown'
<1>0. orphans \subseteq orphans'
  BY OrphansStay
<1>1. /\ row \in [Configs -> Rows] /\ client \in [Configs -> {"none", "on", "off"}]
      /\ \A o \in Owners : at[o].pc \in Making => at[o].config \in Configs
  BY TypeParts, PlaceOf DEF DataOK, SwitchTypeOK, AtOK, Making, AtConfig
<1>2. CASE OnlyAround
  BY <1>0, <1>1, <1>2 DEF OnlyAround, Making, ClientsKnown, Live, Idle
<1>3. ASSUME NEW o \in Owners, NEW c \in Configs, CreateCheck(o, c) \/ DeleteLoad(o, c)
      PROVE  ClientsKnown'
  <2>1. at'[o].pc \in {"create", "delete"} /\ at[o] = Idle /\ row' = row /\ client' = client
        /\ \A q \in Owners : q # o => at'[q] = at[q]
    BY <1>3, MakersMove, OthersStay
  <2> QED
    BY <1>0, <2>1 DEF ClientsKnown, Live, Idle
<1>4. ASSUME NEW o \in Owners, CreateClient(o) PROVE ClientsKnown'
  <2> DEFINE d == at[o].config
  <2>1. /\ at[o].pc = "create" /\ d \in Configs /\ row' = row
        /\ \A q \in Owners : q # o => at'[q] = at[q]
    BY <1>4, MakersMove, OthersStay
  <2>2. CASE at'[o] = Idle /\ client' = client
    BY <1>0, <2>1, <2>2 DEF ClientsKnown, Live, Idle
  <2>3. CASE /\ at'[o].pc = "insert" /\ at'[o].config = d
             /\ client' = [client EXCEPT ![d] = "on"]
    <3>1. \A q \in Owners : at[q].pc = "forget" => at[q].config # d
      BY <2>1 DEF OneMaker
    <3> QED
      BY <1>0, <1>1, <2>1, <2>3, <3>1 DEF Making, ClientsKnown, Live, Idle
  <2> QED
    BY <1>4, <2>2, <2>3, MakersMove
<1>5. ASSUME NEW o \in Owners, DeleteClient(o) PROVE ClientsKnown'
  <2> DEFINE d == at[o].config
  <2>1. /\ at[o].pc = "delete" /\ d \in Configs /\ row' = row
        /\ at'[o].pc = "forget" /\ at'[o].config = d
        /\ \A q \in Owners : q # o => at'[q] = at[q]
    BY <1>5, MakersMove, OthersStay
  <2>2. CASE client' = [client EXCEPT ![d] = "none"]
    BY <1>0, <1>1, <2>1, <2>2 DEF Making, ClientsKnown, Live, Idle
  <2>3. CASE client' = client /\ d \in orphans'
    BY <1>0, <1>1, <2>1, <2>3 DEF Making, ClientsKnown, Live, Idle
  <2> QED
    BY <1>5, <2>2, <2>3, MakersMove
<1>6. ASSUME NEW o \in Owners, InsertConfig(o) PROVE ClientsKnown'
  <2> DEFINE d == at[o].config
  <2>1. at[o].pc = "insert" /\ d \in Configs /\ at'[o] = Idle /\ client' = client
        /\ \A q \in Owners : q # o => at'[q] = at[q]
    BY <1>6, MakersMove, OthersStay
  <2>2. CASE row' = [row EXCEPT ![d] = NewRow]
    <3>1. row'[d].state = "live" /\ \A c \in Configs : c # d => row'[c] = row[c]
      BY <1>1, <2>1, <2>2 DEF NewRow
    <3> QED
      BY <1>0, <1>1, <2>1, <3>1 DEF ClientsKnown, Live, Idle
  <2>3. CASE row' = row /\ d \in orphans'
    BY <1>0, <1>1, <2>1, <2>3 DEF ClientsKnown, Live, Idle
  <2> QED
    BY <1>6, <2>2, <2>3, MakersMove
<1>7. ASSUME NEW o \in Owners, DeleteRow(o) PROVE ClientsKnown'
  <2> DEFINE d == at[o].config
  <2>1. at[o].pc = "forget" /\ d \in Configs /\ at'[o] = Idle
        /\ row' = [row EXCEPT ![d].state = "deleted"] /\ client' = client
        /\ \A q \in Owners : q # o => at'[q] = at[q]
    BY <1>7, MakersMove, OthersStay
  <2>2. /\ client[d] = "none" \/ d \in orphans
        /\ \A c \in Configs : c # d => row'[c] = row[c]
    BY <1>1, <2>1 DEF ClientsKnown
  <2> QED
    BY <1>0, <1>1, <2>1, <2>2 DEF ClientsKnown, Live, Idle
<1>8. CASE Crash
  <2>1. \A c \in Configs : (\E o \in Owners : Parted(o, c)) => c \in orphans'
    BY <1>8 DEF Crash
  <2>2. \A o \in Owners : at'[o].pc = "idle"
    BY <1>8 DEF Crash, Idle
  <2>3. row' = row /\ client' = client
    BY <1>8 DEF Crash
  <2> QED
    BY <1>0, <2>1, <2>2, <2>3 DEF ClientsKnown, Parted, At, Live
<1> QED
  BY <1>2, <1>3, <1>4, <1>5, <1>6, <1>7, <1>8, StepKinds DEF MakingStep

LEMMA ClientsKnownInit == Init => ClientsKnown
BY DEF Init, SwitchInit, ClientsKnown, Idle

\* Whatever the billers, the owners and the toggles of the client service do at the same
\* time (CreateConfig makes the client before the row, DeleteConfig removes it before the
\* row), a client that moves traffic belongs to a config that is billed, to one that is
\* just being made or removed, or to one whose insertion or removal failed or was cut
\* short by a restart.
THEOREM NoClientUnbilled == Spec => []EveryClientBilled
<1> DEFINE IInv == TypeOK /\ OneMaker /\ ClientsKnown
<1>1. Init => IInv
  BY TypeInit, OneMakerInit, ClientsKnownInit
<1>2. IInv /\ [Next]_vars => IInv'
  BY TypeStep, OneMakerStep, ClientsKnownStep
<1>3. IInv => EveryClientBilled
  BY DEF ClientsKnown, EveryClientBilled
<1> QED
  BY <1>1, <1>2, <1>3, PTL DEF Spec

-----------------------------------------------------------------------------
\* The books, while a single goroutine bills and dies in the middle of nothing.

OneBiller == \A b, d \in Billers : b = d

Billing == {"meters", "bill", "days", "book"}

\* The rows a run has read: what they say was charged is what was debited.
RowsRead(b) ==
  \A c \in Configs :
    /\ row[c].state = "none" => at[b].rows[c].state = "none"
    /\ at[b].rows[c].state # "deleted" => at[b].rows[c].charged = debited[c]

\* A bill has nothing against a config, or starts from what was debited.
BillRight(b, c) ==
  LET account == at[b].bill[c] IN
    /\ account.charged = debited[c] \/ account.cost = account.charged
    /\ row[c].state = "none" => account.cost = account.charged

\* Between a debit and its booking, one item is debited that the row has not heard of.
Booking(b) ==
  LET d == at[b].item.config
      account == at[b].bill[d]
      k == at[b].item.meter
  IN /\ row[d].state # "none"
     /\ debited[d] = [account.charged EXCEPT ![k] = account.cost[k]]
     /\ Live(d) => row[d].charged = account.charged
     /\ \A c \in Configs \ {d} : BillRight(b, c) /\ (Live(c) => row[c].charged = debited[c])

Books ==
  /\ \A c \in Configs :
       row[c].state = "none" => row[c].charged = Nothing /\ debited[c] = Nothing
  /\ (\A b \in Billers : at[b].pc # "book") =>
       \A c \in Configs : Live(c) => row[c].charged = debited[c]
  /\ \A b \in Billers :
       /\ at[b].pc = "meters" => RowsRead(b)
       /\ at[b].pc \in {"bill", "days"} => \A c \in Configs : BillRight(b, c)
       /\ at[b].pc = "book" => Booking(b)

\* Steps that leave the money, and the runs that count it, alone.
Quiet ==
  /\ debited' = debited
  /\ \A c \in Configs :
       \/ row'[c].charged = row[c].charged /\ row'[c].state = row[c].state
       \/ row[c].state = "none" /\ row'[c].state = "live" /\ row'[c].charged = Nothing
       \/ row[c].state # "none" /\ row'[c].state = "deleted"
            /\ row'[c].charged = row[c].charged
  /\ \A b \in Billers : at'[b] = at[b] \/ (at[b].pc \notin Billing /\ at'[b].pc \notin Billing)

\* What a run that bills carries.
LEMMA BillingType ==
  ASSUME TypeOK, NEW b \in Callers
  PROVE  /\ at[b].pc = "meters" => at[b].rows \in [Configs -> Rows]
         /\ at[b].pc \in {"bill", "days", "book"} => at[b].bill \in Bills
         /\ at[b].pc \in {"days", "book"} =>
              /\ at[b].item \in Items
              /\ at[b].item.config \in Configs /\ at[b].item.meter \in Meters
BY TypeParts, PlaceOf DEF AtOK, AtMeters, AtBill, AtItem, Items

LEMMA QuietBooks == TypeOK /\ Books /\ Quiet => Books'
<1> SUFFICES ASSUME TypeOK, Books, Quiet PROVE Books'
  OBVIOUS
<1>1. ASSUME NEW c \in Configs, row'[c].state = "none"
      PROVE  row'[c].charged = Nothing /\ debited'[c] = Nothing
  BY <1>1 DEF Books, Quiet
<1>2. ASSUME \A b \in Billers : at'[b].pc # "book",
             NEW c \in Configs, row'[c].state = "live"
      PROVE  row'[c].charged = debited'[c]
  <2>1. \A b \in Billers : at[b].pc # "book"
    BY <1>2 DEF Quiet, Billing
  <2> QED
    BY <1>2, <2>1 DEF Books, Quiet, Live
<1>3. ASSUME NEW b \in Billers, at'[b].pc \in Billing
      PROVE  at'[b] = at[b]
  BY <1>3 DEF Quiet
<1>4. ASSUME NEW b \in Billers, at'[b].pc = "meters" PROVE RowsRead(b)'
  BY <1>3, <1>4 DEF Books, Quiet, RowsRead, Billing
<1>5. ASSUME NEW b \in Billers, at'[b] = at[b], NEW c \in Configs, BillRight(b, c)
      PROVE  BillRight(b, c)'
  BY <1>5 DEF Quiet, BillRight
<1>6. ASSUME NEW b \in Billers, at'[b].pc \in {"bill", "days"}, NEW c \in Configs
      PROVE  BillRight(b, c)'
  BY <1>3, <1>5, <1>6 DEF Books, Billing
<1>7. ASSUME NEW b \in Billers, at'[b].pc = "book" PROVE Booking(b)'
  <2> DEFINE d == at[b].item.config
  <2>1. at'[b] = at[b] /\ Booking(b)
    BY <1>3, <1>7 DEF Billing, Books
  <2>2. \A c \in Configs \ {d} : BillRight(b, c)'
    BY <1>5, <2>1 DEF Booking
  <2>3. \A c \in Configs \ {d} : Live(c)' => row'[c].charged = debited'[c]
    BY <2>1 DEF Booking, Quiet, Live, Books
  <2>4. row'[d].state # "none" /\ (Live(d)' => row'[d].charged = at[b].bill[d].charged)
    <3>1. d \in Configs
      BY <1>7, <2>1, BillingType
    <3> QED
      BY <2>1, <3>1 DEF Booking, Quiet, Live
  <2> QED
    BY <2>1, <2>2, <2>3, <2>4 DEF Booking, Quiet
<1> QED
  BY <1>1, <1>2, <1>4, <1>6, <1>7 DEF Books, Live

\* All steps but six of the run are quiet.
Counting(b) ==
  \/ StartRun(b) \/ ReadMeters(b) \/ Book(b) \/ ReadWallets(b)
  \/ \E c \in Configs, k \in Meters : Debit(b, c, k) \/ DebitFails(b, c, k)

\* Updating a row's other fields leaves what was charged alone.
LEMMA RowCharges ==
  ASSUME NEW d, NEW v, NEW w, row \in [Configs -> Rows],
         \/ row' = row
         \/ row' = [row EXCEPT ![d].active = v]
         \/ row' = [row EXCEPT ![d].paused = w, ![d].active = v]
  PROVE  \A c \in Configs : row'[c].charged = row[c].charged
<1> SUFFICES ASSUME NEW c \in Configs PROVE row'[c].charged = row[c].charged
  OBVIOUS
<1>1. /\ [row[c] EXCEPT !.active = v].charged = row[c].charged
      /\ [row[c] EXCEPT !.paused = w, !.active = v].charged = row[c].charged
  <2>1. row[c] \in Rows
    OBVIOUS
  <2> QED
    BY <2>1 DEF Rows
<1>2. CASE row' = [row EXCEPT ![d].active = v]
  BY <1>1, <1>2
<1>3. CASE row' = [row EXCEPT ![d].paused = w, ![d].active = v]
  <2>1. row'[c] = row[c] \/ row'[c] = [row[c] EXCEPT !.paused = w, !.active = v]
    BY <1>3
  <2> QED
    BY <1>1, <2>1
<1> QED
  BY <1>2, <1>3

\* Reconciling is quiet but for its first step ...
LEMMA ReconcileQuiet ==
  ASSUME TypeOK, OneBiller, NEW b \in Billers, Reconcile(b), ~ReadWallets(b)
  PROVE  Quiet
<1> USE TypeParts DEF Billing
<1>1. debited' = debited
  BY DEF Reconcile, ReadConfigs, SwitchConfig, Switching, FollowSwitch, EndRun
<1>2. \A c \in Configs : row'[c].charged = row[c].charged /\ row'[c].state = row[c].state
  <2>1. \/ row' = row
        \/ row' = [row EXCEPT ![switch[b].config].active = (switch[b].want = "on")]
    BY DEF Reconcile, ReadConfigs, SwitchConfig, Switching, FollowSwitch, EndRun
  <2>2. row \in [Configs -> Rows]
    BY DEF DataOK
  <2> HIDE TypeParts
  <2>3. \A c \in Configs : row'[c].state = row[c].state
    BY <2>1, <2>2, RowStates
  <2>4. \A c \in Configs : row'[c].charged = row[c].charged
    BY <2>1, <2>2, RowCharges
  <2> QED
    BY <2>3, <2>4
<1>3. at'[b] = at[b] \/ (at[b].pc \notin Billing /\ at'[b].pc \notin Billing)
  <2>1. CASE Switching(b)
    BY <2>1 DEF Switching
  <2>2. CASE ~Switching(b)
    <3>1. at[b].pc \in {"wallets", "switching"} /\ at[b] \in AtWallets
      BY <2>2, PlaceOf DEF Reconcile, ReadConfigs, SwitchConfig, FollowSwitch, EndRun, At,
                           AtOK
    <3>2. at'[b].pc \in {"wallets", "switching", "idle"}
      <4>1. CASE \E u \in Users : ReadConfigs(b, u)
        BY <3>1, <4>1 DEF ReadConfigs, AtOK, AtWallets
      <4>2. CASE SwitchConfig(b)
        BY <3>1, <4>2 DEF SwitchConfig, AtOK, AtWallets
      <4>3. CASE FollowSwitch(b)
        BY <3>1, <4>3 DEF FollowSwitch, Goto, AtOK, AtWallets
      <4>4. CASE EndRun(b)
        BY <4>4 DEF EndRun, Finish, AtOK, Idle
      <4> QED
        BY <2>2, <4>1, <4>2, <4>3, <4>4 DEF Reconcile
    <3> QED
      BY <3>1, <3>2
  <2> QED
    BY <2>1, <2>2
<1> QED
  BY <1>1, <1>2, <1>3 DEF Quiet, OneBiller

\* ... the owner's calls always are ...
LEMMA OwnerQuiet ==
  ASSUME TypeOK, OneMaker, NEW o \in Owners, Ask(o) \/ Serve(o)
  PROVE  Quiet
<1> USE TypeParts
<1>1. debited' = debited
  BY DEF Ask, Serve, PauseLoad, CreateCheck, DeleteLoad, PauseWrite, Switching, PauseReturn,
         CreateClient, InsertConfig, DeleteClient, DeleteRow
<1>2. \A b \in Billers : at'[b] = at[b]
  <2>1. at' = at \/ \E s : at' = [at EXCEPT ![o] = s]
    BY DEF Ask, Serve, PauseLoad, CreateCheck, DeleteLoad, PauseWrite, Switching,
           PauseReturn, CreateClient, InsertConfig, DeleteClient, DeleteRow, Goto, Finish
  <2> QED
    BY <2>1 DEF AtOK
<1> DEFINE d == at[o].config
<1>3. CASE InsertConfig(o) /\ row' # row
  <2>1. d \in Configs /\ row' = [row EXCEPT ![d] = NewRow] /\ row[d].state = "none"
    BY <1>3, MakersMove DEF OneMaker
  <2>2. \A c \in Configs : c # d => row'[c] = row[c]
    BY <2>1 DEF DataOK
  <2>3. row'[d].state = "live" /\ row'[d].charged = Nothing
    BY <2>1 DEF DataOK, NewRow
  <2> QED
    BY <1>1, <1>2, <2>1, <2>2, <2>3 DEF Quiet
<1>4. CASE DeleteRow(o)
  <2>1. d \in Configs /\ row' = [row EXCEPT ![d].state = "deleted"] /\ row[d].state # "none"
    BY <1>4, MakersMove DEF OneMaker
  <2>2. \A c \in Configs : c # d => row'[c] = row[c]
    BY <2>1 DEF DataOK
  <2>3. row'[d].state = "deleted" /\ row'[d].charged = row[d].charged
    BY <2>1 DEF DataOK, Rows
  <2> QED
    BY <1>1, <1>2, <2>1, <2>2, <2>3 DEF Quiet
<1>5. CASE ~(InsertConfig(o) /\ row' # row) /\ ~DeleteRow(o)
  <2>1. \/ row' = row
        \/ row' = [row EXCEPT ![d].paused = at[o].paused, ![d].active = at[o].active]
    BY <1>5 DEF Ask, Serve, PauseLoad, CreateCheck, DeleteLoad, PauseWrite, Switching,
                PauseReturn, CreateClient, DeleteClient
  <2>2. \A c \in Configs : row'[c].charged = row[c].charged /\ row'[c].state = row[c].state
    BY <2>1, RowStates, RowCharges DEF DataOK
  <2> QED
    BY <1>1, <1>2, <2>2 DEF Quiet
<1> QED
  BY <1>3, <1>4, <1>5

\* ... and so is the rest of the world.
LEMMA QuietSteps ==
  ASSUME TypeOK, OneMaker, OneBiller, Faults \cap {"crash", "book"} = {}, [Next]_vars
  PROVE  Quiet \/ \E b \in Billers : Counting(b)
<1>1. ASSUME NEW b \in Billers, Run(b) \/ BillFails(b)
      PROVE  Quiet \/ Counting(b)
  <2>1. ~BookFails(b)
    BY DEF BookFails, Fault
  <2> QED
    BY <1>1, <2>1, ReconcileQuiet DEF Run, Bill, BillFails, Counting, Reconcile
<1>2. ASSUME NEW o \in Owners, Ask(o) \/ Serve(o) PROVE Quiet
  BY <1>2, OwnerQuiet
<1>3. CASE Around
  <2>1. ~Crash
    BY DEF Crash, Fault
  <2>2. UNCHANGED <<row, at, debited>>
    BY <1>3, <2>1 DEF Around, TopUp, SetBlocked, Use, ResetMeter, DayPasses
  <2> QED
    BY <2>2 DEF Quiet
<1>4. CASE UNCHANGED vars
  BY <1>4 DEF vars, Quiet
<1> QED
  BY <1>1, <1>2, <1>3, <1>4 DEF Next

\* The steps of the one run that counts money keep the books.
LEMMA StartRunBooks ==
  ASSUME TypeOK, Books, OneBiller, NEW b \in Billers, StartRun(b)
  PROVE  Books'
<1>1. /\ at'[b].pc = "meters" /\ at'[b].rows = row /\ at[b].pc = "idle"
      /\ row' = row /\ debited' = debited
  BY TypeParts DEF StartRun, AtOK, Idle
<1>2. \A c \in Configs : row[c].state \in {"none", "live", "deleted"}
  BY TypeParts DEF DataOK, Rows
<1>3. \A c \in Configs : Live(c) => row[c].charged = debited[c]
  BY <1>1 DEF Books, OneBiller
<1>4. RowsRead(b)'
  BY <1>1, <1>2, <1>3 DEF RowsRead, Books, Live
<1> QED
  BY <1>1, <1>3, <1>4 DEF Books, OneBiller, Live

LEMMA ReadMetersBooks ==
  ASSUME TypeOK, Books, OneBiller, NEW b \in Billers, ReadMeters(b)
  PROVE  Books'
<1> DEFINE rows == at[b].rows
<1>1. /\ at[b].pc = "meters" /\ at'[b].pc = "bill" /\ row' = row /\ debited' = debited
      /\ \A c \in Configs : /\ at'[b].bill[c].cost = CostOf(c, rows[c])
                            /\ at'[b].bill[c].charged = rows[c].charged
  <2> DEFINE bill == [c \in Configs |-> [cost |-> CostOf(c, rows[c]),
                                         charged |-> rows[c].charged]]
  <2>1. /\ at[b].pc = "meters" /\ row' = row /\ debited' = debited
        /\ at'[b].pc = "bill" /\ at'[b].bill = bill
    BY TypeParts DEF ReadMeters, At, AtOK
  <2>2. \A c \in Configs : bill[c].cost = CostOf(c, rows[c])
                           /\ bill[c].charged = rows[c].charged
    OBVIOUS
  <2> HIDE DEF bill, rows
  <2> QED
    BY <2>1, <2>2
<1>2. RowsRead(b)
  BY <1>1 DEF Books
<1>3. ASSUME NEW c \in Configs PROVE BillRight(b, c)'
  <2>1. rows[c].state # "live" => CostOf(c, rows[c]) = rows[c].charged
    BY DEF CostOf
  <2>2. rows[c].state # "deleted" => rows[c].charged = debited[c]
    BY <1>2 DEF RowsRead
  <2>3. row[c].state = "none" => rows[c].state = "none"
    BY <1>2 DEF RowsRead
  <2>4. at'[b].bill[c].cost = CostOf(c, rows[c])
        /\ at'[b].bill[c].charged = rows[c].charged
    BY <1>1
  <2>5. rows[c].charged = debited'[c] \/ CostOf(c, rows[c]) = rows[c].charged
    BY <1>1, <2>1, <2>2
  <2>6. row'[c].state = "none" => CostOf(c, rows[c]) = rows[c].charged
    BY <1>1, <2>1, <2>3
  <2> QED
    BY <2>4, <2>5, <2>6 DEF BillRight
<1>4. \A c \in Configs : Live(c) => row[c].charged = debited[c]
  BY <1>1 DEF Books, OneBiller
<1> QED
  BY <1>1, <1>3, <1>4 DEF Books, OneBiller, Live

LEMMA DebitBooks ==
  ASSUME TypeOK, Books, OneBiller, NEW b \in Billers, NEW d \in Configs, NEW k \in Meters,
         Debit(b, d, k)
  PROVE  Books' /\ debited' = [debited EXCEPT ![d][k] = at[b].bill[d].cost[k]]
<1> DEFINE account == at[b].bill[d]
<1>1. /\ at[b].pc \in {"bill", "days"} /\ Owed(b, d, k) > 0
      /\ debited' = [debited EXCEPT ![d][k] = @ + Owed(b, d, k)] /\ row' = row
      /\ at'[b].pc = "book" /\ at'[b].bill = at[b].bill
      /\ at'[b].item.config = d /\ at'[b].item.meter = k
  BY TypeParts DEF Debit, Due, AtOK
<1>2. account.cost[k] \in Int /\ account.charged[k] \in Int
      /\ Owed(b, d, k) = account.cost[k] - account.charged[k]
      /\ account.charged \in [Meters -> Int]
  BY <1>1, OwedType DEF Owed, Bills, Accounts
<1>3. \A c \in Configs : BillRight(b, c)
  BY <1>1 DEF Books
<1>4. account.cost # account.charged
  BY <1>1, <1>2
<1>5. account.charged = debited[d] /\ row[d].state # "none"
  BY <1>3, <1>4 DEF BillRight
<1>6. debited[d][k] + Owed(b, d, k) = account.cost[k]
  BY <1>2, <1>5
<1>7. /\ debited' = [debited EXCEPT ![d][k] = account.cost[k]]
      /\ debited'[d] = [account.charged EXCEPT ![k] = account.cost[k]]
      /\ \A c \in Configs : c # d => debited'[c] = debited[c]
  BY <1>1, <1>5, <1>6, TypeParts DEF DataOK
<1>8. \A c \in Configs : Live(c) => row[c].charged = debited[c]
  BY <1>1 DEF Books, OneBiller
<1>9. Booking(b)'
  BY <1>1, <1>3, <1>5, <1>7, <1>8 DEF Booking, BillRight, Live
<1>10. \A c \in Configs :
          row'[c].state = "none" => row'[c].charged = Nothing /\ debited'[c] = Nothing
  BY <1>1, <1>5, <1>7 DEF Books
<1>11. Books'
  BY <1>1, <1>9, <1>10 DEF Books, OneBiller
<1> QED
  BY <1>7, <1>11

LEMMA DebitFailsBooks ==
  ASSUME TypeOK, Books, OneBiller, NEW b \in Billers, NEW d \in Configs, NEW k \in Meters,
         DebitFails(b, d, k)
  PROVE  Books'
<1> DEFINE now == at[b].bill[d]
           given_up == IF k = "traffic" THEN Meters ELSE {k}
           cost == [m \in Meters |-> IF m \in given_up THEN now.charged[m] ELSE now.cost[m]]
<1>1. /\ at[b].pc \in {"bill", "days"} /\ row' = row /\ debited' = debited
      /\ at'[b].pc = "bill" /\ at'[b].bill = [at[b].bill EXCEPT ![d].cost = cost]
  BY TypeParts DEF DebitFails, Due, AtOK
<1>2. at[b].bill \in Bills /\ now.cost \in [Meters -> Int] /\ now.charged \in [Meters -> Int]
  BY <1>1, BillingType DEF Bills, Accounts
<1>3. now.cost = now.charged => cost = now.charged
  BY <1>2
<1>4. /\ at'[b].bill[d].cost = cost /\ at'[b].bill[d].charged = now.charged
      /\ \A c \in Configs : c # d => at'[b].bill[c] = at[b].bill[c]
  <2> HIDE DEF cost
  <2> QED
    BY <1>1, <1>2 DEF Bills, Accounts
<1>5. \A c \in Configs : BillRight(b, c)
  BY <1>1 DEF Books
<1>6. \A c \in Configs : BillRight(b, c)'
  <2> HIDE DEF cost
  <2> QED
    BY <1>1, <1>3, <1>4, <1>5 DEF BillRight
<1>7. \A c \in Configs : Live(c) => row[c].charged = debited[c]
  BY <1>1 DEF Books, OneBiller
<1> QED
  BY <1>1, <1>6, <1>7 DEF Books, OneBiller, Live

LEMMA BookBooks ==
  ASSUME TypeOK, Books, OneBiller, NEW b \in Billers, Book(b)
  PROVE  Books'
<1> DEFINE d == at[b].item.config
           k == at[b].item.meter
           now == at[b].bill[d]
           cost == now.cost[k]
<1>1. /\ at[b].pc = "book" /\ debited' = debited
      /\ row' = IF Live(d) THEN [row EXCEPT ![d].charged[k] = cost] ELSE row
      /\ at'[b].pc \in {"bill", "days"}
      /\ at'[b].bill = [at[b].bill EXCEPT ![d].charged[k] = cost]
  BY TypeParts DEF Book, At, Settle, AfterItem, AtOK
<1>2. d \in Configs /\ k \in Meters /\ at[b].bill \in Bills
  BY <1>1, BillingType
<1>3. Booking(b)
  BY <1>1 DEF Books
<1>4. /\ row[d].state # "none" /\ debited[d] = [now.charged EXCEPT ![k] = cost]
      /\ Live(d) => row[d].charged = now.charged
  BY <1>3 DEF Booking
<1> HIDE DEF cost
<1>5. /\ at'[b].bill[d].charged = debited[d]
      /\ \A c \in Configs : c # d => at'[b].bill[c] = at[b].bill[c]
  BY <1>1, <1>2, <1>4 DEF Bills, Accounts
<1>6. /\ \A c \in Configs : c # d => row'[c] = row[c]
      /\ row'[d].state = row[d].state
      /\ Live(d) => row'[d].charged = debited[d]
  <2>1. row[d] \in Rows /\ row \in [Configs -> Rows]
    BY <1>2, TypeParts DEF DataOK
  <2>2. [row[d] EXCEPT !.charged[k] = cost].state = row[d].state
        /\ [row[d] EXCEPT !.charged[k] = cost].charged = [row[d].charged EXCEPT ![k] = cost]
    BY <2>1 DEF Rows
  <2>3. CASE Live(d)
    <3>1. row' = [row EXCEPT ![d].charged[k] = cost]
      BY <1>1, <2>3
    <3>2. row'[d] = [row[d] EXCEPT !.charged[k] = cost]
          /\ \A c \in Configs : c # d => row'[c] = row[c]
      BY <1>2, <2>1, <3>1
    <3>3. [row[d].charged EXCEPT ![k] = cost] = debited[d]
      BY <1>4, <2>3
    <3> QED
      BY <2>2, <3>2, <3>3
  <2>4. CASE ~Live(d)
    BY <1>1, <2>4
  <2> QED
    BY <2>3, <2>4
<1>7. ASSUME NEW c \in Configs
      PROVE  BillRight(b, c)' /\ (Live(c)' => row'[c].charged = debited'[c])
  <2>1. CASE c = d
    BY <1>1, <1>4, <1>5, <1>6, <2>1 DEF BillRight, Live
  <2>2. CASE c # d
    <3>1. BillRight(b, c) /\ (Live(c) => row[c].charged = debited[c])
      BY <1>3, <2>2 DEF Booking
    <3>2. at'[b].bill[c] = at[b].bill[c] /\ row'[c] = row[c] /\ debited'[c] = debited[c]
      BY <1>1, <1>5, <1>6, <2>2
    <3> QED
      BY <3>1, <3>2 DEF BillRight, Live
  <2> QED
    BY <2>1, <2>2
<1>8. \A c \in Configs : row'[c].state = "none" => row'[c].charged = Nothing /\ debited'[c] = Nothing
  BY <1>1, <1>4, <1>6 DEF Books
<1> QED
  BY <1>1, <1>7, <1>8 DEF Books, OneBiller

LEMMA ReadWalletsBooks ==
  ASSUME TypeOK, Books, OneBiller, NEW b \in Billers, ReadWallets(b)
  PROVE  Books'
<1>1. at[b].pc = "bill" /\ at'[b].pc = "wallets" /\ row' = row /\ debited' = debited
  BY TypeParts DEF ReadWallets, At, AtOK
<1>2. \A c \in Configs : Live(c) => row[c].charged = debited[c]
  BY <1>1 DEF Books, OneBiller
<1> QED
  BY <1>1, <1>2 DEF Books, OneBiller, Live

LEMMA BooksStep ==
  ASSUME OneBiller, Faults \cap {"crash", "book"} = {},
         TypeOK, OneMaker, Books, [Next]_vars
  PROVE  Books'
BY QuietSteps, QuietBooks, StartRunBooks, ReadMetersBooks, DebitBooks, DebitFailsBooks,
   BookBooks, ReadWalletsBooks DEF Counting

LEMMA BooksInit == Init => Books
<1> SUFFICES ASSUME Init PROVE Books
  OBVIOUS
<1>1. \A c \in Configs : row[c].state = "none" /\ row[c].charged = Nothing
                         /\ debited[c] = Nothing
  BY DEF Init, NoRow
<1>2. \A b \in Billers : at[b].pc = "idle"
  BY DEF Init, Idle
<1> QED
  BY <1>1, <1>2 DEF Books, Live

\* While one goroutine bills, nobody dies and no update of a row is lost, a config's
\* row says between runs exactly what its owner was debited for it, whatever the
\* owners do meanwhile and however many debits fail.
THEOREM RowsTellWhatWasDebited ==
  ASSUME OneBiller, Faults \cap {"crash", "book"} = {}
  PROVE  Spec => []BooksMatchLedger
<1> DEFINE IInv == TypeOK /\ OneMaker /\ Books
<1>1. Init => IInv
  BY TypeInit, OneMakerInit, BooksInit
<1>2. IInv /\ [Next]_vars => IInv'
  BY TypeStep, OneMakerStep, BooksStep
<1>3. IInv => BooksMatchLedger
  <2> SUFFICES ASSUME TypeOK, Books, \A b \in Billers : ~InRun(b)
               PROVE  \A c \in Configs : Live(c) => row[c].charged = debited[c]
    BY DEF BooksMatchLedger
  <2>1. \A b \in Billers : at[b].pc # "book"
    BY TypeParts, PlaceOf DEF AtOK, AtItem, InRun, RunStates
  <2> QED
    BY <2>1 DEF Books
<1> QED
  BY <1>1, <1>2, <1>3, PTL DEF Spec

-----------------------------------------------------------------------------
\* What is owed is the price of traffic that was moved and of days that passed.

HasBill == {"bill", "days", "book"}

PricedFairly(b, c) ==
  /\ Owed(b, c, "traffic") > 0 =>
       \E m \in 0 .. moved[c] : at[b].bill[c].cost["traffic"] = TrafficCost(m)
  /\ Owed(b, c, "days") > 0 =>
       \E d \in 0 .. age[c] : at[b].bill[c].cost["days"] = d * PricePerDay

Pricing ==
  /\ \A c \in Configs : used[c] <= moved[c]
  /\ \A b \in Billers : at[b].pc \in HasBill => \A c \in Configs : PricedFairly(b, c)

\* Traffic and days only grow, and a meter never runs ahead of the traffic.
LEMMA WorldGrows ==
  ASSUME TypeOK, Pricing, [Next]_vars
  PROVE  \A c \in Configs : moved[c] <= moved'[c] /\ age[c] <= age'[c] /\ used'[c] <= moved'[c]
<1> USE TypeParts DEF DataOK, Pricing, world
<1> DEFINE Still == UNCHANGED <<used, age, moved>>
<1>1. CASE Still
  BY <1>1
<1>2. ASSUME NEW b \in Billers, Run(b) \/ BillFails(b) PROVE Still
  BY <1>2 DEF Run, BillFails, StartRun, Bill, ReadMeters, Debit, DebitFails, Book,
              BookFails, Reconcile, ReadWallets, ReadConfigs, SwitchConfig, Switching,
              FollowSwitch, EndRun
<1>3. ASSUME NEW o \in Owners, Ask(o) \/ Serve(o), ~DeleteClient(o)
      PROVE  Still
  BY <1>3 DEF Ask, Serve, PauseLoad, CreateCheck, DeleteLoad, PauseWrite, Switching,
              PauseReturn, CreateClient, InsertConfig, DeleteRow
<1>4. ASSUME NEW o \in Owners, DeleteClient(o)
      PROVE  \A c \in Configs : moved'[c] = moved[c] /\ age'[c] = age[c]
                                /\ (used'[c] = used[c] \/ used'[c] = 0)
  BY <1>4 DEF DeleteClient
<1>5. ASSUME NEW c \in Configs, Use(c)
      PROVE  /\ age' = age /\ moved'[c] = moved[c] + 1 /\ used'[c] = used[c] + 1
             /\ \A d \in Configs : d # c => moved'[d] = moved[d] /\ used'[d] = used[d]
  BY <1>5 DEF Use
<1>6. ASSUME NEW c \in Configs, ResetMeter(c)
      PROVE  /\ age' = age /\ moved' = moved
             /\ \A d \in Configs : used'[d] = used[d] \/ used'[d] = 0
  BY <1>6 DEF ResetMeter
<1>7. ASSUME NEW c \in Configs, DayPasses(c)
      PROVE  /\ used' = used /\ moved' = moved
             /\ \A d \in Configs : age'[d] = age[d] \/ age'[d] = age[d] + 1
  BY <1>7 DEF DayPasses
<1>8. ASSUME NEW u \in Users, TopUp(u) \/ \E on \in BOOLEAN : SetBlocked(u, on)
      PROVE  Still
  BY <1>8 DEF TopUp, SetBlocked
<1>9. Crash => Still
  BY DEF Crash
<1>10. UNCHANGED vars => Still
  BY DEF vars
<1> QED
  BY <1>1, <1>2, <1>3, <1>4, <1>5, <1>6, <1>7, <1>8, <1>9, <1>10 DEF Next, Around

\* Where a bill comes from.
LEMMA BillsKept ==
  ASSUME TypeOK, [Next]_vars, NEW b \in Billers, at'[b].pc \in HasBill
  PROVE  \/ ReadMeters(b)
         \/ \E c \in Configs, k \in Meters : DebitFails(b, c, k)
         \/ at[b].pc = "book" /\ Settle(b)
         \/ at[b].pc \in HasBill /\ at'[b].bill = at[b].bill
<1> USE TypeParts DEF HasBill
<1>1. CASE at'[b] = at[b]
  BY <1>1
<1>2. ASSUME NEW d \in Billers, Run(d) \/ BillFails(d), d # b PROVE at'[b] = at[b]
  <2>1. at' = at \/ \E s : at' = [at EXCEPT ![d] = s]
    BY <1>2 DEF Run, BillFails, StartRun, Bill, ReadMeters, Debit, DebitFails, Book,
           BookFails, Settle, Reconcile, ReadWallets, ReadConfigs, SwitchConfig, Switching,
           FollowSwitch, Goto, EndRun, Finish
  <2> QED
    BY <1>2, <2>1 DEF AtOK
<1>3. ASSUME NEW o \in Owners, Ask(o) \/ Serve(o) PROVE at'[b] = at[b]
  <2>1. at' = at \/ \E s : at' = [at EXCEPT ![o] = s]
    BY <1>3 DEF Ask, Serve, PauseLoad, CreateCheck, DeleteLoad, PauseWrite, Switching,
           PauseReturn, CreateClient, InsertConfig, DeleteClient, DeleteRow, Goto, Finish
  <2> QED
    BY <2>1 DEF AtOK
<1>4. CASE Around
  BY <1>1, <1>4 DEF Around, TopUp, SetBlocked, Use, ResetMeter, DayPasses, Crash, Idle
<1>5. CASE UNCHANGED vars
  BY <1>1, <1>5 DEF vars
<1>6. CASE StartRun(b)
  BY <1>6 DEF StartRun, AtOK
<1>7. ASSUME NEW c \in Configs, NEW k \in Meters, Debit(b, c, k)
      PROVE  at[b].pc \in HasBill /\ at'[b].bill = at[b].bill
  BY <1>7 DEF Debit, Due, AtOK
<1>8. CASE Book(b) \/ BookFails(b)
  BY <1>8 DEF Book, BookFails, At
<1>9. CASE ReadWallets(b)
  BY <1>9 DEF ReadWallets, AtOK
<1>10. ASSUME Reconcile(b), ~ReadWallets(b), at'[b] # at[b] PROVE FALSE
  <2>1. at[b].pc \in {"wallets", "switching"} /\ at[b] \in AtWallets
    BY <1>10, PlaceOf DEF Reconcile, ReadConfigs, SwitchConfig, Switching, FollowSwitch,
                          EndRun, At, AtOK
  <2>2. at'[b].pc \in {"wallets", "switching", "idle"}
    <3>1. CASE \E u \in Users : ReadConfigs(b, u)
      BY <2>1, <3>1 DEF ReadConfigs, AtOK, AtWallets
    <3>2. CASE SwitchConfig(b)
      BY <2>1, <3>2 DEF SwitchConfig, AtOK, AtWallets
    <3>3. CASE FollowSwitch(b)
      BY <2>1, <3>3 DEF FollowSwitch, Goto, AtOK, AtWallets
    <3>4. CASE EndRun(b)
      BY <3>4 DEF EndRun, Finish, AtOK, Idle
    <3> QED
      BY <1>10, <3>1, <3>2, <3>3, <3>4 DEF Reconcile, Switching
  <2> QED
    BY <2>2
<1>11. CASE Run(b) \/ BillFails(b)
  BY <1>1, <1>6, <1>7, <1>8, <1>9, <1>10, <1>11 DEF Run, Bill, BillFails
<1> QED
  BY <1>1, <1>2, <1>3, <1>4, <1>5, <1>11 DEF Next

\* A run that has a bill has a bill (BillingType, one step on).
LEMMA BillAfter ==
  ASSUME TypeOK', NEW b \in Billers, at'[b].pc \in HasBill
  PROVE  at'[b].bill \in Bills
BY TypeParts, PlaceOf DEF AtOK, AtBill, AtItem, HasBill

\* A price that was fair stays fair, and so does one that is no longer owed.
LEMMA StaysFair ==
  ASSUME TypeOK, NEW b \in Billers, NEW c \in Configs, PricedFairly(b, c),
         at[b].pc \in HasBill, at'[b].bill \in Bills,
         /\ moved[c] \in Nat /\ moved'[c] \in Nat /\ moved[c] <= moved'[c]
         /\ age[c] \in Nat /\ age'[c] \in Nat /\ age[c] <= age'[c],
         \A k \in Meters :
           \/ /\ at'[b].bill[c].cost[k] = at[b].bill[c].cost[k]
              /\ at'[b].bill[c].charged[k] = at[b].bill[c].charged[k]
           \/ at'[b].bill[c].cost[k] = at'[b].bill[c].charged[k]
  PROVE  PricedFairly(b, c)'
<1>1. \A k \in Meters : at'[b].bill[c].cost[k] \in Int /\ at'[b].bill[c].charged[k] \in Int
  BY DEF Bills, Accounts
<1>2. ASSUME Owed(b, c, "traffic")' > 0
      PROVE  \E m \in 0 .. moved'[c] : at'[b].bill[c].cost["traffic"] = TrafficCost(m)
  <2>1. /\ at'[b].bill[c].cost["traffic"] = at[b].bill[c].cost["traffic"]
        /\ at'[b].bill[c].charged["traffic"] = at[b].bill[c].charged["traffic"]
    BY <1>1, <1>2 DEF Owed, Meters
  <2>2. Owed(b, c, "traffic") > 0
    BY <1>2, <2>1 DEF Owed
  <2>3. PICK m \in 0 .. moved[c] : at[b].bill[c].cost["traffic"] = TrafficCost(m)
    BY <2>2 DEF PricedFairly
  <2>4. m \in 0 .. moved'[c]
    OBVIOUS
  <2> QED
    BY <2>1, <2>3, <2>4
<1>3. ASSUME Owed(b, c, "days")' > 0
      PROVE  \E d \in 0 .. age'[c] : at'[b].bill[c].cost["days"] = d * PricePerDay
  <2>1. /\ at'[b].bill[c].cost["days"] = at[b].bill[c].cost["days"]
        /\ at'[b].bill[c].charged["days"] = at[b].bill[c].charged["days"]
    BY <1>1, <1>3 DEF Owed, Meters
  <2>2. Owed(b, c, "days") > 0
    BY <1>3, <2>1 DEF Owed
  <2>3. PICK d \in 0 .. age[c] : at[b].bill[c].cost["days"] = d * PricePerDay
    BY <2>2 DEF PricedFairly
  <2>4. d \in 0 .. age'[c]
    OBVIOUS
  <2> QED
    BY <2>1, <2>3, <2>4
<1> QED
  BY <1>2, <1>3 DEF PricedFairly, TrafficCost

\* What a meter says is the price of traffic that was moved, or is not owed.
LEMMA MetersFair ==
  ASSUME TypeOK, Pricing, [Next]_vars, NEW b \in Billers, ReadMeters(b),
         NEW c \in Configs
  PROVE  PricedFairly(b, c)'
<1> DEFINE r == at[b].rows[c]
<1>1. /\ at'[b].bill[c].cost = CostOf(c, r) /\ at'[b].bill[c].charged = r.charged
      /\ at[b].pc = "meters" /\ moved' = moved /\ age' = age
  <2> DEFINE bill == [d \in Configs |-> [cost |-> CostOf(d, at[b].rows[d]),
                                         charged |-> at[b].rows[d].charged]]
  <2>1. /\ at[b].pc = "meters" /\ at'[b].bill = bill /\ moved' = moved /\ age' = age
    BY TypeParts DEF ReadMeters, At, AtOK, world
  <2>2. bill[c].cost = CostOf(c, r) /\ bill[c].charged = r.charged
    OBVIOUS
  <2> HIDE DEF bill, r
  <2> QED
    BY <2>1, <2>2
<1>2. r \in Rows /\ r.charged \in [Meters -> Int]
  BY <1>1, BillingType DEF Rows
<1>3. used[c] \in 0 .. moved[c] /\ age[c] \in 0 .. age[c] /\ 0 \in 0 .. age[c]
  BY TypeParts DEF DataOK, Pricing
<1>4. CASE r.state # "live"
  <2>1. \A k \in Meters : Owed(b, c, k)' = 0
    BY <1>1, <1>2, <1>4 DEF CostOf, Owed
  <2> QED
    BY <2>1 DEF PricedFairly, Meters
<1>5. CASE r.state = "live"
  <2>1. /\ at'[b].bill[c].cost["traffic"] = TrafficCost(used[c])
        /\ at'[b].bill[c].cost["days"] = DayCost(age[c], r.active)
    BY <1>1, <1>5 DEF CostOf
  <2>2. DayCost(age[c], r.active) = age[c] * PricePerDay
        \/ DayCost(age[c], r.active) = 0 * PricePerDay
    BY DEF DayCost
  <2>3. \E m \in 0 .. moved'[c] : at'[b].bill[c].cost["traffic"] = TrafficCost(m)
    BY <1>1, <1>3, <2>1
  <2>4. \E d \in 0 .. age'[c] : at'[b].bill[c].cost["days"] = d * PricePerDay
    BY <1>1, <1>3, <2>1, <2>2
  <2> QED
    BY <2>3, <2>4 DEF PricedFairly, TrafficCost
<1> QED
  BY <1>4, <1>5

LEMMA PricingStep == TypeOK /\ Pricing /\ [Next]_vars => Pricing'
<1> SUFFICES ASSUME TypeOK, Pricing, [Next]_vars PROVE Pricing'
  OBVIOUS
<1>1. \A c \in Configs : moved[c] <= moved'[c] /\ age[c] <= age'[c] /\ used'[c] <= moved'[c]
  BY WorldGrows
<1>2. TypeOK'
  BY TypeStep
<1>3. \A c \in Configs : /\ moved[c] \in Nat /\ moved'[c] \in Nat
                         /\ age[c] \in Nat /\ age'[c] \in Nat
  BY <1>2, TypeParts DEF DataOK
<1>4. ASSUME NEW b \in Billers, at'[b].pc \in HasBill, NEW c \in Configs
      PROVE  PricedFairly(b, c)'
  <2>1. at'[b].bill \in Bills
    BY <1>2, <1>4, BillAfter DEF HasBill
  <2>2. CASE ReadMeters(b)
    BY <2>2, MetersFair
  <2>3. ASSUME NEW d \in Configs, NEW k \in Meters, DebitFails(b, d, k)
        PROVE  PricedFairly(b, c)'
    <3> DEFINE now == at[b].bill[d]
               given_up == IF k = "traffic" THEN Meters ELSE {k}
               cost == [m \in Meters |-> IF m \in given_up THEN now.charged[m]
                                         ELSE now.cost[m]]
    <3>1. /\ at[b].pc \in {"bill", "days"}
          /\ at'[b].bill = [at[b].bill EXCEPT ![d].cost = cost]
      BY <2>3, TypeParts DEF DebitFails, Due, AtOK
    <3>2. at[b].bill \in Bills
      BY <3>1, BillingType
    <3>3. \A m \in Meters : cost[m] = now.charged[m] \/ cost[m] = now.cost[m]
      OBVIOUS
    <3> HIDE DEF cost
    <3>4. \A m \in Meters :
            \/ /\ at'[b].bill[c].cost[m] = at[b].bill[c].cost[m]
               /\ at'[b].bill[c].charged[m] = at[b].bill[c].charged[m]
            \/ at'[b].bill[c].cost[m] = at'[b].bill[c].charged[m]
      BY <3>1, <3>2, <3>3 DEF Bills, Accounts
    <3>5. PricedFairly(b, c) /\ at[b].pc \in HasBill
      BY <3>1 DEF Pricing, HasBill
    <3> QED
      BY <1>1, <1>3, <2>1, <3>4, <3>5, StaysFair
  <2>4. CASE at[b].pc = "book" /\ Settle(b)
    <3> DEFINE d == at[b].item.config
               k == at[b].item.meter
               cost == at[b].bill[d].cost[k]
    <3>1. at'[b].bill = [at[b].bill EXCEPT ![d].charged[k] = cost]
      BY <2>4, TypeParts DEF Settle, AtOK
    <3>2. at[b].bill \in Bills /\ d \in Configs /\ k \in Meters
      BY <2>4, BillingType
    <3>3. \A m \in Meters :
            \/ /\ at'[b].bill[c].cost[m] = at[b].bill[c].cost[m]
               /\ at'[b].bill[c].charged[m] = at[b].bill[c].charged[m]
            \/ at'[b].bill[c].cost[m] = at'[b].bill[c].charged[m]
      <4>1. CASE c # d
        BY <3>1, <3>2, <4>1 DEF Bills
      <4>2. CASE c = d
        <5>1. at[b].bill[d] \in Accounts /\ at'[b].bill[d] =
                [at[b].bill[d] EXCEPT !.charged = [@ EXCEPT ![k] = cost]]
          BY <3>1, <3>2 DEF Bills
        <5> HIDE DEF d, k
        <5>2. /\ at'[b].bill[d].cost = at[b].bill[d].cost
              /\ at'[b].bill[d].charged = [at[b].bill[d].charged EXCEPT ![k] = cost]
          BY <5>1 DEF Accounts
        <5>3. at[b].bill[d].charged \in [Meters -> Int]
          BY <5>1 DEF Accounts
        <5> QED
          BY <3>2, <4>2, <5>2, <5>3
      <4> QED
        BY <4>1, <4>2
    <3>4. PricedFairly(b, c) /\ at[b].pc \in HasBill
      BY <2>4 DEF Pricing, HasBill
    <3> QED
      BY <1>1, <1>3, <2>1, <3>3, <3>4, StaysFair
  <2>5. CASE at[b].pc \in HasBill /\ at'[b].bill = at[b].bill
    <3>1. PricedFairly(b, c)
      BY <2>5 DEF Pricing
    <3> QED
      BY <1>1, <1>3, <2>1, <2>5, <3>1, StaysFair
  <2> QED
    BY <1>4, <2>2, <2>3, <2>4, <2>5, BillsKept
<1> QED
  BY <1>1, <1>4 DEF Pricing

LEMMA PricingInit == Init => Pricing
BY DEF Init, Pricing, HasBill, Idle

\* What changes the ledger of traffic and days.
LEMMA WorldSteps ==
  ASSUME TypeOK, [Next]_vars
  PROVE  \/ UNCHANGED <<moved, age, debited>>
         \/ \E c \in Configs : Use(c) \/ DayPasses(c)
         \/ \E b \in Billers, c \in Configs, k \in Meters : Debit(b, c, k)
<1>1. ASSUME NEW b \in Billers, Run(b) \/ BillFails(b)
      PROVE  \/ UNCHANGED <<moved, age, debited>>
             \/ \E c \in Configs, k \in Meters : Debit(b, c, k)
  BY <1>1 DEF Run, BillFails, StartRun, Bill, ReadMeters, DebitFails, Book, BookFails,
              Reconcile, ReadWallets, ReadConfigs, SwitchConfig, Switching, FollowSwitch,
              EndRun, world
<1>2. ASSUME NEW o \in Owners, Ask(o) \/ Serve(o)
      PROVE  UNCHANGED <<moved, age, debited>>
  BY <1>2 DEF Ask, Serve, PauseLoad, CreateCheck, DeleteLoad, PauseWrite, Switching,
              PauseReturn, CreateClient, InsertConfig, DeleteClient, DeleteRow, world
<1>3. CASE Around
  BY <1>3 DEF Around, TopUp, SetBlocked, ResetMeter, Crash, world
<1>4. CASE UNCHANGED vars
  BY <1>4 DEF vars, world
<1> QED
  BY <1>1, <1>2, <1>3, <1>4 DEF Next

\* While one goroutine bills, nobody dies and no update of a row is lost, billing is
\* pay-as-you-go: every debit of BillAll brings what a config has cost its owner to
\* the price of some amount of traffic it really moved, or of days it was there, and
\* up; for any prices, resets of the meter and failed debits.
THEOREM BillingIsPayAsYouGo ==
  ASSUME OneBiller, Faults \cap {"crash", "book"} = {}
  PROVE  Spec => ImplementsPayAsYouGo
<1> DEFINE IInv == TypeOK /\ OneMaker /\ Books /\ Pricing
<1>1. Init => IInv
  BY TypeInit, OneMakerInit, BooksInit, PricingInit
<1>2. IInv /\ [Next]_vars => IInv'
  BY TypeStep, OneMakerStep, BooksStep, PricingStep
<1>3. Init => Promise!Init
  BY DEF Init, Promise!Init, Nothing, Meters
<1>4. IInv /\ [Next]_vars => [Promise!Next]_(Promise!vars)
  <2> SUFFICES ASSUME TypeOK, Books, Pricing, [Next]_vars, ~UNCHANGED Promise!vars
               PROVE  Promise!Next
    BY DEF IInv
  <2>1. CASE UNCHANGED <<moved, age, debited>>
    BY <2>1 DEF Promise!vars
  <2>2. ASSUME NEW c \in Configs, Use(c) PROVE Promise!Next
    <3>1. Promise!Move(c)
      BY <2>2 DEF Use, Promise!Move
    <3> QED
      BY <3>1 DEF Promise!Next
  <2>3. ASSUME NEW c \in Configs, DayPasses(c) PROVE Promise!Next
    <3>1. Promise!DayPasses(c)
      BY <2>3 DEF DayPasses, Promise!DayPasses
    <3> QED
      BY <3>1 DEF Promise!Next
  <2>4. ASSUME NEW b \in Billers, NEW c \in Configs, NEW k \in Meters, Debit(b, c, k)
        PROVE  Promise!Next
    <3> DEFINE cost == at[b].bill[c].cost[k]
    <3>1. /\ debited' = [debited EXCEPT ![c][k] = cost] /\ moved' = moved /\ age' = age
          /\ at[b].pc \in {"bill", "days"} /\ Owed(b, c, k) > 0
      <4>1. debited' = [debited EXCEPT ![c][k] = cost]
        BY <2>4, DebitBooks
      <4> QED
        BY <2>4, <4>1 DEF Debit, Due, world
    <3>2. at[b].bill[c].cost[k] \in Int /\ at[b].bill[c].charged[k] \in Int
          /\ debited \in [Configs -> [Meters -> Int]]
          /\ at[b].bill[c].charged \in [Meters -> Int]
      BY <3>1, OwedType, TypeParts DEF DataOK, Bills, Accounts
    <3>3. at[b].bill[c].charged = debited[c]
      BY <3>1, <3>2 DEF Books, BillRight, Owed
    <3>4. cost > debited[c][k]
      BY <3>1, <3>2, <3>3 DEF Owed
    <3>5. PricedFairly(b, c)
      BY <3>1 DEF Pricing, HasBill
    <3>6. CASE k = "traffic"
      <4>1. PICK m \in 0 .. moved[c] : cost = TrafficCost(m)
        BY <3>1, <3>5, <3>6 DEF PricedFairly
      <4>2. [d \in Configs |-> debited'[d]["traffic"]] =
              [[d \in Configs |-> debited[d]["traffic"]] EXCEPT ![c] = cost]
        BY <3>1, <3>2, <3>6 DEF Meters
      <4>3. [d \in Configs |-> debited'[d]["days"]] = [d \in Configs |-> debited[d]["days"]]
        BY <3>1, <3>2, <3>6 DEF Meters
      <4>4. Promise!Charge(c)
        BY <3>1, <3>4, <3>6, <4>1, <4>2, <4>3
           DEF Promise!Charge, TrafficCost, Promise!TrafficCost
      <4> QED
        BY <4>4 DEF Promise!Next
    <3>7. CASE k = "days"
      <4>1. PICK n \in 0 .. age[c] : cost = n * PricePerDay
        BY <3>1, <3>5, <3>7 DEF PricedFairly
      <4>2. [d \in Configs |-> debited'[d]["days"]] =
              [[d \in Configs |-> debited[d]["days"]] EXCEPT ![c] = cost]
        BY <3>1, <3>2, <3>7 DEF Meters
      <4>3. [d \in Configs |-> debited'[d]["traffic"]] =
              [d \in Configs |-> debited[d]["traffic"]]
        BY <3>1, <3>2, <3>7 DEF Meters
      <4>4. Promise!ChargeDays(c)
        BY <3>1, <3>4, <3>7, <4>1, <4>2, <4>3 DEF Promise!ChargeDays
      <4> QED
        BY <4>4 DEF Promise!Next
    <3> QED
      BY <3>6, <3>7 DEF Meters
  <2> QED
    BY <2>1, <2>2, <2>3, <2>4, WorldSteps
<1> QED
  BY <1>1, <1>2, <1>3, <1>4, PTL DEF Spec, ImplementsPayAsYouGo, Promise!Spec
=============================================================================
