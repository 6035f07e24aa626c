----------------------------- MODULE PayAsYouGo -----------------------------
(***************************************************************************)
(* What the shop promises about its prices: "they are charged for what     *)
(* they actually consume".  Whatever a config has cost so far is the price *)
(* of some amount of traffic it really moved and of days it really was     *)
(* there, and it only ever grows.                                          *)
(***************************************************************************)
EXTENDS Tariff

CONSTANT Configs

VARIABLES
  moved,   \* traffic each config has ever moved
  age,     \* days each config has existed
  paid,    \* money its owner has ever been debited for its traffic
  rent     \* ... and for its days

vars == <<moved, age, paid, rent>>

Init ==
  /\ moved = [c \in Configs |-> 0]
  /\ age = [c \in Configs |-> 0]
  /\ paid = [c \in Configs |-> 0]
  /\ rent = [c \in Configs |-> 0]

Move(c) ==
  /\ moved' = [moved EXCEPT ![c] = @ + 1]
  /\ UNCHANGED <<age, paid, rent>>

DayPasses(c) ==
  /\ age' = [age EXCEPT ![c] = @ + 1]
  /\ UNCHANGED <<moved, paid, rent>>

Charge(c) ==
  /\ \E m \in 0 .. moved[c] :
       /\ TrafficCost(m) > paid[c]
       /\ paid' = [paid EXCEPT ![c] = TrafficCost(m)]
  /\ UNCHANGED <<moved, age, rent>>

ChargeDays(c) ==
  /\ \E d \in 0 .. age[c] :
       /\ d * PricePerDay > rent[c]
       /\ rent' = [rent EXCEPT ![c] = d * PricePerDay]
  /\ UNCHANGED <<moved, age, paid>>

Next ==
  \E c \in Configs : Move(c) \/ DayPasses(c) \/ Charge(c) \/ ChargeDays(c)

Spec == Init /\ [][Next]_vars
=============================================================================
