------------------------------- MODULE Tariff -------------------------------
(* The prices of the shop: what a meter reading costs. *)
EXTENDS Integers

CONSTANTS
  GB,           \* units the meter counts per gigabyte
  PricePerGB,   \* setting shopPricePerGB; 0 = traffic is free
  PricePerDay   \* setting shopPricePerDay; 0 = no daily fee

ASSUME TariffAssumption ==
  /\ GB \in Nat \ {0}
  /\ PricePerGB \in Nat
  /\ PricePerDay \in Nat

\* Whole gigabytes at the full price, the rest in proportion, rounded down.
TrafficCost(used) ==
  (used \div GB) * PricePerGB + ((used % GB) * PricePerGB) \div GB
=============================================================================
