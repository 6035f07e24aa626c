---------------------------- MODULE TopUpRequest ----------------------------
(***************************************************************************)
(* What the shop promises of one top-up request: it is decided once, and   *)
(* only an approved one is paid, once.                                     *)
(***************************************************************************)
EXTENDS Naturals

CONSTANT TopUps

VARIABLES
  decision,   \* "open", "approved" or "rejected"
  payments    \* how often the amount went into the wallet

vars == <<decision, payments>>

Init ==
  /\ decision = [t \in TopUps |-> "open"]
  /\ payments = [t \in TopUps |-> 0]

Decide(t, verdict) ==
  /\ decision[t] = "open"
  /\ decision' = [decision EXCEPT ![t] = verdict]
  /\ UNCHANGED payments

Pay(t) ==
  /\ decision[t] = "approved"
  /\ payments[t] = 0
  /\ payments' = [payments EXCEPT ![t] = 1]
  /\ UNCHANGED decision

Next ==
  \E t \in TopUps : Pay(t) \/ \E v \in {"approved", "rejected"} : Decide(t, v)

Spec == Init /\ [][Next]_vars
=============================================================================
