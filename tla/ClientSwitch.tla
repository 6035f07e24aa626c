---------------------------- MODULE ClientSwitch ----------------------------
(***************************************************************************)
(* Switching the panel client of a config on or off (setClientEnabled).    *)
(*                                                                         *)
(* The client service has no "set", only a toggle: a caller looks whether  *)
(* the client already is as wanted, then reads the client and writes back  *)
(* the opposite of what it read.  Nothing holds a lock across the steps,   *)
(* so callers interleave.  (setClientEnabled looks twice, at the client's  *)
(* record and at the inbound; either look may find nothing to do, and one  *)
(* look at any moment in between covers both.)                             *)
(***************************************************************************)
EXTENDS Naturals

CONSTANTS Configs, Callers

VARIABLES
  client,   \* the panel client of each config: "none", "on" or "off"
  switch    \* the setClientEnabled call each goroutine is in

NotSwitching == [step |-> "none"]

SwitchInit ==
  /\ client = [c \in Configs |-> "none"]
  /\ switch = [p \in Callers |-> NotSwitching]

Opposite(state) == IF state = "on" THEN "off" ELSE "on"

SwitchAt(p, step) == switch[p].step = step
SwitchTo(p, step) == switch' = [switch EXCEPT ![p].step = step]

Request(p, c, want) ==
  switch' = [switch EXCEPT ![p] = [step |-> "look", config |-> c, want |-> want]]

Look(p) ==
  /\ SwitchAt(p, "look")
  /\ LET now == client[switch[p].config] IN
       SwitchTo(p, IF now = "none" THEN "failed"
                   ELSE IF now = switch[p].want THEN "done"
                   ELSE "read")
  /\ UNCHANGED client

\* ToggleClientEnableByEmail reads the client ...
Read(p) ==
  /\ SwitchAt(p, "read")
  /\ LET now == client[switch[p].config] IN
       IF now = "none"
       THEN SwitchTo(p, "failed")
       ELSE switch' = [switch EXCEPT ![p] =
              [step |-> "write", config |-> @.config, want |-> @.want,
               new |-> Opposite(now)]]
  /\ UNCHANGED client

\* Faulty variant: the write fails and the caller is not told.
WriteLost(p) ==
  /\ SwitchAt(p, "write")
  /\ SwitchTo(p, "done")
  /\ UNCHANGED client

\* ... and writes its opposite, unless the client is gone by now.
Write(p) ==
  /\ SwitchAt(p, "write")
  /\ LET c == switch[p].config IN
       IF client[c] = "none"
       THEN SwitchTo(p, "failed") /\ UNCHANGED client
       ELSE SwitchTo(p, "done") /\ client' = [client EXCEPT ![c] = switch[p].new]

SwitchStep(p) == Look(p) \/ Read(p) \/ Write(p)

Switches ==
  {NotSwitching}
    \cup [step : {"look", "read", "done", "failed"}, config : Configs, want : {"on", "off"}]
    \cup [step : {"write", "done", "failed"}, config : Configs, want : {"on", "off"},
          new : {"on", "off"}]

SwitchTypeOK ==
  /\ client \in [Configs -> {"none", "on", "off"}]
  /\ switch \in [Callers -> Switches]
=============================================================================
