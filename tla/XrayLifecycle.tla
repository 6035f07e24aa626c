--------------------------- MODULE XrayLifecycle ---------------------------
(***************************************************************************)
(* The panel's one Xray core and everybody who starts, stops, patches and  *)
(* watches it.                                                             *)
(*                                                                         *)
(* RestartXray(force) builds the configuration the database asks for and   *)
(* gets the core to it: nothing when the recorded configuration is the     *)
(* same, calls of the core's API when those can express the change, a new  *)
(* process otherwise.  StopXray ends the process.  Both hold one mutex;    *)
(* the restart flag, the manual-stop mark, the API calls of the editors    *)
(* and of the traffic accounting, and the goroutine that waits for the     *)
(* process do not.                                                         *)
(*                                                                         *)
(* A configuration is the template, of which the core can take its rules   *)
(* at run time and nothing else, and one inbound with its clients.  The    *)
(* core serves a set of inbounds: none, or the one, as its set of clients. *)
(***************************************************************************)
EXTENDS Naturals

CONSTANTS
  Clients,            \* clients of the inbound
  RestartOnDisable,   \* the setting of that name
  MaxActs, MaxFaults  \* bounds: acts of people; crashes and failing calls

ASSUME LimitsAssumption ==
  /\ RestartOnDisable \in BOOLEAN
  /\ MaxActs \in Nat /\ MaxFaults \in Nat

Free == "free"
\* The restart cron, the health check, the traffic job, the page's restart
\* and stop buttons, and saving the template.
Callers == {"cron", "check", "traffic", "operator", "saver"}

VARIABLES
  template,   \* the stored template, with the number of its save
  row,        \* the stored inbound, with the number of its write
  due,        \* clients past their expiry or quota
  core,       \* the process
  snap,       \* p.config
  flag,       \* isNeedXrayRestart
  manual,     \* isManuallyStopped
  lock,       \* who holds the mutex
  call,       \* where each caller is
  editor,     \* where the request that switches the inbound is
  looks,      \* checkTime
  acts, faults,
  owed,       \* ghost: sessions open when the job disabled their client
  excused,    \* ghost: the configuration could once not be read, or a stop failed
  alarmed     \* the exit of this process was reported as a crash

stored == <<template, row>>
marks == <<flag, manual>>
ghosts == <<owed, excused, alarmed>>
vars == <<stored, due, core, snap, marks, lock, call, editor, looks,
          acts, faults, ghosts>>

Goals == {"restart", "force", "stop"}

\* The inbounds a configuration with this row has.
Served(r) == IF r.on THEN {r.clients} ELSE {}

\* Config.Equals, which does not see the numbers.
SameConfig(a, b) ==
  /\ a.template.static = b.template.static
  /\ a.template.rules = b.template.rules
  /\ Served(a.row) = Served(b.row)

\* ComputeHotDiff: an inbound may come or change, never just go.
HotApplicable(old, new) ==
  /\ old.template.static = new.template.static
  /\ Served(old.row) # {} => Served(new.row) # {}

\* The API calls it asks for; a changed inbound is removed and added.
HotDiff(old, new) ==
  {op \in {"del", "add", "rules"} :
     \/ op = "del" /\ Served(old.row) \notin {{}, Served(new.row)}
     \/ op = "add" /\ Served(old.row) # Served(new.row)
     \/ op = "rules" /\ old.template.rules # new.template.rules}

IsRunning == core.state # "gone"

FirstConfig ==
  [template |-> [ver |-> 0, static |-> 0, rules |-> 0],
   row |-> [ver |-> 0, on |-> TRUE, clients |-> Clients]]
Idle == [pc |-> "idle", goal |-> "restart", need |-> FALSE,
         config |-> FirstConfig, todo |-> {}]

\* The first RestartXray(true), before the jobs are scheduled, has returned.
Started(config) ==
  [state |-> "live", term |-> FALSE, by |-> "none",
   static |-> config.template.static, rules |-> config.template.rules,
   inbounds |-> Served(config.row), pushed |-> FALSE, open |-> {}]

Init ==
  /\ template = FirstConfig.template
  /\ row = FirstConfig.row
  /\ due = {}
  /\ snap = FirstConfig
  /\ core \in {Started(snap), [Started(snap) EXCEPT !.state = "gone"]}
  /\ flag = FALSE /\ manual = FALSE
  /\ lock = Free
  /\ call = [c \in Callers |-> Idle]
  /\ editor = [pc |-> "idle", need |-> FALSE, payload |-> {}]
  /\ looks = 0
  /\ acts = 0 /\ faults = 0
  /\ owed = {} /\ excused = FALSE /\ alarmed = FALSE

At(c, pc) == call[c].pc = pc
Goto(c, pc) == call' = [call EXCEPT ![c].pc = pc]
Ask(c, goal, need) ==
  call' = [call EXCEPT ![c] = [Idle EXCEPT !.pc = "lock", !.goal = goal, !.need = need]]

\* The three budgets: something people do, something that fails, neither.
Act == acts < MaxActs /\ acts' = acts + 1 /\ UNCHANGED faults
Fault == faults < MaxFaults /\ faults' = faults + 1 /\ UNCHANGED acts
Smooth == UNCHANGED <<acts, faults>>

\* An API call succeeds only if the core lives, and may fail even then.
CallWorks == core.state = "live" /\ Smooth
CallFails == IF core.state = "live" THEN Fault ELSE Smooth

-----------------------------------------------------------------------------
(* RestartXray and StopXray, with the mutex held from Enter to Return.      *)

\* Mutant: the mutex is missing.
EnterUnlocked(c) ==
  /\ At(c, "lock")
  /\ lock' = c
  /\ manual' = (call[c].goal = "stop")
  /\ Goto(c, IF call[c].goal = "stop" THEN "stop" ELSE "template")
  /\ UNCHANGED <<stored, due, core, snap, flag, editor, looks, acts, faults, ghosts>>
\* Mutant: RestartXray leaves the manual-stop mark as it was.
EnterStillStopped(c) ==
  /\ At(c, "lock") /\ lock = Free
  /\ lock' = c
  /\ manual' = (manual \/ call[c].goal = "stop")
  /\ Goto(c, IF call[c].goal = "stop" THEN "stop" ELSE "template")
  /\ UNCHANGED <<stored, due, core, snap, flag, editor, looks, acts, faults, ghosts>>
Enter(c) ==
  /\ At(c, "lock") /\ lock = Free
  /\ lock' = c
  /\ manual' = (call[c].goal = "stop")
  /\ Goto(c, IF call[c].goal = "stop" THEN "stop" ELSE "template")
  /\ UNCHANGED <<stored, due, core, snap, flag, editor, looks, acts, faults, ghosts>>

\* The traffic job sets the flag when its restart failed, or when something
\* it did before asks for a restart.
Return(c, failed) ==
  /\ lock' = Free
  /\ call' = [call EXCEPT ![c] = Idle]
  /\ flag' = (flag \/ call[c].need \/ (c = "traffic" /\ failed))
  /\ UNCHANGED <<stored, due, manual, editor, looks>>

\* GetXrayConfig reads the template, has the traffic accounting disable what
\* is due, and reads the inbounds.
ReadTemplate(c) ==
  /\ At(c, "template")
  /\ call' = [call EXCEPT ![c].pc = "inbounds", ![c].config.template = template]
  /\ UNCHANGED <<stored, due, core, snap, marks, lock, editor, looks, acts, faults, ghosts>>

Spent == row.clients \cap due

\* RemoveUser does not end the sessions of the user.
Disable ==
  /\ row' = IF Spent = {} THEN row
            ELSE [row EXCEPT !.ver = @ + 1, !.clients = @ \ due]
  /\ core' = IF core.state # "live" \/ Spent = {} THEN core
             ELSE [core EXCEPT !.inbounds = {s \ due : s \in @}, !.pushed = TRUE]

ReadInbounds(c) ==
  /\ At(c, "inbounds")
  /\ Disable
  /\ call' = [call EXCEPT ![c].pc = "decide", ![c].config.row = row']
  /\ UNCHANGED <<template, due, snap, marks, lock, editor, looks, acts, faults, ghosts>>

ReadFails(c) ==
  /\ call[c].pc \in {"template", "inbounds"}
  /\ Fault
  /\ Return(c, TRUE)
  /\ excused' = TRUE
  /\ UNCHANGED <<core, snap, owed, alarmed>>

Unchanged(c) == SameConfig(snap, call[c].config)
HotApplies(c) ==
  /\ call[c].goal = "restart"
  /\ ~ Unchanged(c)
  /\ HotApplicable(snap, call[c].config)

NothingToDo(c) ==
  /\ At(c, "decide")
  /\ IsRunning /\ call[c].goal = "restart" /\ Unchanged(c) /\ ~ flag
  /\ Return(c, FALSE)
  /\ UNCHANGED <<core, snap, acts, faults, ghosts>>

Decide(c) ==
  /\ At(c, "decide")
  /\ ~ (IsRunning /\ call[c].goal = "restart" /\ Unchanged(c) /\ ~ flag)
  /\ call' = [call EXCEPT
       ![c].pc = IF ~ IsRunning THEN "start" ELSE IF HotApplies(c) THEN "hot" ELSE "stop",
       ![c].todo = IF HotApplies(c) THEN HotDiff(snap, call[c].config) ELSE {}]
  /\ UNCHANGED <<stored, due, core, snap, marks, lock, editor, looks, acts, faults, ghosts>>

(* tryHotApply, one API call at a time.                                     *)

\* Removals come first, routing last.
First(todo) ==
  IF "del" \in todo THEN "del" ELSE IF "add" \in todo THEN "add" ELSE "rules"

\* An inbound that is there already is replaced: addInboundReconciling.
Called(config, op) ==
  CASE op = "del" -> [core EXCEPT !.inbounds = {}]
    [] op = "add" -> [core EXCEPT !.inbounds = Served(config.row)]
    [] op = "rules" -> [core EXCEPT !.rules = config.template.rules]

HotCall(c) ==
  /\ At(c, "hot") /\ call[c].todo # {}
  /\ CallWorks
  /\ core' = Called(call[c].config, First(call[c].todo))
  /\ call' = [call EXCEPT ![c].todo = @ \ {First(@)}]
  /\ UNCHANGED <<stored, due, snap, marks, lock, editor, looks, ghosts>>

\* Mutant: a hot apply that fails is reported, and the core left as it is.
HotGivesUp(c) ==
  /\ At(c, "hot") /\ call[c].todo # {}
  /\ CallFails
  /\ Return(c, TRUE)
  /\ UNCHANGED <<core, snap, ghosts>>
\* A call fails, the removal inside a replacement perhaps already made: the
\* caller falls back to a restart.
HotFails(c) ==
  /\ At(c, "hot") /\ call[c].todo # {}
  /\ CallFails
  /\ core' \in {core, [core EXCEPT !.inbounds =
                         IF First(call[c].todo) = "add" THEN {} ELSE @]}
  /\ Goto(c, "stop")
  /\ UNCHANGED <<stored, due, snap, marks, lock, editor, looks, ghosts>>

HotDone(c) ==
  /\ At(c, "hot") /\ call[c].todo = {}
  /\ snap' = call[c].config
  /\ Return(c, FALSE)
  /\ UNCHANGED <<core, acts, faults, ghosts>>

(* process.Stop: mark the stop as intended, signal, wait for the exit.      *)

\* The core's process ends, and its sessions with it.
Exit(killer, term) ==
  /\ core' = [core EXCEPT !.state = "exited", !.by = killer, !.term = term,
                          !.inbounds = {}, !.open = {}]
  /\ owed' = {}

\* Mutant: the stop is not marked as intended.
StopUnmarked(c) ==
  /\ At(c, "stop") /\ IsRunning
  /\ Goto(c, "signal")
  /\ UNCHANGED <<stored, due, core, snap, marks, lock, editor, looks, acts, faults, ghosts>>
StopMark(c) ==
  /\ At(c, "stop") /\ IsRunning
  /\ core' = [core EXCEPT !.term = TRUE]
  /\ Goto(c, "signal")
  /\ UNCHANGED <<stored, due, snap, marks, lock, editor, looks, acts, faults, ghosts>>

Signal(c) ==
  /\ At(c, "signal")
  /\ IF core.state = "live" THEN Exit("panel", core.term) ELSE UNCHANGED <<core, owed>>
  /\ Goto(c, "exit")
  /\ UNCHANGED <<stored, due, snap, marks, lock, editor, looks, acts, faults, excused, alarmed>>

\* The signal fails, or the wait for the exit times out: StopXray returns the error and
\* a process is left, RestartXray starts another one in its place, and p, which is
\* `core`, is that one.
StopFails(c) ==
  /\ call[c].pc \in {"signal", "exit"} /\ IsRunning
  /\ Fault
  /\ IF call[c].goal = "stop" THEN Return(c, TRUE)
     ELSE Goto(c, "start") /\ UNCHANGED <<stored, due, manual, editor, looks, lock, flag>>
  /\ excused' = TRUE
  /\ UNCHANGED <<core, snap, owed, alarmed>>

\* The core is down, before Stop or because of it.
Stopped(c) ==
  /\ call[c].pc \in {"stop", "exit"} /\ ~ IsRunning
  /\ IF call[c].goal = "stop" THEN Return(c, FALSE)
     ELSE Goto(c, "start") /\ UNCHANGED <<stored, due, manual, editor, looks, lock, flag>>
  /\ UNCHANGED <<core, snap, acts, faults, ghosts>>

Start(c) ==
  /\ At(c, "start")
  /\ Smooth
  /\ snap' = call[c].config
  /\ core' = Started(snap')
  /\ alarmed' = FALSE
  /\ Return(c, FALSE)
  /\ UNCHANGED <<owed, excused>>

StartFails(c) ==
  /\ At(c, "start")
  /\ Fault
  /\ snap' = call[c].config
  /\ core' = [Started(snap') EXCEPT !.state = "gone"]
  /\ alarmed' = FALSE
  /\ Return(c, TRUE)
  /\ UNCHANGED <<owed, excused>>

Step(c) ==
  \/ Enter(c)
  \/ ReadTemplate(c) \/ ReadInbounds(c) \/ ReadFails(c)
  \/ NothingToDo(c) \/ Decide(c)
  \/ HotCall(c) \/ HotFails(c) \/ HotDone(c)
  \/ StopMark(c) \/ Signal(c) \/ StopFails(c) \/ Stopped(c)
  \/ Start(c) \/ StartFails(c)

-----------------------------------------------------------------------------
(* The jobs.                                                                *)

\* IsNeedRestartAndSetFalse, then RestartXray(false).
RestartCron ==
  /\ At("cron", "idle") /\ flag
  /\ flag' = FALSE
  /\ Ask("cron", "restart", FALSE)
  /\ UNCHANGED <<stored, due, core, snap, manual, lock, editor, looks, acts, faults, ghosts>>

DidXrayCrash == ~ IsRunning /\ ~ manual

\* Mutant: the count is reset after every look.
HealthCheckForgets ==
  /\ At("check", "idle")
  /\ looks' = 0
  /\ IF DidXrayCrash /\ looks = 1 THEN Ask("check", "restart", FALSE) ELSE UNCHANGED call
  /\ UNCHANGED <<stored, due, core, snap, marks, lock, editor, acts, faults, ghosts>>
HealthCheck ==
  /\ At("check", "idle")
  /\ looks' = IF DidXrayCrash /\ looks = 0 THEN 1 ELSE 0
  /\ IF DidXrayCrash /\ looks = 1 THEN Ask("check", "restart", FALSE) ELSE UNCHANGED call
  /\ UNCHANGED <<stored, due, core, snap, marks, lock, editor, acts, faults, ghosts>>

\* Mutant: the restart after disabling clients may be a hot apply.
TrafficJobLazy ==
  /\ At("traffic", "idle") /\ core.state = "live" /\ Spent # {}
  /\ Disable
  /\ owed' = owed \cup (Spent \cap core.open)
  /\ IF RestartOnDisable THEN Ask("traffic", "restart", FALSE) ELSE UNCHANGED call
  /\ flag' = (flag \/ ~ RestartOnDisable)
  /\ UNCHANGED <<template, due, snap, manual, lock, editor, looks, acts, faults, excused, alarmed>>
\* The poll has reached the core; clients are disabled.
TrafficJob ==
  /\ At("traffic", "idle") /\ core.state = "live" /\ Spent # {}
  /\ Disable
  /\ owed' = owed \cup (Spent \cap core.open)
  /\ IF RestartOnDisable THEN Ask("traffic", "force", FALSE) ELSE UNCHANGED call
  /\ flag' = (flag \/ ~ RestartOnDisable)
  /\ UNCHANGED <<template, due, snap, manual, lock, editor, looks, acts, faults, excused, alarmed>>

\* The same, and removing a client from the core fails.
TrafficJobUnheard ==
  /\ At("traffic", "idle") /\ core.state = "live" /\ Spent # {}
  /\ Fault
  /\ row' = [row EXCEPT !.ver = @ + 1, !.clients = @ \ due]
  /\ owed' = owed \cup (Spent \cap core.open)
  /\ IF RestartOnDisable THEN Ask("traffic", "force", TRUE) ELSE UNCHANGED call
  /\ flag' = (flag \/ ~ RestartOnDisable)
  /\ UNCHANGED <<template, due, core, snap, manual, lock, editor, looks, excused, alarmed>>

-----------------------------------------------------------------------------
(* People.                                                                  *)

Operate(goal) ==
  /\ At("operator", "idle") /\ Act
  /\ Ask("operator", goal, FALSE)
  /\ UNCHANGED <<stored, due, core, snap, marks, lock, editor, looks, ghosts>>

\* Saving another template reconciles a core that runs and leaves one that
\* does not alone.
SaveTemplate ==
  /\ At("saver", "idle") /\ Act
  /\ \E static, rules \in 0 .. 1 :
       /\ static # template.static \/ rules # template.rules
       /\ template' = [ver |-> template.ver + 1, static |-> static, rules |-> rules]
  /\ Goto("saver", "saved")
  /\ UNCHANGED <<row, due, core, snap, marks, lock, editor, looks, ghosts>>

Reconcile ==
  /\ At("saver", "saved")
  /\ IF IsRunning THEN Ask("saver", "restart", FALSE) ELSE Goto("saver", "idle")
  /\ UNCHANGED <<stored, due, core, snap, marks, lock, editor, looks, acts, faults, ghosts>>

\* SetInboundEnable: the row, then the core, then the flag.
Switch ==
  /\ editor.pc = "idle" /\ Act
  /\ row' = [row EXCEPT !.ver = @ + 1, !.on = ~ @]
  /\ editor' = [pc |-> "del", need |-> ~ row'.on, payload |-> {}]
  /\ UNCHANGED <<template, due, core, snap, marks, lock, call, looks, ghosts>>

\* An inbound that is not there is no error; a core that is not there is.
SwitchDel ==
  /\ editor.pc = "del"
  /\ \/ CallWorks /\ core' = [core EXCEPT !.inbounds = {}, !.pushed = TRUE]
        /\ editor' = [editor EXCEPT !.pc = "build"]
     \/ CallFails /\ UNCHANGED core
        /\ editor' = [editor EXCEPT !.pc = "build", !.need = TRUE]
  /\ UNCHANGED <<stored, due, snap, marks, lock, call, looks, ghosts>>

\* buildRuntimeInboundForAPI reads the clients again.
SwitchBuild ==
  /\ editor.pc = "build"
  /\ editor' = IF row.on THEN [editor EXCEPT !.pc = "add", !.payload = row.clients]
               ELSE [editor EXCEPT !.pc = "flag"]
  /\ UNCHANGED <<stored, due, core, snap, marks, lock, call, looks, acts, faults, ghosts>>

\* A tag that is taken is an error here.
SwitchAdd ==
  /\ editor.pc = "add"
  /\ \/ CallWorks /\ core.inbounds = {}
        /\ core' = [core EXCEPT !.inbounds = {editor.payload}, !.pushed = TRUE]
        /\ editor' = [editor EXCEPT !.pc = "flag"]
     \/ CallWorks /\ core.inbounds # {} /\ UNCHANGED core
        /\ editor' = [editor EXCEPT !.pc = "flag", !.need = TRUE]
     \/ CallFails /\ UNCHANGED core
        /\ editor' = [editor EXCEPT !.pc = "flag", !.need = TRUE]
  /\ UNCHANGED <<stored, due, snap, marks, lock, call, looks, ghosts>>

SwitchFlag ==
  /\ editor.pc = "flag"
  /\ flag' = (flag \/ editor.need)
  /\ editor' = [pc |-> "idle", need |-> FALSE, payload |-> {}]
  /\ UNCHANGED <<stored, due, core, snap, manual, lock, call, looks, acts, faults, ghosts>>

EditorStep == SwitchDel \/ SwitchBuild \/ SwitchAdd \/ SwitchFlag

-----------------------------------------------------------------------------
(* The world.                                                               *)

Expire(c) ==
  /\ c \in Clients \ due
  /\ due' = due \cup {c}
  /\ UNCHANGED <<stored, core, snap, marks, lock, call, editor, looks, acts, faults, ghosts>>

Connect(c) ==
  /\ core.state = "live" /\ c \notin core.open
  /\ \E s \in core.inbounds : c \in s
  /\ core' = [core EXCEPT !.open = @ \cup {c}]
  /\ UNCHANGED <<stored, due, snap, marks, lock, call, editor, looks, acts, faults, ghosts>>

Crash ==
  /\ core.state = "live" /\ Fault
  /\ Exit("self", core.term)
  /\ UNCHANGED <<stored, due, snap, marks, lock, call, editor, looks, excused, alarmed>>

\* A core that was told to stop and had not gone in time goes.
LateExit ==
  /\ core.state = "live" /\ core.term
  /\ \A c \in Callers : ~ At(c, "signal")
  /\ Exit("panel", TRUE)
  /\ UNCHANGED <<stored, due, snap, marks, lock, call, editor, looks, acts, faults, excused, alarmed>>

\* waitForCommand: an exit nobody intended is reported.
Reap ==
  /\ core.state = "exited"
  /\ core' = [core EXCEPT !.state = "gone"]
  /\ alarmed' = ~ core.term
  /\ UNCHANGED <<stored, due, snap, marks, lock, call, editor, looks, acts, faults, owed, excused>>

Next ==
  \/ \E c \in Callers : Step(c)
  \/ RestartCron \/ HealthCheck \/ TrafficJob \/ TrafficJobUnheard
  \/ Operate("force") \/ Operate("stop") \/ SaveTemplate \/ Reconcile
  \/ Switch \/ EditorStep
  \/ \E c \in Clients : Expire(c) \/ Connect(c)
  \/ Crash \/ LateExit \/ Reap

\* Go runs every goroutine and hands the mutex to each waiter in the end,
\* cron fires its jobs for ever, and the system reaps the process.
Fairness ==
  /\ \A c \in Callers : WF_vars(Step(c))
  /\ WF_vars(RestartCron) /\ WF_vars(HealthCheck)
  /\ WF_vars(Reap)

Spec == Init /\ [][Next]_vars /\ Fairness

-----------------------------------------------------------------------------
(* Properties.                                                              *)

Pcs == {"idle", "saved", "lock", "template", "inbounds", "decide", "hot", "stop", "signal",
        "exit", "start"}
Outside == {"idle", "saved", "lock"}
Templates == [ver : Nat, static : 0 .. 1, rules : 0 .. 1]
Rows == [ver : Nat, on : BOOLEAN, clients : SUBSET Clients]
Configs == [template : Templates, row : Rows]
Calls == [pc : Pcs, goal : Goals, need : BOOLEAN, config : Configs, todo : SUBSET {"del", "add", "rules"}]
Editors == [pc : {"idle", "del", "build", "add", "flag"}, need : BOOLEAN,
            payload : SUBSET Clients]
Cores == [state : {"live", "exited", "gone"}, term : BOOLEAN, by : {"none", "panel", "self"},
          static : 0 .. 1, rules : 0 .. 1, inbounds : SUBSET SUBSET Clients,
          pushed : BOOLEAN, open : SUBSET Clients]

\* The holder of the mutex is the caller inside RestartXray or StopXray.
Exclusive == \A c \in Callers : lock = c <=> call[c].pc \notin Outside

\* Values have their types, and one caller at a time restarts or stops.
TypeOK ==
  /\ template \in Templates /\ row \in Rows
  /\ due \in SUBSET Clients /\ owed \in SUBSET Clients
  /\ core \in Cores /\ snap \in Configs
  /\ flag \in BOOLEAN /\ manual \in BOOLEAN /\ excused \in BOOLEAN /\ alarmed \in BOOLEAN
  /\ lock \in Callers \cup {Free}
  /\ call \in [Callers -> Calls]
  /\ editor \in Editors
  /\ looks \in 0 .. 1 /\ acts \in 0 .. MaxActs /\ faults \in 0 .. MaxFaults
  /\ Exclusive

\* With nobody restarting or stopping it, a live core has the static part and
\* the rules of the recorded configuration, and its inbound too unless somebody
\* changed that one through the API: a hot apply that failed half way leaves
\* nothing behind (xray.go:953-1013 and its callers' fallback).
CoreMatchesSnapshot ==
  lock = Free /\ core.state = "live" =>
    /\ core.static = snap.template.static
    /\ core.rules = snap.template.rules
    /\ ~ core.pushed => core.inbounds = Served(snap.row)

\* Restarts in whatever order they were asked for never bring back an older
\* template or older inbounds than the core was given before (xray.go:912-945).
NeverGoesBack ==
  [][/\ snap'.template.ver >= snap.template.ver
     /\ snap'.row.ver >= snap.row.ver]_snap

\* While the panel takes the core for stopped by hand, which keeps the health check
\* from starting it, there is no process, or only one that was told to stop and has not
\* gone.  The mark does not outlive the stop for ever: any restart that gets the mutex
\* later takes it away and starts the core, also one that was asked for before the stop,
\* by the page, a cron or the health check (xray.go:916, 1054-1064, 1088).
ManualStopHolds == lock = Free /\ manual => ~ IsRunning \/ core.term

\* An exit the panel caused is never reported as a crash (process.go:616-660).
OnlyCrashesAlarm == alarmed => core.by = "self"

\* A core that is down without having been stopped by hand runs again, or is
\* stopped by hand, in the end (check_xray_running_job.go:25-39).
CrashedComesBack == DidXrayCrash ~> (core.state = "live" \/ manual)

\* With the setting RestartOnDisable on, the sessions of a client that the traffic job
\* disabled end, by a restart at once, unless the configuration could not be read or the
\* old process could not be stopped (xray_traffic_job.go:46-58).  With the setting off
\* they may stay open: the restart of the cron is a hot apply then.  And they do for a
\* client that GetXrayConfig disables on the way to a restart (xray.go:129), of which the
\* job does not learn.
DisabledAreCutOff == RestartOnDisable => (owed # {} ~> (owed = {} \/ excused))
=============================================================================
