----------------------------- MODULE XrayProofs -----------------------------
(***************************************************************************)
(* Proofs about the core, XrayLifecycle, and about the page that edits its *)
(* template, XraySettings, for any clients, setting, templates, forms and  *)
(* bounds.                                                                 *)
(***************************************************************************)
EXTENDS XrayLifecycle, XraySettings, FiniteSetTheorems, SequenceTheorems,
        WellFoundedInduction, TLAPS

USE LimitsAssumption

Types == TypeOK /\ [Next]_vars

LEMMA FirstTyped == FirstConfig \in Configs /\ Idle \in Calls
  BY DEF FirstConfig, Configs, Templates, Rows, Idle, Calls, Pcs, Goals

LEMMA StartedTyped ==
  ASSUME NEW config \in Configs
  PROVE  Started(config) \in Cores
  BY DEF Started, Configs, Templates, Rows, Cores, Served

LEMMA ServedTyped ==
  ASSUME NEW r \in Rows
  PROVE  Served(r) \in SUBSET SUBSET Clients
  BY DEF Rows, Served

LEMMA ReturnTyped ==
  ASSUME TypeOK, NEW c \in Callers, NEW failed \in BOOLEAN,
         call[c].pc \notin Outside, Return(c, failed)
  PROVE  /\ template' \in Templates /\ row' \in Rows /\ due' \in SUBSET Clients
         /\ flag' \in BOOLEAN /\ manual' \in BOOLEAN /\ lock' \in Callers \cup {Free}
         /\ call' \in [Callers -> Calls] /\ editor' \in Editors /\ looks' \in 0 .. 1
         /\ Exclusive'
  <1> USE DEF TypeOK, Return, stored
  <1>1. call' \in [Callers -> Calls]
    BY FirstTyped
  <1>2. flag' \in BOOLEAN
    BY DEF Calls
  <1>3. Exclusive'
    BY DEF Exclusive, Idle, Outside, Free, Callers
  <1> QED BY <1>1, <1>2, <1>3

THEOREM TypeInit == Init => TypeOK
  <1> SUFFICES ASSUME Init PROVE TypeOK
    OBVIOUS
  <1>1. core \in Cores /\ snap \in Configs
    BY FirstTyped, StartedTyped DEF Init, Cores
  <1>2. call \in [Callers -> Calls] /\ Exclusive
    BY FirstTyped DEF Init, Exclusive, Idle, Outside, Free, Callers
  <1>3. template \in Templates /\ row \in Rows
    BY FirstTyped DEF Init, Configs
  <1>4. editor \in Editors /\ looks \in 0 .. 1 /\ acts \in 0 .. MaxActs
        /\ faults \in 0 .. MaxFaults
    BY DEF Init, Editors
  <1>5. /\ due \in SUBSET Clients /\ owed \in SUBSET Clients
        /\ flag \in BOOLEAN /\ manual \in BOOLEAN /\ excused \in BOOLEAN
        /\ alarmed \in BOOLEAN /\ lock \in Callers \cup {Free}
    BY DEF Init
  <1> QED BY <1>1, <1>2, <1>3, <1>4, <1>5 DEF TypeOK

LEMMA DisableTyped ==
  ASSUME TypeOK, Disable
  PROVE  row' \in Rows /\ core' \in Cores
  <1>1. row' \in Rows
    <2>1. CASE Spent = {}
      BY <2>1 DEF TypeOK, Disable
    <2>2. CASE Spent # {}
      <3>1. row' = [row EXCEPT !.ver = row.ver + 1, !.clients = row.clients \ due]
        BY <2>2 DEF Disable
      <3>2. row.ver + 1 \in Nat /\ row.clients \ due \in SUBSET Clients /\ row \in Rows
        BY DEF TypeOK, Rows
      <3> QED BY <3>1, <3>2 DEF Rows
    <2> QED BY <2>1, <2>2
  <1>2. {s \ due : s \in core.inbounds} \in SUBSET SUBSET Clients
    BY DEF TypeOK, Cores
  <1>3. core' \in Cores
    BY <1>2 DEF TypeOK, Disable, Cores
  <1> QED BY <1>1, <1>3

LEMMA ExitTyped ==
  ASSUME TypeOK, NEW killer \in {"panel", "self"}, Exit(killer, core.term)
  PROVE  core' \in Cores /\ owed' \in SUBSET Clients
  BY DEF TypeOK, Exit, Cores

\* A step that moves a caller that holds the mutex, and keeps it holding.
LEMMA StaysInside ==
  ASSUME TypeOK, NEW c \in Callers, call[c].pc \notin Outside, lock' = lock,
         NEW r \in Calls, r.pc \notin Outside, call' = [call EXCEPT ![c] = r]
  PROVE  call' \in [Callers -> Calls] /\ Exclusive'
  BY DEF TypeOK, Exclusive

\* A step that moves a caller that does not hold it, and leaves it so.
LEMMA StaysOutside ==
  ASSUME TypeOK, NEW c \in Callers, call[c].pc \in Outside, lock' = lock,
         NEW r \in Calls, r.pc \in Outside, call' = [call EXCEPT ![c] = r]
  PROVE  call' \in [Callers -> Calls] /\ Exclusive'
  BY DEF TypeOK, Exclusive

LEMMA AskTyped ==
  ASSUME TypeOK, NEW c \in Callers, call[c].pc \in Outside, lock' = lock,
         NEW goal \in Goals, NEW need \in BOOLEAN, Ask(c, goal, need)
  PROVE  call' \in [Callers -> Calls] /\ Exclusive'
  <1> DEFINE r == [Idle EXCEPT !.pc = "lock", !.goal = goal, !.need = need]
  <1>1. r \in Calls /\ r.pc \in Outside
    BY FirstTyped DEF Calls, Pcs, Outside
  <1> QED BY <1>1, StaysOutside DEF Ask

LEMMA GotoTyped ==
  ASSUME TypeOK, NEW c \in Callers, call[c].pc \notin Outside, lock' = lock,
         NEW pc \in Pcs \ Outside, Goto(c, pc)
  PROVE  call' \in [Callers -> Calls] /\ Exclusive'
  <1> DEFINE r == [call[c] EXCEPT !.pc = pc]
  <1>1. r \in Calls /\ r.pc \notin Outside
    BY DEF TypeOK, Calls
  <1>2. call' = [call EXCEPT ![c] = r]
    BY DEF Goto
  <1> QED BY <1>1, <1>2, StaysInside

LEMMA TypeStep ==
  ASSUME TypeOK, NEW c \in Callers, Step(c)
  PROVE  TypeOK'
  <1> USE DEF stored, marks, ghosts, Smooth, Fault, CallWorks, CallFails, At
  <1>1. CASE Enter(c)
    <2> DEFINE r == [call[c] EXCEPT !.pc = IF call[c].goal = "stop" THEN "stop" ELSE "template"]
    <2>1. r \in Calls /\ r.pc \notin Outside /\ call' = [call EXCEPT ![c] = r]
      BY <1>1 DEF Enter, Goto, TypeOK, Calls, Pcs, Outside
    <2>2. call' \in [Callers -> Calls] /\ Exclusive'
      BY <1>1, <2>1 DEF Enter, TypeOK, Exclusive, Free, Callers, Outside
    <2>3. manual' \in BOOLEAN /\ lock' \in Callers \cup {Free}
      BY <1>1 DEF Enter
    <2>4. /\ template' = template /\ row' = row /\ due' = due /\ core' = core /\ snap' = snap
          /\ flag' = flag /\ editor' = editor /\ looks' = looks /\ acts' = acts
          /\ faults' = faults /\ owed' = owed /\ excused' = excused /\ alarmed' = alarmed
      BY <1>1 DEF Enter
    <2> QED BY <2>2, <2>3, <2>4 DEF TypeOK
  <1>2. CASE ReadTemplate(c)
    <2> DEFINE r == [call[c] EXCEPT !.pc = "inbounds", !.config.template = template]
    <2>1. r \in Calls /\ r.pc \notin Outside /\ call' = [call EXCEPT ![c] = r]
      BY <1>2 DEF ReadTemplate, TypeOK, Calls, Pcs, Outside, Configs
    <2>2. call[c].pc \notin Outside
      BY <1>2 DEF ReadTemplate, Outside
    <2>3. call' \in [Callers -> Calls] /\ Exclusive'
      BY <1>2, <2>1, <2>2, StaysInside DEF ReadTemplate
    <2> QED BY <1>2, <2>3 DEF ReadTemplate, TypeOK
  <1>3. CASE ReadInbounds(c)
    <2> DEFINE r == [call[c] EXCEPT !.pc = "decide", !.config.row = row']
    <2>0. row' \in Rows /\ core' \in Cores
      BY <1>3, DisableTyped DEF ReadInbounds
    <2>1. r \in Calls /\ r.pc \notin Outside /\ call' = [call EXCEPT ![c] = r]
      BY <1>3, <2>0 DEF ReadInbounds, TypeOK, Calls, Pcs, Outside, Configs
    <2>2. call[c].pc \notin Outside
      BY <1>3 DEF ReadInbounds, Outside
    <2>3. call' \in [Callers -> Calls] /\ Exclusive'
      BY <1>3, <2>1, <2>2, StaysInside DEF ReadInbounds
    <2> QED BY <1>3, <2>0, <2>3 DEF ReadInbounds, TypeOK
  <1>4. CASE ReadFails(c)
    <2>1. call[c].pc \notin Outside
      BY <1>4 DEF ReadFails, Outside
    <2>2. /\ core' = core /\ snap' = snap /\ acts' = acts /\ faults' \in 0 .. MaxFaults
          /\ owed' = owed /\ excused' \in BOOLEAN /\ alarmed' = alarmed
      BY <1>4 DEF ReadFails, TypeOK
    <2>3. Return(c, TRUE)
      BY <1>4 DEF ReadFails
    <2> HIDE DEF Smooth, Fault, CallWorks, CallFails
    <2> QED BY <2>1, <2>2, <2>3, ReturnTyped DEF TypeOK
  <1>5. CASE NothingToDo(c)
    <2>1. call[c].pc \notin Outside
      BY <1>5 DEF NothingToDo, Outside
    <2> QED BY <1>5, <2>1, ReturnTyped DEF NothingToDo, TypeOK
  <1>6. CASE Decide(c)
    <2> DEFINE pc == IF ~ IsRunning THEN "start" ELSE IF HotApplies(c) THEN "hot" ELSE "stop"
               todo == IF HotApplies(c) THEN HotDiff(snap, call[c].config) ELSE {}
               r == [call[c] EXCEPT !.pc = pc, !.todo = todo]
    <2>0. pc \in Pcs \ Outside /\ todo \in SUBSET {"del", "add", "rules"}
      BY DEF Pcs, Outside, HotDiff
    <2> HIDE DEF pc, todo
    <2>1. r \in Calls /\ r.pc \notin Outside
      BY <2>0 DEF TypeOK, Calls
    <2>4. call' = [call EXCEPT ![c] = r]
      BY <1>6 DEF Decide, pc, todo
    <2>2. call[c].pc \notin Outside
      BY <1>6 DEF Decide, Outside
    <2>3. call' \in [Callers -> Calls] /\ Exclusive'
      BY <1>6, <2>1, <2>2, <2>4, StaysInside DEF Decide
    <2> QED BY <1>6, <2>3 DEF Decide, TypeOK
  <1>7. CASE HotCall(c)
    <2> DEFINE r == [call[c] EXCEPT !.todo = @ \ {First(@)}]
    <2>1. r \in Calls /\ r.pc \notin Outside /\ call' = [call EXCEPT ![c] = r]
      BY <1>7 DEF HotCall, TypeOK, Calls, Outside
    <2>2. call[c].pc \notin Outside
      BY <1>7 DEF HotCall, Outside
    <2>3. call' \in [Callers -> Calls] /\ Exclusive'
      BY <1>7, <2>1, <2>2, StaysInside DEF HotCall
    <2>4. call[c].config.template.rules \in 0 .. 1
          /\ Served(call[c].config.row) \in SUBSET SUBSET Clients
      BY ServedTyped DEF TypeOK, Calls, Configs, Templates
    <2>5. core' \in Cores
      BY <1>7, <2>4 DEF HotCall, Called, First, TypeOK, Cores
    <2> QED BY <1>7, <2>3, <2>5 DEF HotCall, TypeOK
  <1>8. CASE HotFails(c)
    <2>1. call' \in [Callers -> Calls] /\ Exclusive'
      BY <1>8, GotoTyped DEF HotFails, Pcs, Outside
    <2>2. core' \in Cores
      BY <1>8 DEF HotFails, TypeOK, Cores
    <2> QED BY <1>8, <2>1, <2>2 DEF HotFails, TypeOK
  <1>9. CASE HotDone(c)
    <2>1. call[c].pc \notin Outside /\ call[c].config \in Configs
      BY <1>9 DEF HotDone, Outside, TypeOK, Calls
    <2> QED BY <1>9, <2>1, ReturnTyped DEF HotDone, TypeOK
  <1>10. CASE StopMark(c)
    <2>1. call' \in [Callers -> Calls] /\ Exclusive'
      BY <1>10, GotoTyped DEF StopMark, Pcs, Outside
    <2>2. core' \in Cores
      BY <1>10 DEF StopMark, TypeOK, Cores
    <2> QED BY <1>10, <2>1, <2>2 DEF StopMark, TypeOK
  <1>11. CASE Signal(c)
    <2>1. call' \in [Callers -> Calls] /\ Exclusive'
      BY <1>11, GotoTyped DEF Signal, Pcs, Outside
    <2>2. core' \in Cores /\ owed' \in SUBSET Clients
      BY <1>11, ExitTyped DEF Signal, TypeOK
    <2> QED BY <1>11, <2>1, <2>2 DEF Signal, TypeOK
  <1>12. CASE Stopped(c)
    <2>1. call[c].pc \notin Outside
      BY <1>12 DEF Stopped, Outside
    <2>2. CASE call[c].goal = "stop"
      BY <1>12, <2>1, <2>2, ReturnTyped DEF Stopped, TypeOK
    <2>3. CASE call[c].goal # "stop"
      <3>1. call' \in [Callers -> Calls] /\ Exclusive'
        BY <1>12, <2>1, <2>3, GotoTyped DEF Stopped, Pcs, Outside
      <3> QED BY <1>12, <2>3, <3>1 DEF Stopped, TypeOK
    <2> QED BY <2>2, <2>3
  <1>13. CASE Start(c)
    <2>1. call[c].pc \notin Outside /\ call[c].config \in Configs
      BY <1>13 DEF Start, Outside, TypeOK, Calls
    <2>2. core' \in Cores
      BY <1>13, <2>1, StartedTyped DEF Start
    <2> QED BY <1>13, <2>1, <2>2, ReturnTyped DEF Start, TypeOK
  <1>14. CASE StartFails(c)
    <2>1. call[c].pc \notin Outside /\ call[c].config \in Configs
      BY <1>14 DEF StartFails, Outside, TypeOK, Calls
    <2>2. core' \in Cores
      BY <1>14, <2>1, StartedTyped DEF StartFails, Cores
    <2>3. /\ snap' \in Configs /\ owed' = owed /\ excused' = excused /\ alarmed' \in BOOLEAN
          /\ acts' = acts /\ faults' \in 0 .. MaxFaults
      <3>1. Fault /\ snap' = call[c].config /\ owed' = owed /\ excused' = excused
            /\ alarmed' = FALSE
        BY <1>14 DEF StartFails
      <3>2. acts' = acts /\ faults' \in 0 .. MaxFaults
        BY <3>1 DEF TypeOK
      <3> HIDE DEF Smooth, Fault, CallWorks, CallFails
      <3> QED BY <2>1, <3>1, <3>2 DEF TypeOK
    <2>4. Return(c, TRUE)
      BY <1>14 DEF StartFails
    <2> HIDE DEF Smooth, Fault, CallWorks, CallFails
    <2> QED BY <2>1, <2>2, <2>3, <2>4, ReturnTyped DEF TypeOK
  <1>15. CASE StopFails(c)
    <2>1. call[c].pc \notin Outside
      BY <1>15 DEF StopFails, Outside
    <2>2. /\ core' = core /\ snap' = snap /\ acts' = acts /\ faults' \in 0 .. MaxFaults
          /\ owed' = owed /\ excused' \in BOOLEAN /\ alarmed' = alarmed
      BY <1>15 DEF StopFails, TypeOK
    <2>3. CASE call[c].goal = "stop"
      <3>1. Return(c, TRUE)
        BY <1>15, <2>3 DEF StopFails
      <3> HIDE DEF Smooth, Fault, CallWorks, CallFails
      <3> QED BY <2>1, <2>2, <3>1, ReturnTyped DEF TypeOK
    <2>4. CASE call[c].goal # "stop"
      <3>1. call' \in [Callers -> Calls] /\ Exclusive'
        BY <1>15, <2>1, <2>4, GotoTyped DEF StopFails, Pcs, Outside
      <3>2. UNCHANGED <<stored, due, manual, editor, looks, lock, flag>>
        BY <1>15, <2>4 DEF StopFails, Return
      <3> HIDE DEF Smooth, Fault, CallWorks, CallFails
      <3> QED BY <2>2, <3>1, <3>2 DEF TypeOK
    <2> QED BY <2>3, <2>4
  <1> QED
    BY <1>1, <1>2, <1>3, <1>4, <1>5, <1>6, <1>7, <1>8, <1>9, <1>10, <1>11, <1>12, <1>13,
       <1>14, <1>15 DEF Step

LEMMA TypeNext == Types => TypeOK'
  <1> SUFFICES ASSUME TypeOK, [Next]_vars PROVE TypeOK'
    BY DEF Types
  <1> USE DEF stored, marks, ghosts, Smooth, Fault, CallWorks, CallFails, At
  <1>1. ASSUME NEW c \in Callers, Step(c) PROVE TypeOK'
    BY <1>1, TypeStep
  <1>2. CASE RestartCron
    <2>1. call' \in [Callers -> Calls] /\ Exclusive'
      BY <1>2, AskTyped DEF RestartCron, Outside, Goals, Callers
    <2> QED BY <1>2, <2>1 DEF RestartCron, TypeOK
  <1>3. CASE HealthCheck
    <2>1. call' \in [Callers -> Calls] /\ Exclusive'
      <3>1. CASE DidXrayCrash /\ looks = 1
        BY <1>3, <3>1, AskTyped DEF HealthCheck, Outside, Goals, Callers
      <3>2. CASE ~ (DidXrayCrash /\ looks = 1)
        BY <1>3, <3>2 DEF HealthCheck, TypeOK, Exclusive
      <3> QED BY <3>1, <3>2
    <2> QED BY <1>3, <2>1 DEF HealthCheck, TypeOK
  <1>4. CASE TrafficJob
    <2>1. call' \in [Callers -> Calls] /\ Exclusive'
      <3>1. CASE RestartOnDisable
        BY <1>4, <3>1, AskTyped DEF TrafficJob, Outside, Goals, Callers
      <3>2. CASE ~ RestartOnDisable
        BY <1>4, <3>2 DEF TrafficJob, TypeOK, Exclusive
      <3> QED BY <3>1, <3>2
    <2>2. row' \in Rows /\ core' \in Cores
      BY <1>4, DisableTyped DEF TrafficJob
    <2>3. flag' \in BOOLEAN /\ owed' \in SUBSET Clients
      BY <1>4 DEF TrafficJob, TypeOK, Cores
    <2> QED BY <1>4, <2>1, <2>2, <2>3 DEF TrafficJob, TypeOK
  <1>5. CASE TrafficJobUnheard
    <2>1. call' \in [Callers -> Calls] /\ Exclusive'
      <3>1. CASE RestartOnDisable
        BY <1>5, <3>1, AskTyped DEF TrafficJobUnheard, Outside, Goals, Callers
      <3>2. CASE ~ RestartOnDisable
        BY <1>5, <3>2 DEF TrafficJobUnheard, TypeOK, Exclusive
      <3> QED BY <3>1, <3>2
    <2>2. row.ver + 1 \in Nat /\ row.clients \ due \in SUBSET Clients /\ row \in Rows
      BY DEF TypeOK, Rows
    <2>3. row' \in Rows
      BY <1>5, <2>2 DEF TrafficJobUnheard, Rows
    <2>4. flag' \in BOOLEAN /\ owed' \in SUBSET Clients
      BY <1>5 DEF TrafficJobUnheard, TypeOK, Cores
    <2> QED BY <1>5, <2>1, <2>3, <2>4 DEF TrafficJobUnheard, TypeOK
  <1>6. ASSUME NEW goal \in {"force", "stop"}, Operate(goal) PROVE TypeOK'
    <2>1. call' \in [Callers -> Calls] /\ Exclusive'
      BY <1>6, AskTyped DEF Operate, Outside, Goals, Callers
    <2> QED BY <1>6, <2>1 DEF Operate, Act, TypeOK
  <1>7. CASE SaveTemplate
    <2> DEFINE r == [call["saver"] EXCEPT !.pc = "saved"]
    <2>1. r \in Calls /\ r.pc \in Outside /\ call' = [call EXCEPT !["saver"] = r]
      BY <1>7 DEF SaveTemplate, Goto, TypeOK, Calls, Pcs, Outside, Callers
    <2>2. call["saver"].pc \in Outside
      BY <1>7 DEF SaveTemplate, Outside
    <2>3. call' \in [Callers -> Calls] /\ Exclusive'
      BY <1>7, <2>1, <2>2, StaysOutside DEF SaveTemplate, Callers
    <2>4. template' \in Templates
      BY <1>7 DEF SaveTemplate, TypeOK, Templates
    <2> QED BY <1>7, <2>3, <2>4 DEF SaveTemplate, Act, TypeOK
  <1>8. CASE Reconcile
    <2>1. call["saver"].pc \in Outside
      BY <1>8 DEF Reconcile, Outside
    <2>2. call' \in [Callers -> Calls] /\ Exclusive'
      <3>1. CASE IsRunning
        BY <1>8, <2>1, <3>1, AskTyped DEF Reconcile, Goals, Callers
      <3>2. CASE ~ IsRunning
        <4> DEFINE r == [call["saver"] EXCEPT !.pc = "idle"]
        <4>1. r \in Calls /\ r.pc \in Outside /\ call' = [call EXCEPT !["saver"] = r]
          BY <1>8, <3>2 DEF Reconcile, Goto, TypeOK, Calls, Pcs, Outside, Callers
        <4> QED BY <1>8, <2>1, <4>1, StaysOutside DEF Reconcile, Callers
      <3> QED BY <3>1, <3>2
    <2> QED BY <1>8, <2>2 DEF Reconcile, TypeOK
  <1>9. CASE Switch
    <2>1. row' \in Rows
      <3>1. row.ver + 1 \in Nat /\ (~ row.on) \in BOOLEAN /\ row \in Rows
        BY DEF TypeOK, Rows
      <3> QED BY <1>9, <3>1 DEF Switch, Rows
    <2>2. editor' \in Editors
      BY <1>9, <2>1 DEF Switch, Editors, Rows
    <2>3. acts' \in 0 .. MaxActs /\ faults' = faults
      BY <1>9 DEF Switch, Act, TypeOK
    <2> QED BY <1>9, <2>1, <2>2, <2>3 DEF Switch, TypeOK, Exclusive
  <1>10. CASE EditorStep
    <2>1. call' = call /\ lock' = lock
      BY <1>10 DEF EditorStep, SwitchDel, SwitchBuild, SwitchAdd, SwitchFlag
    <2>2. Exclusive'
      BY <2>1 DEF TypeOK, Exclusive
    <2>3. CASE SwitchDel
      <3>1. core' \in Cores /\ editor' \in Editors
        BY <2>3 DEF SwitchDel, TypeOK, Cores, Editors
      <3> QED BY <2>2, <2>3, <3>1 DEF SwitchDel, TypeOK
    <2>4. CASE SwitchBuild
      <3>1. editor' \in Editors
        BY <2>4 DEF SwitchBuild, TypeOK, Rows, Editors
      <3> QED BY <2>2, <2>4, <3>1 DEF SwitchBuild, TypeOK
    <2>5. CASE SwitchAdd
      <3>1. core' \in Cores
        <4>1. {editor.payload} \in SUBSET SUBSET Clients /\ core \in Cores
          BY DEF TypeOK, Editors
        <4>2. core' = core \/ core' = [core EXCEPT !.inbounds = {editor.payload}, !.pushed = TRUE]
          BY <2>5 DEF SwitchAdd
        <4> QED BY <4>1, <4>2 DEF Cores
      <3>2. editor' \in Editors
        BY <2>5 DEF SwitchAdd, TypeOK, Editors
      <3>3. acts' = acts /\ faults' \in 0 .. MaxFaults
        BY <2>5 DEF SwitchAdd, TypeOK
      <3> QED BY <2>2, <2>5, <3>1, <3>2, <3>3 DEF SwitchAdd, TypeOK
    <2>6. CASE SwitchFlag
      <3>1. flag' \in BOOLEAN /\ editor' \in Editors
        BY <2>6 DEF SwitchFlag, TypeOK, Editors
      <3> QED BY <2>2, <2>6, <3>1 DEF SwitchFlag, TypeOK
    <2> QED BY <1>10, <2>3, <2>4, <2>5, <2>6 DEF EditorStep
  <1>11. ASSUME NEW c \in Clients, Expire(c) PROVE TypeOK'
    BY <1>11 DEF Expire, TypeOK, Exclusive
  <1>12. ASSUME NEW c \in Clients, Connect(c) PROVE TypeOK'
    <2>1. core' \in Cores
      BY <1>12 DEF Connect, TypeOK, Cores
    <2> QED BY <1>12, <2>1 DEF Connect, TypeOK, Exclusive
  <1>13. CASE Crash
    <2>1. core' \in Cores /\ owed' \in SUBSET Clients
      BY <1>13, ExitTyped DEF Crash
    <2>2. acts' = acts /\ faults' \in 0 .. MaxFaults
      BY <1>13 DEF Crash, TypeOK
    <2> QED BY <1>13, <2>1, <2>2 DEF Crash, TypeOK, Exclusive
  <1>14. CASE Reap
    <2>1. core' \in Cores /\ alarmed' \in BOOLEAN
      BY <1>14 DEF Reap, TypeOK, Cores
    <2> QED BY <1>14, <2>1 DEF Reap, TypeOK, Exclusive
  <1>15. CASE UNCHANGED vars
    BY <1>15 DEF vars, TypeOK, Exclusive
  <1>16. CASE LateExit
    <2>1. core' \in Cores /\ owed' \in SUBSET Clients
      BY <1>16, ExitTyped DEF LateExit
    <2> QED BY <1>16, <2>1 DEF LateExit, TypeOK, Exclusive
  <1> QED
    BY <1>1, <1>2, <1>3, <1>4, <1>5, <1>6, <1>7, <1>8, <1>9, <1>10, <1>11, <1>12, <1>13,
       <1>14, <1>15, <1>16 DEF Next

\* Values keep their types, and one caller at a time is inside RestartXray or
\* StopXray, however many ask (xray.go:913, 1055).
THEOREM Typed == Spec => []TypeOK
  <1>1. Init => TypeOK
    BY TypeInit
  <1>2. TypeOK /\ [Next]_vars => TypeOK'
    BY TypeNext DEF Types
  <1> QED BY <1>1, <1>2, PTL DEF Spec

-----------------------------------------------------------------------------
(* What a step of somebody who does not hold the mutex leaves alone.        *)

KeepsOut(c) ==
  /\ call[c].pc \notin Outside => call'[c] = call[c]
  /\ call[c].pc \in Outside => call'[c].pc \in Outside
  /\ call'[c].goal = "stop" =>
       call'[c].pc = "lock" \/ (call[c].goal = "stop" /\ call[c].pc # "lock")

Others ==
  /\ lock' = lock /\ manual' = manual /\ snap' = snap
  /\ template'.ver >= template.ver /\ row'.ver >= row.ver
  /\ \A c \in Callers : KeepsOut(c)

\* The core is as it was but for API calls on its inbound, or it crashed or went after
\* all, or its exit was noticed.
CoreOfOthers ==
  /\ core'.static = core.static /\ core'.rules = core.rules /\ core'.term = core.term
  /\ core'.pushed \/ core'.state # "live"
     \/ (core'.inbounds = core.inbounds /\ core'.pushed = core.pushed)
  /\ \/ core'.state = core.state /\ core'.by = core.by /\ alarmed' = alarmed
     \/ /\ core.state = "live" /\ core'.state = "exited" /\ alarmed' = alarmed
        /\ core'.by = "self" \/ core.term
     \/ core.state = "exited" /\ core'.state = "gone" /\ core'.by = core.by
        /\ alarmed' = ~ core.term

Elsewhere ==
  \/ RestartCron \/ HealthCheck \/ TrafficJob \/ TrafficJobUnheard
  \/ Operate("force") \/ Operate("stop") \/ SaveTemplate \/ Reconcile
  \/ Switch \/ EditorStep
  \/ \E c \in Clients : Expire(c) \/ Connect(c)
  \/ Crash \/ LateExit \/ Reap \/ UNCHANGED vars

LEMMA AskOutside ==
  ASSUME TypeOK, NEW c \in Callers, call[c].pc \in Outside,
         NEW goal \in Goals, NEW need \in BOOLEAN, Ask(c, goal, need)
  PROVE  \A d \in Callers : KeepsOut(d)
  <1> SUFFICES ASSUME NEW d \in Callers PROVE KeepsOut(d)
    OBVIOUS
  <1>1. CASE d = c
    <2>1. call'[c].pc = "lock"
      BY DEF Ask, TypeOK, Idle
    <2> QED BY <1>1, <2>1 DEF Outside, KeepsOut
  <1>2. CASE d # c
    <2>1. call'[d] = call[d]
      BY <1>2 DEF Ask, TypeOK
    <2> QED BY <2>1 DEF KeepsOut
  <1> QED BY <1>1, <1>2

LEMMA SameOutside ==
  ASSUME call' = call
  PROVE  \A d \in Callers : KeepsOut(d)
  BY DEF KeepsOut

LEMMA ElsewhereLeavesAlone == TypeOK /\ Elsewhere => Others
  <1> SUFFICES ASSUME TypeOK, Elsewhere PROVE Others
    OBVIOUS
  <1> USE DEF stored, marks, At
  <1>0. template.ver \in Nat /\ row.ver \in Nat
    BY DEF TypeOK, Templates, Rows
  <1>1. CASE RestartCron
    <2>1. \A d \in Callers : KeepsOut(d)
      BY <1>1, AskOutside DEF RestartCron, Callers, Outside, Goals
    <2> QED BY <1>0, <1>1, <2>1 DEF RestartCron, Others
  <1>2. CASE HealthCheck
    <2>1. \A d \in Callers : KeepsOut(d)
      BY <1>2, AskOutside, SameOutside DEF HealthCheck, Callers, Outside, Goals
    <2> QED BY <1>0, <1>2, <2>1 DEF HealthCheck, Others
  <1>3. CASE TrafficJob \/ TrafficJobUnheard
    <2>0. row'.ver >= row.ver
      <3>1. row' = row \/ row' = [row EXCEPT !.ver = row.ver + 1, !.clients = row.clients \ due]
        BY <1>3 DEF TrafficJob, TrafficJobUnheard, Disable
      <3>2. row' = row \/ row'.ver = row.ver + 1
        BY <3>1 DEF TypeOK, Rows
      <3> QED BY <1>0, <3>2
    <2>1. \A d \in Callers : KeepsOut(d)
      BY <1>3, AskOutside, SameOutside
      DEF TrafficJob, TrafficJobUnheard, Callers, Outside, Goals
    <2>2. lock' = lock /\ manual' = manual /\ snap' = snap /\ template' = template
      BY <1>3 DEF TrafficJob, TrafficJobUnheard
    <2> QED BY <1>0, <2>0, <2>1, <2>2 DEF Others
  <1>4. CASE Operate("force") \/ Operate("stop")
    <2>1. \A d \in Callers : KeepsOut(d)
      BY <1>4, AskOutside DEF Operate, Callers, Outside, Goals
    <2>2. lock' = lock /\ manual' = manual /\ snap' = snap /\ template' = template /\ row' = row
      BY <1>4 DEF Operate
    <2> QED BY <1>0, <2>1, <2>2 DEF Others
  <1>5. CASE SaveTemplate
    <2>1. template'.ver >= template.ver
      BY <1>0, <1>5 DEF SaveTemplate
    <2>2. ASSUME NEW d \in Callers PROVE KeepsOut(d)
      BY <1>5 DEF SaveTemplate, Goto, TypeOK, Calls, Outside, KeepsOut
    <2> QED BY <1>0, <1>5, <2>1, <2>2 DEF SaveTemplate, Others
  <1>6. CASE Reconcile
    <2>1. CASE IsRunning
      <3>1. \A d \in Callers : KeepsOut(d)
        BY <1>6, <2>1, AskOutside DEF Reconcile, Callers, Outside, Goals
      <3> QED BY <1>0, <1>6, <3>1 DEF Reconcile, Others
    <2>2. CASE ~ IsRunning
      <3>1. ASSUME NEW d \in Callers PROVE KeepsOut(d)
        BY <1>6, <2>2 DEF Reconcile, Goto, TypeOK, Calls, Outside, KeepsOut
      <3> QED BY <1>0, <1>6, <3>1 DEF Reconcile, Others
    <2> QED BY <2>1, <2>2
  <1>7. CASE Switch
    <2>1. row'.ver >= row.ver
      BY <1>0, <1>7 DEF Switch, TypeOK, Rows
    <2> QED BY <1>0, <1>7, <2>1, SameOutside DEF Switch, Others
  <1>8. CASE EditorStep
    BY <1>0, <1>8, SameOutside
    DEF EditorStep, SwitchDel, SwitchBuild, SwitchAdd, SwitchFlag, Others
  <1>9. CASE \E c \in Clients : Expire(c) \/ Connect(c)
    BY <1>0, <1>9, SameOutside DEF Expire, Connect, Others
  <1>10. CASE Crash \/ LateExit \/ Reap
    <2>1. CASE Crash \/ Reap
      BY <1>0, <2>1, SameOutside DEF Crash, Reap, Others
    <2>2. CASE LateExit
      BY <1>0, <2>2, SameOutside DEF LateExit, Others, marks
    <2> QED BY <1>10, <2>1, <2>2
  <1>11. CASE UNCHANGED vars
    BY <1>0, <1>11, SameOutside DEF vars, Others
  <1> QED
    BY <1>1, <1>2, <1>3, <1>4, <1>5, <1>6, <1>7, <1>8, <1>9, <1>10, <1>11 DEF Elsewhere

LEMMA ElsewhereTouchesCore == TypeOK /\ Elsewhere => CoreOfOthers
  <1> SUFFICES ASSUME TypeOK, Elsewhere PROVE CoreOfOthers
    OBVIOUS
  <1> USE DEF ghosts
  <1>1. CASE TrafficJob
    BY <1>1 DEF TrafficJob, Disable, TypeOK, Cores, CoreOfOthers
  <1>2. CASE EditorStep
    BY <1>2 DEF EditorStep, SwitchDel, SwitchBuild, SwitchAdd, SwitchFlag, TypeOK, Cores,
                CoreOfOthers
  <1>3. CASE \E c \in Clients : Expire(c) \/ Connect(c)
    BY <1>3 DEF Expire, Connect, TypeOK, Cores, CoreOfOthers
  <1>4. CASE Crash
    BY <1>4 DEF Crash, Exit, TypeOK, Cores, CoreOfOthers
  <1>7. CASE LateExit
    BY <1>7 DEF LateExit, Exit, TypeOK, Cores, CoreOfOthers
  <1>5. CASE Reap
    BY <1>5 DEF Reap, TypeOK, Cores, CoreOfOthers
  <1>6. CASE core' = core /\ alarmed' = alarmed
    BY <1>6 DEF CoreOfOthers
  <1> QED
    BY <1>1, <1>2, <1>3, <1>4, <1>5, <1>6, <1>7
    DEF Elsewhere, RestartCron, HealthCheck, TrafficJobUnheard, Operate, SaveTemplate,
        Reconcile, Switch, vars

-----------------------------------------------------------------------------
(* What a step of the holder changes of the callers.                        *)

Inside(c) == call[c].pc \notin Outside

\* While one caller is inside, or enters, the others are outside and stay as
\* they are.
LEMMA StepAlone ==
  ASSUME TypeOK, NEW c \in Callers, Step(c)
  PROVE  \A d \in Callers \ {c} : call'[d] = call[d] /\ call[d].pc \in Outside
  <1> SUFFICES ASSUME NEW d \in Callers \ {c}
               PROVE  call'[d] = call[d] /\ call[d].pc \in Outside
    OBVIOUS
  <1>1. call[d].pc \in Outside
    <2>1. CASE Enter(c)
      BY <2>1 DEF Enter, TypeOK, Exclusive, Free, Callers
    <2>2. CASE Inside(c)
      BY <2>2 DEF Inside, TypeOK, Exclusive
    <2>3. Enter(c) \/ Inside(c)
      BY DEF Step, ReadTemplate, ReadInbounds, ReadFails, NothingToDo, Decide, HotCall,
             HotFails, HotDone, StopMark, Signal, StopFails, Stopped, Start, StartFails, At,
             Inside, Outside
    <2> QED BY <2>1, <2>2, <2>3
  <1>2. call'[d] = call[d]
    <2>1. \E r : call' = [call EXCEPT ![c] = r]
      <3>1. CASE Enter(c)
        BY <3>1 DEF Enter, Goto
      <3>2. CASE ReadTemplate(c) \/ ReadInbounds(c)
        BY <3>2 DEF ReadTemplate, ReadInbounds
      <3>3. CASE ReadFails(c) \/ NothingToDo(c) \/ HotDone(c) \/ Start(c) \/ StartFails(c)
        BY <3>3 DEF ReadFails, NothingToDo, HotDone, Start, StartFails, Return
      <3>4. CASE Decide(c) \/ HotCall(c)
        BY <3>4 DEF Decide, HotCall
      <3>5. CASE HotFails(c) \/ StopMark(c) \/ Signal(c)
        BY <3>5 DEF HotFails, StopMark, Signal, Goto
      <3>6. CASE Stopped(c) \/ StopFails(c)
        BY <3>6 DEF Stopped, StopFails, Return, Goto
      <3> QED BY <3>1, <3>2, <3>3, <3>4, <3>5, <3>6 DEF Step
    <2> QED BY <2>1 DEF TypeOK
  <1> QED BY <1>1, <1>2

LEMMA NextSplits ==
  ASSUME [Next]_vars
  PROVE  (\E c \in Callers : Step(c)) \/ Elsewhere
  BY DEF Next, Elsewhere

LEMMA ReturnIdle ==
  ASSUME TypeOK, NEW c \in Callers, NEW failed, Return(c, failed)
  PROVE  call'[c] = Idle /\ Idle.pc = "idle" /\ lock' = Free /\ manual' = manual
         /\ template' = template /\ row' = row
  BY DEF Return, Idle, TypeOK, stored

LEMMA GotoMoves ==
  ASSUME TypeOK, NEW c \in Callers, NEW pc, Goto(c, pc)
  PROVE  /\ call'[c].pc = pc /\ call'[c].goal = call[c].goal
         /\ call'[c].config = call[c].config /\ call'[c].todo = call[c].todo
  BY DEF Goto, TypeOK, Calls

-----------------------------------------------------------------------------
(* A manual stop holds.                                                     *)

\* The mark says whether the holder of the mutex is stopping the core, and one
\* that stops it never reaches the steps that start it, and has told the core.
StopMarks ==
  /\ \A c \in Callers : Inside(c) => (manual <=> call[c].goal = "stop")
  /\ \A c \in Callers :
       Inside(c) /\ call[c].goal = "stop" => call[c].pc \in {"stop", "signal", "exit"}
  /\ \A c \in Callers : call[c].pc \in {"signal", "exit"} => core.term
  /\ ManualStopHolds

LEMMA StopMarksStep ==
  ASSUME TypeOK, StopMarks, NEW c \in Callers, Step(c)
  PROVE  StopMarks'
  <1> USE DEF At, Inside, Outside, marks
  <1>1. \A d \in Callers \ {c} : call'[d].pc \in Outside
    BY StepAlone
  <1>2. SUFFICES /\ Inside(c)' => (manual' <=> call'[c].goal = "stop")
                 /\ Inside(c)' /\ call'[c].goal = "stop" =>
                      call'[c].pc \in {"stop", "signal", "exit"}
                 /\ call'[c].pc \in {"signal", "exit"} => core'.term
                 /\ ManualStopHolds'
    BY <1>1 DEF StopMarks
  <1>3. CASE Enter(c)
    <2>1. /\ call'[c].pc = (IF call[c].goal = "stop" THEN "stop" ELSE "template")
          /\ call'[c].goal = call[c].goal /\ manual' = (call[c].goal = "stop") /\ lock' # Free
      BY <1>3, GotoMoves DEF Enter, Free, Callers
    <2> QED BY <2>1 DEF ManualStopHolds
  <1>4. CASE ReadTemplate(c) \/ ReadInbounds(c) \/ Decide(c) \/ HotCall(c) \/ HotFails(c)
    <2>1. /\ call'[c].goal = call[c].goal /\ manual' = manual /\ lock' = lock
          /\ call[c].pc \in {"template", "inbounds", "decide", "hot"}
          /\ call'[c].pc \notin {"signal", "exit"}
      BY <1>4, GotoMoves
      DEF ReadTemplate, ReadInbounds, Decide, HotCall, HotFails, TypeOK, Calls
    <2>2. lock # Free
      BY <2>1 DEF TypeOK, Exclusive, Free, Callers
    <2> QED BY <2>1, <2>2 DEF StopMarks, ManualStopHolds
  <1>5. CASE ReadFails(c) \/ NothingToDo(c) \/ HotDone(c) \/ Start(c) \/ StartFails(c)
    <2>1. /\ call'[c].pc = "idle" /\ manual' = manual
          /\ call[c].pc \in {"template", "inbounds", "decide", "hot", "start"}
      BY <1>5, ReturnIdle DEF ReadFails, NothingToDo, HotDone, Start, StartFails
    <2> QED BY <2>1 DEF StopMarks, ManualStopHolds
  <1>6. CASE StopMark(c) \/ Signal(c)
    <2>1. /\ call'[c].goal = call[c].goal /\ manual' = manual /\ lock' = lock
          /\ call'[c].pc \in {"signal", "exit"} /\ call[c].pc \in {"stop", "signal"}
      BY <1>6, GotoMoves DEF StopMark, Signal
    <2>3. core'.term
      <3>1. CASE StopMark(c)
        BY <3>1 DEF StopMark, TypeOK, Cores
      <3>2. CASE Signal(c)
        <4>1. core.term
          BY <3>2 DEF Signal, StopMarks
        <4>2. core' = core \/ core'.term = core.term
          BY <3>2 DEF Signal, Exit, TypeOK, Cores
        <4> QED BY <4>1, <4>2
      <3> QED BY <1>6, <3>1, <3>2
    <2>2. lock # Free
      BY <2>1 DEF TypeOK, Exclusive, Free, Callers
    <2> QED BY <2>1, <2>2, <2>3 DEF StopMarks, ManualStopHolds
  <1>8. CASE StopFails(c)
    <2>1. call[c].pc \in {"signal", "exit"} /\ core' = core /\ core.term /\ core'.term
      BY <1>8 DEF StopFails, StopMarks
    <2>2. CASE call[c].goal = "stop"
      <3>1. call'[c].pc = "idle"
        BY <1>8, <2>2, ReturnIdle DEF StopFails
      <3> QED BY <2>1, <3>1 DEF ManualStopHolds
    <2>3. CASE call[c].goal # "stop"
      <3>1. call'[c].pc = "start" /\ call'[c].goal = call[c].goal
        BY <1>8, <2>3, GotoMoves DEF StopFails
      <3>2. manual' = manual
        BY <1>8, <2>3 DEF StopFails
      <3> QED BY <2>1, <2>3, <3>1, <3>2 DEF StopMarks, ManualStopHolds
    <2> QED BY <2>2, <2>3
  <1>7. CASE Stopped(c)
    <2>1. call[c].pc \in {"stop", "exit"} /\ ~ IsRunning /\ core' = core
      BY <1>7 DEF Stopped
    <2>2. CASE call[c].goal = "stop"
      <3>1. call'[c].pc = "idle"
        BY <1>7, <2>2, ReturnIdle DEF Stopped
      <3> QED BY <2>1, <3>1 DEF ManualStopHolds, IsRunning
    <2>3. CASE call[c].goal # "stop"
      <3>1. /\ call'[c].pc = "start" /\ call'[c].goal = call[c].goal
            /\ manual' = manual
        BY <1>7, <2>3, GotoMoves DEF Stopped
      <3> QED BY <2>1, <2>3, <3>1 DEF StopMarks, ManualStopHolds, IsRunning
    <2> QED BY <2>2, <2>3
  <1> QED BY <1>3, <1>4, <1>5, <1>6, <1>7, <1>8 DEF Step

LEMMA StopMarksElsewhere ==
  ASSUME TypeOK, StopMarks, Elsewhere
  PROVE  StopMarks'
  <1>1. Others /\ CoreOfOthers
    BY ElsewhereLeavesAlone, ElsewhereTouchesCore
  <1>2. \A c \in Callers : Inside(c)' => Inside(c) /\ call'[c] = call[c]
    BY <1>1 DEF Others, KeepsOut, Inside
  <1>3. core.state = "gone" => core'.state = "gone"
    BY <1>1 DEF CoreOfOthers
  <1>4. core'.term = core.term
    BY <1>1 DEF CoreOfOthers
  <1>5. ManualStopHolds'
    BY <1>1, <1>3, <1>4 DEF Others, StopMarks, ManualStopHolds, IsRunning
  <1>6. \A c \in Callers : call'[c].pc \in {"signal", "exit"} => call'[c] = call[c]
    BY <1>1 DEF Others, KeepsOut, Outside
  <1> QED BY <1>1, <1>2, <1>4, <1>5, <1>6 DEF Others, StopMarks

\* While the panel takes the core for stopped by hand and nobody restarts or stops it,
\* there is no process but one that was told to go: no step of a restart that is under
\* way, or was asked for before, comes between the stop and its mark
\* (xray.go:912-916, 1054-1064).
THEOREM StoppedByHand == Spec => []ManualStopHolds
  <1>1. Init => StopMarks
    BY DEF Init, StopMarks, ManualStopHolds, Inside, Outside, Idle
  <1>2. TypeOK /\ StopMarks /\ [Next]_vars => StopMarks'
    BY NextSplits, StopMarksStep, StopMarksElsewhere
  <1>3. StopMarks => ManualStopHolds
    BY DEF StopMarks
  <1> QED BY <1>1, <1>2, <1>3, Typed, PTL DEF Spec

-----------------------------------------------------------------------------
(* Restarts do not go back.                                                 *)

\* What the holder of the mutex has read is at least what was recorded, and at
\* most what is stored.
Between(c) ==
  /\ call[c].pc # "template" =>
       /\ snap.template.ver <= call[c].config.template.ver
       /\ call[c].config.template.ver <= template.ver
  /\ call[c].pc \notin {"template", "inbounds"} =>
       /\ snap.row.ver <= call[c].config.row.ver
       /\ call[c].config.row.ver <= row.ver

Fresh ==
  /\ snap.template.ver <= template.ver /\ snap.row.ver <= row.ver
  /\ \A c \in Callers : Inside(c) /\ call[c].goal # "stop" => Between(c)

LEMMA VersionsTyped ==
  ASSUME TypeOK
  PROVE  /\ template.ver \in Nat /\ row.ver \in Nat
         /\ snap.template.ver \in Nat /\ snap.row.ver \in Nat
         /\ \A c \in Callers : /\ call[c].config.template.ver \in Nat
                               /\ call[c].config.row.ver \in Nat
  BY DEF TypeOK, Templates, Rows, Configs, Calls

LEMMA DisableAdvances ==
  ASSUME TypeOK, Disable
  PROVE  row'.ver >= row.ver
  <1>1. row' = row \/ row'.ver = row.ver + 1
    BY DEF TypeOK, Rows, Disable
  <1> QED BY <1>1, VersionsTyped

\* One step: the recorded configuration stays or takes the holder's.
LEMMA FreshStep ==
  ASSUME TypeOK, StopMarks, Fresh, NEW c \in Callers, Step(c)
  PROVE  /\ Fresh'
         /\ snap'.template.ver >= snap.template.ver /\ snap'.row.ver >= snap.row.ver
  <1> DEFINE Goal == /\ snap'.template.ver <= template'.ver /\ snap'.row.ver <= row'.ver
                     /\ snap'.template.ver >= snap.template.ver
                     /\ snap'.row.ver >= snap.row.ver
                     /\ Inside(c)' /\ call'[c].goal # "stop" => Between(c)'
  <1> USE DEF At, Inside, Outside, stored
  <1>0. /\ template.ver \in Nat /\ row.ver \in Nat
        /\ snap.template.ver \in Nat /\ snap.row.ver \in Nat
        /\ call[c].config.template.ver \in Nat /\ call[c].config.row.ver \in Nat
        /\ snap.template.ver <= template.ver /\ snap.row.ver <= row.ver
    BY VersionsTyped DEF Fresh
  <1>1. \A d \in Callers \ {c} : call'[d].pc \in Outside
    BY StepAlone
  <1>2. SUFFICES Goal
    BY <1>1 DEF Fresh
  <1>3. CASE Enter(c)
    <2>1. /\ call'[c].pc = (IF call[c].goal = "stop" THEN "stop" ELSE "template")
          /\ call'[c].goal = call[c].goal
          /\ snap' = snap /\ template' = template /\ row' = row
      BY <1>3, GotoMoves DEF Enter
    <2> QED BY <1>0, <2>1 DEF Between
  <1>4. CASE ReadTemplate(c)
    <2>1. /\ call'[c].pc = "inbounds" /\ call'[c].goal = call[c].goal
          /\ call'[c].config.template = template
          /\ snap' = snap /\ template' = template /\ row' = row
      BY <1>4 DEF ReadTemplate, TypeOK, Calls, Configs
    <2> QED BY <1>0, <2>1 DEF Between
  <1>5. CASE ReadInbounds(c)
    <2>1. /\ call'[c].pc = "decide" /\ call'[c].goal = call[c].goal
          /\ call'[c].config.row = row'
          /\ call'[c].config.template = call[c].config.template
          /\ snap' = snap /\ template' = template /\ call[c].pc = "inbounds"
      BY <1>5 DEF ReadInbounds, TypeOK, Calls, Configs
    <2>2. row'.ver >= row.ver /\ row'.ver \in Nat
      BY <1>5, DisableAdvances, DisableTyped DEF ReadInbounds, Rows
    <2>3. call[c].goal # "stop" => Between(c)
      BY <2>1 DEF Fresh
    <2> QED BY <1>0, <2>1, <2>2, <2>3 DEF Between
  <1>6. CASE ReadFails(c) \/ NothingToDo(c)
    <2>1. /\ call'[c].pc = "idle" /\ snap' = snap /\ template' = template /\ row' = row
      BY <1>6, ReturnIdle DEF ReadFails, NothingToDo
    <2> QED BY <1>0, <2>1
  <1>7. CASE Decide(c) \/ HotCall(c) \/ HotFails(c) \/ StopMark(c) \/ Signal(c)
    <2>1. /\ call'[c].pc \notin {"template", "inbounds"} /\ call'[c].goal = call[c].goal
          /\ call'[c].config = call[c].config
          /\ call[c].pc \in {"decide", "hot", "stop", "signal"}
      <3>1. CASE Decide(c)
        BY <3>1 DEF Decide, TypeOK, Calls
      <3>2. CASE HotCall(c)
        BY <3>2 DEF HotCall, TypeOK, Calls
      <3>3. CASE HotFails(c) \/ StopMark(c) \/ Signal(c)
        BY <3>3, GotoMoves DEF HotFails, StopMark, Signal
      <3> QED BY <1>7, <3>1, <3>2, <3>3
    <2>2. snap' = snap /\ template' = template /\ row' = row
      BY <1>7 DEF Decide, HotCall, HotFails, StopMark, Signal
    <2>3. call[c].goal # "stop" => Between(c)
      BY <2>1 DEF Fresh
    <2> QED BY <1>0, <2>1, <2>2, <2>3 DEF Between
  <1>8. CASE HotDone(c) \/ Start(c) \/ StartFails(c)
    <2>1. /\ call'[c].pc = "idle" /\ snap' = call[c].config /\ template' = template
          /\ row' = row /\ call[c].pc \in {"hot", "start"}
      BY <1>8, ReturnIdle DEF HotDone, Start, StartFails
    <2>2. Between(c)
      BY <2>1 DEF Fresh, StopMarks
    <2> QED BY <1>0, <2>1, <2>2 DEF Between
  <1>9. CASE Stopped(c) \/ StopFails(c)
    <2>1. call[c].pc \in {"stop", "signal", "exit"} /\ snap' = snap
      BY <1>9 DEF Stopped, StopFails
    <2>2. CASE call[c].goal = "stop"
      <3>1. call'[c].pc = "idle" /\ template' = template /\ row' = row
        BY <1>9, <2>2, ReturnIdle DEF Stopped, StopFails
      <3> QED BY <1>0, <2>1, <3>1
    <2>3. CASE call[c].goal # "stop"
      <3>1. /\ call'[c].pc = "start" /\ call'[c].config = call[c].config
            /\ template' = template /\ row' = row
        BY <1>9, <2>3, GotoMoves DEF Stopped, StopFails
      <3>2. Between(c)
        BY <2>1, <2>3 DEF Fresh
      <3> QED BY <1>0, <2>1, <3>1, <3>2 DEF Between
    <2> QED BY <2>2, <2>3
  <1> QED BY <1>3, <1>4, <1>5, <1>6, <1>7, <1>8, <1>9 DEF Step

LEMMA FreshElsewhere ==
  ASSUME TypeOK, TypeOK', Fresh, Elsewhere
  PROVE  Fresh' /\ snap' = snap
  <1>1. /\ snap' = snap /\ template'.ver >= template.ver /\ row'.ver >= row.ver
        /\ \A c \in Callers : KeepsOut(c)
    BY ElsewhereLeavesAlone DEF Others
  <1>2. template'.ver \in Nat /\ row'.ver \in Nat
    BY DEF TypeOK, Templates, Rows
  <1>3. snap'.template.ver <= template'.ver /\ snap'.row.ver <= row'.ver
    BY <1>1, <1>2, VersionsTyped DEF Fresh
  <1>4. ASSUME NEW c \in Callers, Inside(c)', call'[c].goal # "stop" PROVE Between(c)'
    <2>1. Inside(c) /\ call'[c] = call[c]
      BY <1>1, <1>4 DEF KeepsOut, Inside
    <2>2. Between(c)
      BY <1>4, <2>1 DEF Fresh
    <2>3. call[c].config.template.ver \in Nat /\ call[c].config.row.ver \in Nat
          /\ template.ver \in Nat /\ row.ver \in Nat
      BY VersionsTyped
    <2> QED BY <1>1, <1>2, <2>1, <2>2, <2>3 DEF Between
  <1> QED BY <1>1, <1>3, <1>4 DEF Fresh

\* No restart or hot apply brings the core back to an older template or older
\* inbounds than it was given, in whatever order restarts were asked for
\* (xray.go:912-945).
THEOREM RestartsDoNotGoBack == Spec => NeverGoesBack
  <1> DEFINE Forward == /\ snap'.template.ver >= snap.template.ver
                        /\ snap'.row.ver >= snap.row.ver
  <1>1. Init => StopMarks /\ Fresh
    BY DEF Init, StopMarks, ManualStopHolds, Fresh, Inside, Outside, Idle, FirstConfig
  <1>2. TypeOK /\ TypeOK' /\ StopMarks /\ Fresh /\ [Next]_vars
          => StopMarks' /\ Fresh' /\ [Forward]_snap
    BY NextSplits, StopMarksStep, StopMarksElsewhere, FreshStep, FreshElsewhere
  <1>3. NeverGoesBack <=> [][Forward]_snap
    BY DEF NeverGoesBack
  <1> QED BY <1>1, <1>2, <1>3, Typed, PTL DEF Spec

-----------------------------------------------------------------------------
(* The core is as recorded.                                                 *)

\* A live core has this configuration: its static part, its rules if asked, and
\* its inbound if asked and nobody changed that one through the API.
Matches(config, rules, inbounds) ==
  core.state = "live" =>
    /\ core.static = config.template.static
    /\ rules => core.rules = config.template.rules
    /\ inbounds /\ ~ core.pushed => core.inbounds = Served(config.row)

\* A hot apply has made the core what it should become, up to the calls that
\* are still to be made.
Halfway(c) ==
  /\ "del" \in call[c].todo => "add" \in call[c].todo
  /\ Matches(call[c].config, "rules" \notin call[c].todo, "add" \notin call[c].todo)

Patched ==
  /\ lock = Free => Matches(snap, TRUE, TRUE)
  /\ \A c \in Callers :
       /\ call[c].pc \in {"template", "inbounds", "decide"} => Matches(snap, TRUE, TRUE)
       /\ call[c].pc = "hot" => Halfway(c)
       /\ call[c].pc = "exit" => core.state # "live"
       /\ call[c].pc = "start" /\ ~ excused => core.state # "live"
       /\ call[c].pc \in {"stop", "signal"} /\ call[c].goal = "stop" => Matches(snap, TRUE, TRUE)

LEMMA PatchedStep ==
  ASSUME TypeOK, StopMarks, Patched, NEW c \in Callers, Step(c)
  PROVE  Patched'
  <1> DEFINE Goal == /\ lock' = Free => Matches(snap, TRUE, TRUE)'
                     /\ call'[c].pc \in {"template", "inbounds", "decide"} =>
                          Matches(snap, TRUE, TRUE)'
                     /\ call'[c].pc = "hot" => Halfway(c)'
                     /\ call'[c].pc = "exit" => core'.state # "live"
                     /\ call'[c].pc = "start" /\ ~ excused' => core'.state # "live"
                     /\ call'[c].pc \in {"stop", "signal"} /\ call'[c].goal = "stop" =>
                          Matches(snap, TRUE, TRUE)'
  <1> USE DEF At
  <1>s. call[c].pc \in {"decide", "hot"} => call[c].goal # "stop"
    BY DEF StopMarks, Inside, Outside
  <1>1. \A d \in Callers \ {c} : call'[d].pc \in Outside
    BY StepAlone
  <1>2. SUFFICES Goal
    BY <1>1 DEF Patched, Outside
  <1>3. CASE Enter(c)
    <2>1. /\ call'[c].pc \in {"stop", "template"} /\ core' = core /\ snap' = snap
          /\ lock = Free /\ lock' # Free
      BY <1>3, GotoMoves DEF Enter, Free, Callers
    <2> QED BY <2>1 DEF Patched, Matches
  <1>4. CASE ReadTemplate(c)
    <2>1. /\ call'[c].pc = "inbounds" /\ call[c].pc = "template"
          /\ core' = core /\ snap' = snap
      BY <1>4 DEF ReadTemplate, TypeOK, Calls
    <2> QED BY <2>1 DEF Patched, Matches
  <1>5. CASE ReadInbounds(c)
    <2>1. call'[c].pc = "decide" /\ call[c].pc = "inbounds" /\ snap' = snap
      BY <1>5 DEF ReadInbounds, TypeOK, Calls
    <2>2. core' = core \/ (/\ core'.static = core.static /\ core'.rules = core.rules
                           /\ core'.state = core.state /\ core'.pushed = TRUE)
      BY <1>5 DEF ReadInbounds, Disable, TypeOK, Cores
    <2> QED BY <2>1, <2>2 DEF Patched, Matches
  <1>6. CASE ReadFails(c) \/ NothingToDo(c)
    <2>1. /\ call'[c].pc = "idle" /\ core' = core /\ snap' = snap
          /\ call[c].pc \in {"template", "inbounds", "decide"}
      BY <1>6, ReturnIdle DEF ReadFails, NothingToDo
    <2> QED BY <2>1 DEF Patched, Matches
  <1>7. CASE Decide(c)
    <2>0. call[c].pc = "decide" /\ Matches(snap, TRUE, TRUE)
      BY <1>7 DEF Decide, Patched
    <2>1. /\ core' = core /\ snap' = snap /\ call'[c].config = call[c].config
          /\ call'[c].goal # "stop"
          /\ call'[c].pc = (IF ~ IsRunning THEN "start"
                            ELSE IF HotApplies(c) THEN "hot" ELSE "stop")
          /\ call'[c].todo = (IF HotApplies(c) THEN HotDiff(snap, call[c].config) ELSE {})
          /\ lock' = lock
      BY <1>7, <1>s, <2>0 DEF Decide, TypeOK, Calls
    <2>2. lock # Free
      BY <2>0 DEF TypeOK, Exclusive, Outside, Free, Callers
    <2>3. CASE ~ IsRunning
      BY <2>1, <2>2, <2>3 DEF IsRunning
    <2>4. CASE IsRunning /\ HotApplies(c)
      <3>1. call'[c].todo = HotDiff(snap, call[c].config)
        BY <2>1, <2>4
      <3>2. "del" \in call'[c].todo => "add" \in call'[c].todo
        BY <3>1 DEF HotDiff
      <3>3. "add" \notin call'[c].todo => Served(snap.row) = Served(call[c].config.row)
        BY <3>1 DEF HotDiff
      <3>4. "rules" \notin call'[c].todo => snap.template.rules = call[c].config.template.rules
        BY <3>1 DEF HotDiff
      <3>5. snap.template.static = call[c].config.template.static
        BY <2>4 DEF HotApplies, HotApplicable
      <3>6. Halfway(c)'
        BY <2>0, <2>1, <3>2, <3>3, <3>4, <3>5 DEF Halfway, Matches
      <3> QED BY <2>1, <2>2, <2>4, <3>6
    <2>5. CASE IsRunning /\ ~ HotApplies(c)
      BY <2>1, <2>2, <2>5
    <2> QED BY <2>3, <2>4, <2>5
  <1>8. CASE HotCall(c)
    <2> DEFINE op == First(call[c].todo)
    <2>1. /\ call[c].pc = "hot" /\ call'[c].pc = "hot" /\ call'[c].config = call[c].config
          /\ call'[c].todo = call[c].todo \ {op} /\ core' = Called(call[c].config, op)
          /\ lock' = lock /\ call[c].todo # {}
      BY <1>8 DEF HotCall, TypeOK, Calls
    <2>2. lock # Free
      BY <2>1 DEF TypeOK, Exclusive, Outside, Free, Callers
    <2>3. Halfway(c) /\ core.state = "live"
      BY <1>8, <2>1 DEF Patched, HotCall, CallWorks
    <2>4. CASE op = "del"
      <3>1. "del" \in call[c].todo /\ "add" \in call'[c].todo
        BY <2>1, <2>3, <2>4 DEF First, Halfway
      <3>2. core'.static = core.static /\ core'.rules = core.rules
        BY <2>1, <2>4 DEF Called, TypeOK, Cores
      <3>3. Halfway(c)'
        BY <2>1, <2>3, <2>4, <3>1, <3>2 DEF Halfway, Matches
      <3> QED BY <2>1, <2>2, <3>3
    <2>5. CASE op = "add"
      <3>1. "del" \notin call[c].todo
        BY <2>5 DEF First
      <3>2. /\ core'.static = core.static /\ core'.rules = core.rules
            /\ core'.inbounds = Served(call[c].config.row)
        BY <2>1, <2>5 DEF Called, TypeOK, Cores
      <3>3. Halfway(c)'
        BY <2>1, <2>3, <2>5, <3>1, <3>2 DEF Halfway, Matches
      <3> QED BY <2>1, <2>2, <3>3
    <2>6. CASE op = "rules"
      <3>1. "del" \notin call[c].todo /\ "add" \notin call[c].todo
        BY <2>6 DEF First
      <3>2. /\ core'.static = core.static /\ core'.rules = call[c].config.template.rules
            /\ core'.inbounds = core.inbounds /\ core'.pushed = core.pushed
        BY <2>1, <2>6 DEF Called, TypeOK, Cores
      <3>3. Halfway(c)'
        BY <2>1, <2>3, <2>6, <3>1, <3>2 DEF Halfway, Matches
      <3> QED BY <2>1, <2>2, <3>3
    <2> QED BY <2>4, <2>5, <2>6 DEF First
  <1>9. CASE HotFails(c) \/ StopMark(c)
    <2>1. call'[c].pc \in {"stop", "signal"} /\ call[c].pc \in {"hot", "stop"} /\ lock' = lock
          /\ call'[c].goal = call[c].goal /\ (HotFails(c) => call[c].pc = "hot")
          /\ (StopMark(c) => call[c].pc = "stop")
      BY <1>9, GotoMoves DEF HotFails, StopMark
    <2>2. lock # Free
      BY <2>1 DEF TypeOK, Exclusive, Outside, Free, Callers
    <2>3. ASSUME call'[c].goal = "stop" PROVE Matches(snap, TRUE, TRUE)'
      <3>1. StopMark(c) /\ call[c].pc = "stop"
        BY <1>9, <1>s, <2>1, <2>3
      <3>2. /\ core'.state = core.state /\ core'.static = core.static
            /\ core'.rules = core.rules /\ core'.inbounds = core.inbounds
            /\ core'.pushed = core.pushed /\ snap' = snap
        BY <3>1 DEF StopMark, TypeOK, Cores
      <3>3. Matches(snap, TRUE, TRUE)
        BY <2>1, <2>3, <3>1 DEF Patched
      <3> QED BY <3>2, <3>3 DEF Matches
    <2> QED BY <2>1, <2>2, <2>3
  <1>10. CASE HotDone(c)
    <2>1. /\ call'[c].pc = "idle" /\ core' = core /\ snap' = call[c].config
          /\ call[c].pc = "hot" /\ call[c].todo = {}
      BY <1>10, ReturnIdle DEF HotDone
    <2>2. Halfway(c)
      BY <2>1 DEF Patched
    <2> QED BY <2>1, <2>2 DEF Halfway, Matches
  <1>11. CASE Signal(c)
    <2>1. /\ call'[c].pc = "exit" /\ call[c].pc = "signal" /\ lock' = lock
          /\ core'.state # "live"
      BY <1>11, GotoMoves DEF Signal, Exit, TypeOK, Cores
    <2>2. lock # Free
      BY <2>1 DEF TypeOK, Exclusive, Outside, Free, Callers
    <2> QED BY <2>1, <2>2
  <1>12. CASE Stopped(c)
    <2>1. core' = core /\ core.state # "live"
      BY <1>12 DEF Stopped, IsRunning
    <2>2. call'[c].pc \in {"idle", "start"}
      BY <1>12, ReturnIdle, GotoMoves DEF Stopped
    <2> QED BY <2>1, <2>2 DEF Matches
  <1>14. CASE StopFails(c)
    <2>1. core' = core /\ snap' = snap /\ excused' = TRUE /\ call[c].pc \in {"signal", "exit"}
      BY <1>14 DEF StopFails
    <2>2. CASE call[c].goal = "stop"
      <3>1. call'[c].pc = "idle"
        BY <1>14, <2>2, ReturnIdle DEF StopFails
      <3>2. Matches(snap, TRUE, TRUE)
        BY <2>1, <2>2 DEF Patched, Matches
      <3> QED BY <2>1, <3>1, <3>2 DEF Matches
    <2>3. CASE call[c].goal # "stop"
      <3>1. call'[c].pc = "start" /\ lock' = lock
        BY <1>14, <2>3, GotoMoves DEF StopFails
      <3>2. lock # Free
        BY <2>1 DEF TypeOK, Exclusive, Outside, Free, Callers
      <3> QED BY <2>1, <3>1, <3>2
    <2> QED BY <2>2, <2>3
  <1>13. CASE Start(c) \/ StartFails(c)
    <2>1. /\ call'[c].pc = "idle" /\ snap' = call[c].config
          /\ core' \in {Started(snap'), [Started(snap') EXCEPT !.state = "gone"]}
      BY <1>13, ReturnIdle DEF Start, StartFails
    <2> QED BY <2>1 DEF Matches, Started
  <1> QED
    BY <1>3, <1>4, <1>5, <1>6, <1>7, <1>8, <1>9, <1>10, <1>11, <1>12, <1>13, <1>14 DEF Step

LEMMA PatchedElsewhere ==
  ASSUME TypeOK, Patched, Elsewhere
  PROVE  Patched'
  <1>1. Others /\ CoreOfOthers
    BY ElsewhereLeavesAlone, ElsewhereTouchesCore
  <1>2. core'.state = "live" => core.state = "live"
    BY <1>1 DEF CoreOfOthers
  <1>3. ASSUME NEW config, NEW rules, NEW inbounds, Matches(config, rules, inbounds)
        PROVE  core'.state = "live" =>
                 /\ core'.static = config.template.static
                 /\ rules => core'.rules = config.template.rules
                 /\ inbounds /\ ~ core'.pushed => core'.inbounds = Served(config.row)
    BY <1>1, <1>2, <1>3 DEF CoreOfOthers, Matches
  <1>4. lock' = Free => Matches(snap, TRUE, TRUE)'
    BY <1>1, <1>3 DEF Others, Patched, Matches
  <1>6. excused' = excused
    BY DEF Elsewhere, RestartCron, HealthCheck, TrafficJob, TrafficJobUnheard, Operate,
           SaveTemplate, Reconcile, Switch, EditorStep, SwitchDel, SwitchBuild, SwitchAdd,
           SwitchFlag, Expire, Connect, Crash, LateExit, Reap, vars, ghosts
  <1>5. ASSUME NEW c \in Callers, Inside(c)'
        PROVE  /\ call'[c].pc \in {"template", "inbounds", "decide"} =>
                    Matches(snap, TRUE, TRUE)'
               /\ call'[c].pc = "hot" => Halfway(c)'
               /\ call'[c].pc = "exit" => core'.state # "live"
               /\ call'[c].pc = "start" /\ ~ excused' => core'.state # "live"
               /\ call'[c].pc \in {"stop", "signal"} /\ call'[c].goal = "stop" =>
                    Matches(snap, TRUE, TRUE)'
    <2>1. call'[c] = call[c] /\ snap' = snap
      BY <1>1, <1>5 DEF Others, KeepsOut, Inside
    <2>2. call[c].pc \in {"template", "inbounds", "decide"} => Matches(snap, TRUE, TRUE)'
      BY <1>3, <2>1 DEF Patched, Matches
    <2>3. call[c].pc = "hot" => Halfway(c)'
      BY <1>3, <2>1 DEF Patched, Halfway, Matches
    <2>4. call[c].pc \in {"stop", "signal"} /\ call[c].goal = "stop" =>
            Matches(snap, TRUE, TRUE)'
      BY <1>3, <2>1 DEF Patched, Matches
    <2> QED BY <1>2, <1>6, <2>1, <2>2, <2>3, <2>4 DEF Patched
  <1> QED BY <1>4, <1>5 DEF Patched, Inside, Outside

\* With nobody restarting or stopping it, a live core is the recorded
\* configuration, but for an inbound somebody changed through the API
\* (xray.go:953-1013).
THEOREM CoreIsAsRecorded == Spec => []CoreMatchesSnapshot
  <1>1. Init => StopMarks /\ Patched
    BY DEF Init, Patched, Matches, Idle, Started, StopMarks, ManualStopHolds, Inside, Outside
  <1>2. TypeOK /\ StopMarks /\ Patched /\ [Next]_vars => StopMarks' /\ Patched'
    BY NextSplits, StopMarksStep, StopMarksElsewhere, PatchedStep, PatchedElsewhere
  <1>3. Patched => CoreMatchesSnapshot
    BY DEF Patched, Matches, CoreMatchesSnapshot
  <1> QED BY <1>1, <1>2, <1>3, Typed, PTL DEF Spec

-----------------------------------------------------------------------------
(* Only crashes are reported.                                               *)

\* Who signals a live core has marked the stop, so that an exit the panel
\* caused finds the mark.
Alarms ==
  /\ alarmed => core.by = "self" /\ core.state = "gone"
  /\ core.state = "exited" => core.by = "self" \/ core.term
  /\ \A c \in Callers : call[c].pc = "signal" /\ core.state = "live" => core.term

LEMMA AlarmsStep ==
  ASSUME TypeOK, Alarms, NEW c \in Callers, Step(c)
  PROVE  Alarms'
  <1> DEFINE Goal == /\ alarmed' => core'.by = "self" /\ core'.state = "gone"
                     /\ core'.state = "exited" => core'.by = "self" \/ core'.term
                     /\ call'[c].pc = "signal" /\ core'.state = "live" => core'.term
  <1> USE DEF At, ghosts
  <1>1. \A d \in Callers \ {c} : call'[d].pc \in Outside
    BY StepAlone
  <1>2. SUFFICES Goal
    BY <1>1 DEF Alarms, Outside
  <1>3. CASE Enter(c) \/ ReadTemplate(c) \/ ReadFails(c) \/ NothingToDo(c) \/ Decide(c)
             \/ HotDone(c) \/ Stopped(c) \/ StopFails(c)
    <2>1. core' = core /\ alarmed' = alarmed
      BY <1>3 DEF Enter, ReadTemplate, ReadFails, NothingToDo, Decide, HotDone, Stopped,
                  StopFails
    <2>2. call'[c].pc # "signal"
      <3>1. CASE Enter(c)
        <4>1. call'[c].pc = IF call[c].goal = "stop" THEN "stop" ELSE "template"
          BY <3>1, GotoMoves DEF Enter
        <4> QED BY <4>1
      <3>4. CASE Stopped(c) \/ StopFails(c)
        <4>1. call'[c].pc \in {"idle", "start"}
          BY <3>4, ReturnIdle, GotoMoves DEF Stopped, StopFails
        <4> QED BY <4>1
      <3>2. CASE ReadTemplate(c) \/ Decide(c)
        BY <3>2 DEF ReadTemplate, Decide, TypeOK, Calls
      <3>3. CASE ReadFails(c) \/ NothingToDo(c) \/ HotDone(c)
        BY <3>3, ReturnIdle DEF ReadFails, NothingToDo, HotDone
      <3> QED BY <1>3, <3>1, <3>2, <3>3, <3>4
    <2> QED BY <2>1, <2>2 DEF Alarms
  <1>4. CASE ReadInbounds(c) \/ HotCall(c) \/ HotFails(c)
    <2>1. alarmed' = alarmed
      BY <1>4 DEF ReadInbounds, HotCall, HotFails
    <2>2. core'.state = core.state /\ core'.by = core.by /\ core'.term = core.term
      <3>1. CASE ReadInbounds(c)
        BY <3>1 DEF ReadInbounds, Disable, TypeOK, Cores
      <3>2. CASE HotCall(c)
        BY <3>2 DEF HotCall, Called, First, TypeOK, Cores
      <3>3. CASE HotFails(c)
        BY <3>3 DEF HotFails, TypeOK, Cores
      <3> QED BY <1>4, <3>1, <3>2, <3>3
    <2>3. call'[c].pc # "signal"
      <3>1. CASE ReadInbounds(c) \/ HotCall(c)
        BY <3>1 DEF ReadInbounds, HotCall, TypeOK, Calls
      <3>2. CASE HotFails(c)
        BY <3>2, GotoMoves DEF HotFails
      <3> QED BY <1>4, <3>1, <3>2
    <2> QED BY <2>1, <2>2, <2>3 DEF Alarms
  <1>5. CASE StopMark(c)
    <2>1. /\ alarmed' = alarmed /\ core'.term = TRUE
          /\ core'.state = core.state /\ core'.by = core.by
      BY <1>5 DEF StopMark, TypeOK, Cores
    <2> QED BY <2>1 DEF Alarms
  <1>6. CASE Signal(c)
    <2>1. /\ call'[c].pc = "exit" /\ call[c].pc = "signal" /\ alarmed' = alarmed
      BY <1>6, GotoMoves DEF Signal
    <2>2. CASE core.state = "live"
      <3>1. core'.state = "exited" /\ core'.term = core.term
        BY <1>6, <2>2 DEF Signal, Exit, TypeOK, Cores
      <3> QED BY <2>1, <2>2, <3>1 DEF Alarms
    <2>3. CASE core.state # "live"
      <3>1. core' = core
        BY <1>6, <2>3 DEF Signal
      <3> QED BY <2>1, <3>1 DEF Alarms
    <2> QED BY <2>2, <2>3
  <1>7. CASE Start(c) \/ StartFails(c)
    <2>1. /\ call'[c].pc = "idle" /\ alarmed' = FALSE
          /\ core' \in {Started(snap'), [Started(snap') EXCEPT !.state = "gone"]}
      BY <1>7, ReturnIdle DEF Start, StartFails
    <2> QED BY <2>1 DEF Started
  <1> QED BY <1>3, <1>4, <1>5, <1>6, <1>7 DEF Step

LEMMA AlarmsElsewhere ==
  ASSUME TypeOK, Alarms, Elsewhere
  PROVE  Alarms'
  <1>1. Others /\ CoreOfOthers
    BY ElsewhereLeavesAlone, ElsewhereTouchesCore
  <1>2. alarmed' => core'.by = "self" /\ core'.state = "gone"
    <2>1. core.by \in {"none", "panel", "self"} /\ core.term \in BOOLEAN
      BY DEF TypeOK, Cores
    <2> QED BY <1>1, <2>1 DEF CoreOfOthers, Alarms
  <1>3. core'.state = "exited" => core'.by = "self" \/ core'.term
    BY <1>1 DEF CoreOfOthers, Alarms
  <1>4. ASSUME NEW c \in Callers, call'[c].pc = "signal", core'.state = "live" PROVE core'.term
    <2>1. call[c].pc = "signal"
      BY <1>1, <1>4 DEF Others, KeepsOut, Outside
    <2> QED BY <1>1, <1>4, <2>1 DEF CoreOfOthers, Alarms
  <1> QED BY <1>2, <1>3, <1>4 DEF Alarms

\* An exit the panel caused is never reported as a crash (process.go:616-660).
THEOREM IntendedStopsAreSilent == Spec => []OnlyCrashesAlarm
  <1>1. Init => Alarms
    BY DEF Init, Alarms, Idle, Started
  <1>2. TypeOK /\ Alarms /\ [Next]_vars => Alarms'
    BY NextSplits, AlarmsStep, AlarmsElsewhere
  <1>3. Alarms => OnlyCrashesAlarm
    BY DEF Alarms, OnlyCrashesAlarm
  <1> QED BY <1>1, <1>2, <1>3, Typed, PTL DEF Spec

-----------------------------------------------------------------------------
(* Disabled clients are about to be cut off.                                *)

\* While a session of a disabled client is open, the traffic job is on its way
\* to end it, unless the configuration could not be read or a stop failed: no other
\* caller, crash, hot apply or stop loses the restart the setting asks for, whatever
\* the order.
CutIsInHand ==
  RestartOnDisable /\ owed # {} /\ ~ excused =>
    /\ call["traffic"].goal = "force"
    /\ call["traffic"].pc \in {"lock", "template", "inbounds", "decide", "stop", "signal"}

\* Sessions end with the process.
Owing ==
  /\ owed # {} /\ ~ excused => core.state = "live"
  /\ CutIsInHand

LEMMA OwingStep ==
  ASSUME TypeOK, Patched, Owing, NEW c \in Callers, Step(c)
  PROVE  Owing'
  <1> USE DEF At, ghosts
  <1>1. c # "traffic" => call'["traffic"] = call["traffic"]
    BY StepAlone DEF Callers
  <1>2. CASE owed' = {}
    BY <1>2 DEF Owing, CutIsInHand
  <1>4. owed = {} => owed' = {}
    BY DEF Step, Enter, ReadTemplate, ReadInbounds, ReadFails, NothingToDo, Decide, HotCall,
           HotFails, HotDone, StopMark, Signal, Exit, StopFails, Stopped, Start, StartFails
  <1>e. excused' \in {excused, TRUE}
    BY DEF Step, Enter, ReadTemplate, ReadInbounds, ReadFails, NothingToDo, Decide, HotCall,
           HotFails, HotDone, StopMark, Signal, StopFails, Stopped, Start, StartFails
  <1>5. SUFFICES ASSUME owed # {}, owed' # {}, ~ excused' PROVE Owing'
    BY <1>2, <1>4 DEF Owing, CutIsInHand
  <1>6. core.state = "live" /\ IsRunning /\ ~ excused
    <2>1. excused' # TRUE
      BY <1>5
    <2>2. ~ excused
      BY <1>5, <1>e, <2>1, Zenon
    <2> QED BY <1>5, <2>2 DEF Owing, IsRunning
  <1>7. /\ ~ (Start(c) \/ StartFails(c) \/ Stopped(c) \/ StopFails(c) \/ ReadFails(c))
    BY <1>5, <1>6 DEF Patched, Start, StartFails, Stopped, StopFails, ReadFails
  <1>8. ~ Signal(c)
    BY <1>5, <1>6 DEF Signal, Exit
  <1>9. owed' = owed
    <2>2. CASE Enter(c) \/ ReadTemplate(c) \/ ReadInbounds(c) \/ NothingToDo(c) \/ Decide(c)
      BY <2>2 DEF Enter, ReadTemplate, ReadInbounds, NothingToDo, Decide
    <2>3. CASE HotCall(c) \/ HotFails(c) \/ HotDone(c) \/ StopMark(c)
      BY <2>3 DEF HotCall, HotFails, HotDone, StopMark
    <2> QED BY <1>7, <1>8, <2>2, <2>3 DEF Step
  <1>10. core'.state = core.state
    <2>1. CASE ReadInbounds(c)
      BY <2>1 DEF ReadInbounds, Disable, TypeOK, Cores
    <2>2. CASE HotCall(c) \/ HotFails(c) \/ StopMark(c)
      BY <2>2 DEF HotCall, Called, First, HotFails, StopMark, TypeOK, Cores
    <2>3. CASE Enter(c) \/ ReadTemplate(c) \/ ReadFails(c) \/ NothingToDo(c) \/ Decide(c)
               \/ HotDone(c)
      BY <2>3 DEF Enter, ReadTemplate, ReadFails, NothingToDo, Decide, HotDone
    <2> QED BY <1>7, <1>8, <2>1, <2>2, <2>3 DEF Step
  <1>11. ASSUME c = "traffic", RestartOnDisable
         PROVE  /\ call'[c].goal = call[c].goal
                /\ call'[c].pc \in {"lock", "template", "inbounds", "decide", "stop", "signal"}
    <2>1. call[c].goal = "force"
      BY <1>5, <1>6, <1>11 DEF Owing, CutIsInHand
    <2>2. call[c].pc \in {"lock", "template", "inbounds", "decide", "stop", "signal"}
      BY <1>5, <1>6, <1>11 DEF Owing, CutIsInHand
    <2>3. ~ (NothingToDo(c) \/ HotCall(c) \/ HotFails(c) \/ HotDone(c))
      BY <1>11, <2>1, <2>2 DEF NothingToDo, HotCall, HotFails, HotDone
    <2>4. CASE Enter(c)
      BY <2>1, <2>4, GotoMoves DEF Enter
    <2>5. CASE ReadTemplate(c) \/ ReadInbounds(c)
      BY <2>5 DEF ReadTemplate, ReadInbounds, TypeOK, Calls
    <2>6. CASE Decide(c)
      <3>1. ~ HotApplies(c)
        BY <2>1 DEF HotApplies
      <3>2. call'[c].pc = "stop" /\ call'[c].goal = call[c].goal
        BY <1>6, <2>6, <3>1 DEF Decide, TypeOK, Calls
      <3> QED BY <3>2
    <2>7. CASE StopMark(c)
      BY <2>7, GotoMoves DEF StopMark
    <2> QED BY <1>7, <1>8, <2>3, <2>4, <2>5, <2>6, <2>7 DEF Step
  <1>12. core'.state = "live"
    BY <1>6, <1>10
  <1>13. ASSUME RestartOnDisable
         PROVE  /\ call'["traffic"].goal = "force"
                /\ call'["traffic"].pc \in
                     {"lock", "template", "inbounds", "decide", "stop", "signal"}
    <2>1. /\ call["traffic"].goal = "force"
          /\ call["traffic"].pc \in
               {"lock", "template", "inbounds", "decide", "stop", "signal"}
      BY <1>5, <1>6, <1>13 DEF Owing, CutIsInHand
    <2>2. CASE c = "traffic"
      BY <1>5, <1>11, <1>13, <2>1, <2>2
    <2>3. CASE c # "traffic"
      BY <1>1, <2>1, <2>3
    <2> QED BY <2>2, <2>3
  <1> QED BY <1>12, <1>13 DEF Owing, CutIsInHand

LEMMA OwingElsewhere ==
  ASSUME TypeOK, Owing, Elsewhere
  PROVE  Owing'
  <1> USE DEF At, ghosts
  <1>1. CASE TrafficJob \/ TrafficJobUnheard
    <2>1. core.state = "live" /\ core'.state = "live" /\ excused' = excused
      BY <1>1 DEF TrafficJob, TrafficJobUnheard, Disable, TypeOK, Cores
    <2>2. ASSUME RestartOnDisable
          PROVE  call'["traffic"].goal = "force" /\ call'["traffic"].pc = "lock"
      <3>1. \E need \in BOOLEAN : Ask("traffic", "force", need)
        BY <1>1, <2>2 DEF TrafficJob, TrafficJobUnheard
      <3> QED BY <3>1 DEF Ask, Callers, TypeOK, Idle
    <2> QED BY <2>1, <2>2 DEF Owing, CutIsInHand
  <1>2. CASE Crash \/ LateExit
    BY <1>2 DEF Crash, LateExit, Exit, Owing, CutIsInHand
  <1>3. CASE UNCHANGED <<owed, excused>> /\ call'["traffic"] = call["traffic"]
             /\ (core.state = "live" => core'.state = "live")
    BY <1>3 DEF Owing, CutIsInHand
  <1>4. CASE EditorStep
    <2>1. core'.state = core.state
      BY <1>4 DEF EditorStep, SwitchDel, SwitchBuild, SwitchAdd, SwitchFlag, TypeOK, Cores
    <2> QED
      BY <1>3, <1>4, <2>1 DEF EditorStep, SwitchDel, SwitchBuild, SwitchAdd, SwitchFlag
  <1>5. CASE \E k \in Clients : Expire(k) \/ Connect(k)
    BY <1>3, <1>5 DEF Expire, Connect, TypeOK, Cores
  <1>6. CASE Reap
    BY <1>3, <1>6 DEF Reap
  <1>7. CASE RestartCron \/ HealthCheck \/ Operate("force") \/ Operate("stop")
    <2>1. call'["traffic"] = call["traffic"]
      BY <1>7 DEF RestartCron, HealthCheck, Operate, Ask, TypeOK, Callers
    <2> QED BY <1>3, <1>7, <2>1 DEF RestartCron, HealthCheck, Operate
  <1>8. CASE SaveTemplate \/ Reconcile
    <2>1. call'["traffic"] = call["traffic"]
      BY <1>8 DEF SaveTemplate, Reconcile, Ask, Goto, TypeOK, Callers
    <2> QED BY <1>3, <1>8, <2>1 DEF SaveTemplate, Reconcile
  <1>9. CASE Switch \/ UNCHANGED vars
    BY <1>3, <1>9 DEF Switch, vars
  <1> QED
    BY <1>1, <1>2, <1>4, <1>5, <1>6, <1>7, <1>8, <1>9 DEF Elsewhere

\* With the setting on, a session of a disabled client that is still open has a
\* forced restart on its way (xray_traffic_job.go:46-60), unless one was given up
\* because the configuration could not be read or the old process would not stop:
\* neither the cron's restart, the health check, a stop nor a hot apply loses it.
\* What fairness has to add for DisabledAreCutOff is that the job's steps are taken.
THEOREM DisabledAreInHand == Spec => []CutIsInHand
  <1>1. Init => StopMarks /\ Patched /\ Owing
    <2>1. Init => StopMarks
      BY DEF Init, StopMarks, ManualStopHolds, Inside, Outside, Idle
    <2>2. Init => Patched
      BY DEF Init, Patched, Matches, Idle, Started
    <2> QED BY <2>1, <2>2 DEF Init, Owing, CutIsInHand
  <1>2. TypeOK /\ StopMarks /\ Patched /\ Owing /\ [Next]_vars
          => StopMarks' /\ Patched' /\ Owing'
    <2> SUFFICES ASSUME TypeOK, StopMarks, Patched, Owing, [Next]_vars
                 PROVE  StopMarks' /\ Patched' /\ Owing'
      OBVIOUS
    <2>1. ASSUME NEW c \in Callers, Step(c) PROVE StopMarks' /\ Patched' /\ Owing'
      BY <2>1, StopMarksStep, PatchedStep, OwingStep
    <2>2. CASE Elsewhere
      BY <2>2, StopMarksElsewhere, PatchedElsewhere, OwingElsewhere
    <2> QED BY <2>1, <2>2, NextSplits
  <1>3. Owing => CutIsInHand
    BY DEF Owing
  <1> QED BY <1>1, <1>2, <1>3, Typed, PTL DEF Spec

-----------------------------------------------------------------------------
(* The page that edits the template, XraySettings.                           *)

\* Only text that is not JSON parts what is saved from what is shown.
LEMMA TogetherStep ==
  TextMatchesTemplate /\ [PageNext]_pageVars => TextMatchesTemplate'
<1> SUFFICES ASSUME TextMatchesTemplate, [PageNext]_pageVars
             PROVE  TextMatchesTemplate'
  OBVIOUS
<1> USE DEF TextMatchesTemplate
<1>1. CASE UNCHANGED <<shown, text>>
  BY <1>1
<1>2. ASSUME NEW t, Edit(t) PROVE TextMatchesTemplate'
  BY <1>2 DEF Edit
<1>3. CASE TypeText
  BY <1>3 DEF TypeText
<1>4. CASE FetchLands
  BY <1>4 DEF FetchLands
<1>5. CASE ConfirmOutbound \/ ConfirmRule \/ ConfirmBalancer
           \/ DeleteOutbound \/ DeleteRule \/ DeleteBalancer
  BY <1>2, <1>5 DEF ConfirmOutbound, ConfirmRule, ConfirmBalancer,
       DeleteOutbound, DeleteRule, DeleteBalancer
<1>6. CASE MoveOutbound \/ MoveRule \/ ImportOutbounds
            \/ ImportRules \/ ResetDefault
  BY <1>2, <1>6 DEF MoveOutbound, MoveRule, ImportOutbounds, ImportRules,
      ResetDefault, OnPage
<1>7. ASSUME NEW a, NEW b, NEW c, SetList(a, b, c) PROVE TextMatchesTemplate'
  BY <1>2, <1>7 DEF SetList, OnPage
<1> QED
  BY <1>1, <1>3, <1>4, <1>5, <1>6, <1>7
     DEF PageNext, OpenAdd, OpenEdit, AskDelete, Opened, Cancel,
         DirtyPoll, Save, ServerStores, SaveAnswered, SaveFailed,
         ServerReads, FetchFails, Refocus, ChangeSubs, RivalStores,
         page, pageVars

\* Whichever copy was edited last and whatever was fetched: text that is JSON is the
\* template the tabs show, for any templates, forms and bounds.
THEOREM TextIsShown == PageSpec => []TextMatchesTemplate
<1>1. PageInit => TextMatchesTemplate
  BY DEF PageInit, TextMatchesTemplate
<1> QED
  BY <1>1, TogetherStep, PTL DEF PageSpec

-----------------------------------------------------------------------------
\* A save that was acknowledged is not newer than what the server holds, and neither an
\* answer on its way to the page nor a save that was stored is out of that range.
VersionInv ==
  /\ server.ver \in Nat /\ acked \in Nat /\ acked <= server.ver
  /\ saving # None =>
       /\ saving = [sent |-> saving.sent, stored |-> saving.stored, ver |-> saving.ver]
       /\ saving.stored = TRUE => saving.ver \in Nat /\ saving.ver <= server.ver
  /\ server = [xray |-> server.xray, subs |-> server.subs, ver |-> server.ver]
  /\ fetch \notin {None, Sent, Failed} => fetch.ver \in Nat /\ acked <= fetch.ver

\* Steps of the page alone.
LEMMA PageSteps ==
  PageNext =>
    \/ UNCHANGED <<saving, server, fetch, acked>>
    \/ Save \/ ServerStores \/ SaveAnswered \/ SaveFailed
    \/ ServerReads \/ FetchFails \/ Refocus \/ FetchLands
    \/ ChangeSubs \/ RivalStores
<1>1. ASSUME NEW t, Edit(t) PROVE UNCHANGED <<saving, server, fetch, acked>>
  BY <1>1 DEF Edit, net
<1>2. ASSUME NEW a, NEW b, NEW c, SetList(a, b, c)
      PROVE  UNCHANGED <<saving, server, fetch, acked>>
  BY <1>1, <1>2 DEF SetList, OnPage
<1> QED
  BY <1>1, <1>2
     DEF PageNext, OpenAdd, OpenEdit, AskDelete, Opened, Cancel,
         DirtyPoll, ConfirmOutbound, ConfirmRule, ConfirmBalancer,
         DeleteOutbound, DeleteRule, DeleteBalancer, MoveOutbound,
         MoveRule, ImportOutbounds, ImportRules, ResetDefault,
         OnPage, TypeText, net

\* Storing only ever raises the version.
LEMMA StoresType ==
  ASSUME VersionInv, NEW x, Stores(x)
  PROVE  /\ server' = [xray |-> x, subs |-> server.subs, ver |-> server.ver + 1]
         /\ server'.ver = server.ver + 1
<1>1. server' = [server EXCEPT !.xray = x, !.ver = server.ver + 1]
  BY DEF Stores
<1> QED
  BY <1>1 DEF VersionInv

LEMMA VersionStep ==
  VersionInv /\ [PageNext]_pageVars => VersionInv'
<1> SUFFICES ASSUME VersionInv, [PageNext]_pageVars PROVE VersionInv'
  OBVIOUS
<1>1. CASE UNCHANGED <<saving, server, fetch, acked>>
  BY <1>1 DEF VersionInv
<1>2. CASE Save
  BY <1>2 DEF Save, VersionInv
<1>3. CASE ServerStores
  <2>1. /\ server'.ver = server.ver + 1
        /\ server' = [xray |-> server'.xray, subs |-> server'.subs, ver |-> server'.ver]
    BY <1>3, StoresType DEF ServerStores
  <2>2. PICK v : v = server'.ver
    OBVIOUS
  <2>3. /\ saving' = [saving EXCEPT !.stored = TRUE, !.ver = v]
        /\ saving # None /\ UNCHANGED <<fetch, acked>>
    BY <1>3, <2>2 DEF ServerStores
  <2>4. saving' = [sent |-> saving.sent, stored |-> TRUE, ver |-> v]
    BY <2>3 DEF VersionInv
  <2>5. /\ saving' = [sent |-> saving'.sent, stored |-> saving'.stored, ver |-> saving'.ver]
        /\ saving'.ver = v
    BY <2>4
  <2>6. v \in Nat /\ v = server.ver + 1
    BY <2>1, <2>2 DEF VersionInv
  <2> QED
    BY <2>1, <2>2, <2>3, <2>5, <2>6 DEF VersionInv
<1>4. CASE SaveAnswered
  BY <1>4 DEF SaveAnswered, Refetch, VersionInv
<1>5. CASE SaveFailed
  BY <1>5 DEF SaveFailed, VersionInv
<1>6. CASE ServerReads
  BY <1>6 DEF ServerReads, VersionInv
<1>7. CASE FetchFails \/ Refocus \/ FetchLands
  BY <1>7 DEF FetchFails, Refocus, Refetch, FetchLands, VersionInv
<1>8. CASE ChangeSubs
  <2>1. PICK subs : server' = [server EXCEPT !.subs = subs]
    BY <1>8 DEF ChangeSubs
  <2>2. server' = [xray |-> server.xray, subs |-> subs, ver |-> server.ver]
    BY <2>1 DEF VersionInv
  <2> QED
    BY <1>8, <2>2 DEF ChangeSubs, Refetch, VersionInv
<1>9. CASE RivalStores
  <2>1. /\ server'.ver = server.ver + 1
        /\ server' = [xray |-> server'.xray, subs |-> server'.subs, ver |-> server'.ver]
    BY <1>9, StoresType DEF RivalStores
  <2> QED
    BY <1>9, <2>1 DEF RivalStores, VersionInv
<1> QED
  BY <1>1, <1>2, <1>3, <1>4, <1>5, <1>6, <1>7, <1>8, <1>9, PageSteps
     DEF pageVars, net

\* A fetch that was answered before a save of the page was stored never lands after the
\* page was told of that save: whatever other sessions store and however requests fail.
THEOREM SavesAreNotReverted == PageSpec => SavedNotReverted
<1>1. PageInit => VersionInv
  BY DEF PageInit, VersionInv
<1>2. VersionInv => (FetchLands => fetch.ver >= acked)
  BY DEF FetchLands, VersionInv
<1> QED
  BY <1>1, <1>2, VersionStep, PTL DEF PageSpec, SavedNotReverted

-----------------------------------------------------------------------------
\* What the observatories of a template have to be, and the templates whose balancers
\* are rows the page knows.

Watched(t) ==
  LET has(kinds) == OfStrategy(t, kinds) # {}
  IN  /\ t.observatory # None <=> has({"leastPing"})
      /\ has({"leastLoad"}) => t.burst # None
      /\ t.burst # None => has({"leastLoad", "random", "roundRobin"})

BalancerRows == Balancers \union {Hole}

Formed(t) ==
  /\ t = [outbounds |-> t.outbounds, rules |-> t.rules, balancers |-> t.balancers,
          observatory |-> t.observatory, burst |-> t.burst]
  /\ t.balancers \in Seq(BalancerRows)

Fit(t) == Formed(t) /\ Watched(t)

\* Whatever a template was, its observatories are right once they are matched.
LEMMA SyncedFits ==
  ASSUME NEW t, Formed(t) PROVE Fit(Synced(t))
<1> DEFINE pings == OfStrategy(t, {"leastPing"})
           required == OfStrategy(t, {"leastLoad"})
           optional == OfStrategy(t, {"random", "roundRobin"})
           either == OfStrategy(t, {"leastLoad", "random", "roundRobin"})
           obs == IF pings # {} THEN Subjects(t, pings) ELSE None
           burst == IF required # {} \/ (optional # {} /\ t.burst # None)
                      THEN Subjects(t, required \union optional)
                    ELSE IF required = {} /\ optional = {} THEN None ELSE t.burst
           u == Synced(t)
<1>1. u = [t EXCEPT !.observatory = obs, !.burst = burst]
  BY DEF Synced
<1>2. u = [outbounds |-> t.outbounds, rules |-> t.rules, balancers |-> t.balancers,
           observatory |-> obs, burst |-> burst]
  <2> HIDE DEF obs, burst, u
  <2> QED
    BY <1>1 DEF Formed
<1>3. ASSUME NEW rows \in SUBSET DOMAIN t.balancers PROVE Subjects(t, rows) # None
  <2>1. \A i \in rows : t.balancers[i].picks \in SUBSET OutboundTags
    BY DEF Formed, BalancerRows, Balancers, Hole
  <2>2. Subjects(t, rows) \in SUBSET OutboundTags
    BY <2>1 DEF Subjects
  <2> QED
    BY <2>2, TagsAssumption
<1>4. /\ pings \in SUBSET DOMAIN t.balancers
      /\ required \union optional \in SUBSET DOMAIN t.balancers
      /\ either = required \union optional
  BY DEF OfStrategy
<1>5. \A kinds : OfStrategy(u, kinds) = OfStrategy(t, kinds)
  <2> HIDE DEF obs, burst, u
  <2> QED
    BY <1>2 DEF OfStrategy
<1>6. obs # None <=> pings # {}
  BY <1>3, <1>4
<1>7. (required # {} => burst # None) /\ (burst # None => required \union optional # {})
  BY <1>3, <1>4
<1>8. /\ u.observatory = obs /\ u.burst = burst /\ u.balancers = t.balancers
      /\ u = [outbounds |-> u.outbounds, rules |-> u.rules, balancers |-> u.balancers,
              observatory |-> u.observatory, burst |-> u.burst]
  <2> HIDE DEF obs, burst, u
  <2> QED
    BY <1>2
<1> HIDE DEF obs, burst, u, pings, required, optional, either
<1>9. Watched(u)
  BY <1>4, <1>5, <1>6, <1>7, <1>8 DEF Watched, pings, required, either
<1> QED
  BY <1>8, <1>9 DEF Fit, Formed, u

\* Edits of outbounds and rules leave the observatories right.
LEMMA ElsewhereFits ==
  ASSUME NEW t, Fit(t), NEW x
  PROVE  /\ Fit([t EXCEPT !.outbounds = x])
         /\ Fit([t EXCEPT !.rules = x])
<1>1. ASSUME NEW u, u.balancers = t.balancers, u.observatory = t.observatory,
             u.burst = t.burst,
             u = [outbounds |-> u.outbounds, rules |-> u.rules, balancers |-> u.balancers,
                  observatory |-> u.observatory, burst |-> u.burst]
      PROVE  Fit(u)
  BY <1>1 DEF Fit, Formed, Watched, OfStrategy
<1>2. [t EXCEPT !.outbounds = x] =
        [outbounds |-> x, rules |-> t.rules, balancers |-> t.balancers,
         observatory |-> t.observatory, burst |-> t.burst]
  BY DEF Fit, Formed
<1>3. [t EXCEPT !.rules = x] =
        [outbounds |-> t.outbounds, rules |-> x, balancers |-> t.balancers,
         observatory |-> t.observatory, burst |-> t.burst]
  BY DEF Fit, Formed
<1>4. Fit([t EXCEPT !.outbounds = x])
  BY <1>1, <1>2
<1>5. Fit([t EXCEPT !.rules = x])
  BY <1>1, <1>3
<1> QED
  BY <1>4, <1>5

\* A balancer that follows a renamed outbound keeps its strategy.
LEMMA FollowerKeeps ==
  ASSUME NEW b \in BalancerRows, NEW from, from # None, NEW to \in OutboundTags
  PROVE  /\ BalancerAfter(b, from, to) \in BalancerRows
         /\ BalancerAfter(b, from, to).strategy = b.strategy
<1> DEFINE after == BalancerAfter(b, from, to)
           fallback == Swap(b.fallback, from, to)
           picks == {Swap(p, from, to) : p \in b.picks}
<1>1. after = [b EXCEPT !.fallback = fallback, !.picks = picks]
  BY DEF BalancerAfter
<1>2. CASE b \in Balancers
  <2>1. fallback \in OutboundTags \union {None} /\ picks \in SUBSET OutboundTags
    BY <1>2 DEF Swap, Balancers
  <2> HIDE DEF fallback, picks, after
  <2>2. after \in Balancers /\ after.strategy = b.strategy
    BY <1>1, <1>2, <2>1 DEF Balancers
  <2> QED
    BY <2>2 DEF BalancerRows, after
<1>3. CASE b = Hole
  <2>1. fallback = None /\ picks = {}
    BY <1>3 DEF Swap, Hole
  <2> HIDE DEF fallback, picks, after
  <2>2. after = [b EXCEPT !.fallback = None, !.picks = {}]
    BY <1>1, <2>1
  <2>3. b.fallback = None /\ b.picks = {}
    BY <1>3 DEF Hole
  <2>4. b = [x \in DOMAIN b |-> b[x]]
    BY <1>3 DEF Hole
  <2>5. after = b
    BY <2>2, <2>3, <2>4
  <2> QED
    BY <1>3, <2>5 DEF BalancerRows, after
<1> QED
  BY <1>2, <1>3 DEF BalancerRows

\* Renaming an outbound leaves the observatories right.
LEMMA RenamedFits ==
  ASSUME NEW t, Fit(t), NEW from, from # None, NEW to \in OutboundTags
  PROVE  Fit(Renamed(t, from, to))
<1> DEFINE u == Renamed(t, from, to)
           rules == [i \in DOMAIN t.rules |-> RuleAfter(t.rules[i], from, to)]
           balancers == [i \in DOMAIN t.balancers |->
                           BalancerAfter(t.balancers[i], from, to)]
           outbounds == [i \in DOMAIN t.outbounds |->
                           OutboundAfter(t.outbounds[i], from, to)]
<1>1. u = [t EXCEPT !.rules = rules, !.balancers = balancers, !.outbounds = outbounds]
  BY DEF Renamed
<1>2. /\ balancers \in Seq(BalancerRows)
      /\ \A kinds : {i \in DOMAIN balancers : balancers[i].strategy \in kinds} =
                      OfStrategy(t, kinds)
  <2>1. \A i \in DOMAIN t.balancers :
          /\ balancers[i] \in BalancerRows
          /\ balancers[i].strategy = t.balancers[i].strategy
    BY FollowerKeeps DEF Fit, Formed
  <2>2. PICK n \in Nat : DOMAIN t.balancers = 1 .. n
    BY DEF Fit, Formed
  <2>3. balancers \in [1 .. n -> BalancerRows]
    BY <2>1, <2>2
  <2>4. DOMAIN balancers = DOMAIN t.balancers
    OBVIOUS
  <2> HIDE DEF balancers
  <2> QED
    BY <2>1, <2>3, <2>4 DEF OfStrategy
<1> HIDE DEF rules, balancers, outbounds, u
<1>3. u = [outbounds |-> outbounds, rules |-> rules, balancers |-> balancers,
           observatory |-> t.observatory, burst |-> t.burst]
  BY <1>1 DEF Fit, Formed
<1>4. /\ u.observatory = t.observatory /\ u.burst = t.burst /\ u.balancers = balancers
      /\ u = [outbounds |-> u.outbounds, rules |-> u.rules, balancers |-> u.balancers,
              observatory |-> u.observatory, burst |-> u.burst]
  BY <1>3
<1>5. \A kinds : OfStrategy(u, kinds) = OfStrategy(t, kinds)
  BY <1>2, <1>4 DEF OfStrategy
<1>6. Watched(u)
  BY <1>4, <1>5 DEF Fit, Watched
<1> QED
  BY <1>2, <1>4, <1>6 DEF Fit, Formed, u

\* The outbound dialog leaves the observatories right, whether it renames or not.
LEMMA WithOutboundFits ==
  ASSUME NEW t, Fit(t), NEW i, NEW form \in Outbounds, form.tag # None
  PROVE  Fit(WithOutbound(t, i, form))
<1> DEFINE from == IF i \in DOMAIN t.outbounds THEN t.outbounds[i].tag ELSE None
           placed == [t EXCEPT !.outbounds = Placed(t.outbounds, i, form)]
<1>1. WithOutbound(t, i, form) =
        IF from \notin {None, form.tag} THEN Renamed(placed, from, form.tag)
                                        ELSE placed
  BY DEF WithOutbound
<1>2. Fit(placed)
  BY ElsewhereFits
<1>3. form.tag \in OutboundTags
  BY DEF Outbounds
<1> HIDE DEF from, placed
<1> QED
  BY <1>1, <1>2, <1>3, RenamedFits

\* Placing and removing a row keeps a list of rows of its kind.
LEMMA PlacedRows ==
  ASSUME NEW R, Hole \in R, NEW list \in Seq(R), NEW i \in Nat, NEW x \in R
  PROVE  Placed(list, i, x) \in Seq(R)
<1>1. Append(list, x) \in Seq(R)
  OBVIOUS
<1>2. CASE i # 0
  <2> DEFINE n == IF i > Len(list) THEN i ELSE Len(list)
  <2>1. n \in Nat
    OBVIOUS
  <2>2. Put(list, i, x) \in [1 .. n -> R]
    BY DEF Put
  <2>3. Put(list, i, x) \in Seq(R)
    BY <2>1, <2>2
  <2> QED
    BY <1>2, <2>3 DEF Placed
<1> QED
  BY <1>1, <1>2 DEF Placed

LEMMA WithoutRows ==
  ASSUME NEW R, NEW list \in Seq(R), NEW i
  PROVE  Without(list, i) \in Seq(R)
<1>1. CASE i \in DOMAIN list
  <2>1. i \in 1 .. Len(list)
    BY <1>1
  <2>2. /\ SubSeq(list, 1, i - 1) \in Seq(R)
        /\ SubSeq(list, i + 1, Len(list)) \in Seq(R)
    BY <2>1
  <2> QED
    BY <1>1, <2>2 DEF Without, RemoveAt
<1> QED
  BY <1>1 DEF Without

\* Other rows in place of the balancers leave a template well formed.
LEMMA RowsForm ==
  ASSUME NEW t, Formed(t), NEW rows \in Seq(BalancerRows)
  PROVE  Formed([t EXCEPT !.balancers = rows])
<1> DEFINE u == [t EXCEPT !.balancers = rows]
<1>1. u = [outbounds |-> t.outbounds, rules |-> t.rules, balancers |-> rows,
           observatory |-> t.observatory, burst |-> t.burst]
  BY DEF Formed
<1> HIDE DEF u
<1>2. /\ u.balancers = rows
      /\ u = [outbounds |-> u.outbounds, rules |-> u.rules, balancers |-> u.balancers,
              observatory |-> u.observatory, burst |-> u.burst]
  BY <1>1
<1> QED
  BY <1>2 DEF Formed, u

\* Confirming the balancer dialog and deleting a balancer match the observatories.
LEMMA WithBalancerFits ==
  ASSUME NEW t, Formed(t), NEW i \in Nat, NEW form \in Balancers
  PROVE  Fit(WithBalancer(t, i, form))
<1> DEFINE from == IF i \in DOMAIN t.balancers THEN t.balancers[i].tag ELSE None
           placed == [t EXCEPT !.balancers = Placed(t.balancers, i, form)]
           rules == [r \in DOMAIN placed.rules |->
                       ViaAfter(placed.rules[r], from, form.tag)]
           moved == [placed EXCEPT !.rules = rules]
<1>1. WithBalancer(t, i, form) =
        Synced(IF from \in {None, form.tag} THEN placed ELSE moved)
  BY DEF WithBalancer
<1>2. Formed(placed)
  <2>1. Placed(t.balancers, i, form) \in Seq(BalancerRows)
    BY PlacedRows DEF Formed, BalancerRows
  <2> QED
    BY <2>1, RowsForm
<1>3. Formed(moved)
  <2> HIDE DEF placed, rules
  <2>1. moved = [outbounds |-> placed.outbounds, rules |-> rules,
                 balancers |-> placed.balancers, observatory |-> placed.observatory,
                 burst |-> placed.burst]
    BY <1>2 DEF Formed
  <2> HIDE DEF moved
  <2>2. /\ moved.balancers = placed.balancers
        /\ moved = [outbounds |-> moved.outbounds, rules |-> moved.rules,
                    balancers |-> moved.balancers, observatory |-> moved.observatory,
                    burst |-> moved.burst]
    BY <2>1
  <2> QED
    BY <1>2, <2>2 DEF Formed
<1> HIDE DEF from, placed, moved
<1> QED
  BY <1>1, <1>2, <1>3, SyncedFits

LEMMA WithoutBalancerFits ==
  ASSUME NEW t, Formed(t), NEW i
  PROVE  Fit(WithoutBalancer(t, i))
<1>1. Without(t.balancers, i) \in Seq(BalancerRows)
  BY WithoutRows DEF Formed
<1>2. Formed([t EXCEPT !.balancers = Without(t.balancers, i)])
  BY <1>1, RowsForm
<1>3. WithoutBalancer(t, i) =
        Synced([t EXCEPT !.balancers = Without(t.balancers, i)])
  BY DEF WithoutBalancer
<1> QED
  BY <1>2, <1>3, SyncedFits

\* The selects of the basic routing page edit rules and outbounds only.
LEMMA ListEditedFits ==
  ASSUME NEW t, Fit(t), NEW tag, NEW list, NEW chosen
  PROVE  Fit(ListEdited(t, tag, list, chosen))
<1> DEFINE set == WithList(t, tag, list, chosen)
<1>1. PICK rules : set = [t EXCEPT !.rules = rules]
  BY DEF WithList
<1> HIDE DEF set
<1>2. Fit(set)
  <2>1. Fit([t EXCEPT !.rules = rules])
    BY ElsewhereFits
  <2> QED
    BY <1>1, <2>1
<1> DEFINE at == Position(set, tag)
           wanted == \E i \in DOMAIN set.rules : set.rules[i].out = tag
           outbounds ==
             IF ~wanted /\ at > 1 THEN RemoveAt(set.outbounds, at)
             ELSE IF wanted /\ at = 0
                    THEN Append(set.outbounds, [tag |-> tag, dialer |-> None])
             ELSE set.outbounds
<1>3. OutboundMatched(set, tag) = [set EXCEPT !.outbounds = outbounds]
  BY DEF OutboundMatched
<1> HIDE DEF outbounds
<1>4. Fit([set EXCEPT !.outbounds = outbounds])
  BY <1>2, ElsewhereFits
<1> QED
  BY <1>2, <1>3, <1>4 DEF ListEdited, set

-----------------------------------------------------------------------------
\* The templates the page and the server hold, and those on their way, have the
\* observatories they need; a dialog about a balancer knows which row it is about.
ObservatoryInv ==
  /\ Fit(shown) /\ Fit(server.xray)
  /\ server = [xray |-> server.xray, subs |-> server.subs, ver |-> server.ver]
  /\ TextMatchesTemplate
  /\ saving # None =>
       /\ saving = [sent |-> saving.sent, stored |-> saving.stored, ver |-> saving.ver]
       /\ Fit(saving.sent)
  /\ fetch \notin {None, Sent, Failed} => Fit(fetch.xray)
  /\ dialog # None /\ dialog.over = "balancer" => dialog.row \in Nat

\* The configurations the server may hold are in order to begin with.
LEMMA StoredFit ==
  ASSUME NEW t \in Stored PROVE Fit(t)
<1>1. t \in XrayTemplates /\ Synced(t) = t
  BY StoredAssumption
<1>2. Formed(t)
  BY <1>1 DEF XrayTemplates, Formed, BalancerRows
<1> QED
  BY <1>1, <1>2, SyncedFits

\* An edit keeps the invariant if it leaves a template in order.
LEMMA EditKeeps ==
  ASSUME ObservatoryInv, NEW t, Fit(t), Edit(t), dialog' = None
  PROVE  ObservatoryInv'
BY DEF ObservatoryInv, Edit, net, TextMatchesTemplate

\* Every edit of the page leaves the template in order.
LEMMA EditsFit ==
  ASSUME ObservatoryInv,
         \/ ConfirmOutbound \/ ConfirmRule \/ ConfirmBalancer
         \/ DeleteOutbound \/ DeleteRule \/ DeleteBalancer
         \/ MoveOutbound \/ MoveRule
         \/ ImportOutbounds \/ ImportRules
         \/ (\E tag, list, chosen : SetList(tag, list, chosen))
         \/ ResetDefault
  PROVE  ObservatoryInv'
<1>0. Fit(shown)
  BY DEF ObservatoryInv
<1>1. ASSUME NEW t, OnPage(t), Fit(t) PROVE ObservatoryInv'
  BY <1>1, EditKeeps DEF OnPage
<1>2. CASE ConfirmOutbound
  <2>1. PICK form \in OutboundForms :
          /\ form.tag # None
          /\ Edit(WithOutbound(shown, dialog.row, form))
    BY <1>2 DEF ConfirmOutbound
  <2>2. form \in Outbounds
    BY FormsAssumption
  <2> QED
    BY <1>0, <1>2, <2>1, <2>2, WithOutboundFits, EditKeeps DEF ConfirmOutbound
<1>3. CASE ConfirmRule \/ DeleteOutbound \/ DeleteRule
  BY <1>0, <1>3, ElsewhereFits, EditKeeps
     DEF ConfirmRule, DeleteOutbound, DeleteRule
<1>4. CASE ConfirmBalancer
  <2>1. PICK form \in BalancerForms : Edit(WithBalancer(shown, dialog.row, form))
    BY <1>4 DEF ConfirmBalancer
  <2>2. form \in Balancers
    BY FormsAssumption
  <2>3. dialog.row \in Nat /\ Formed(shown)
    BY <1>0, <1>4 DEF ConfirmBalancer, Open, ObservatoryInv, Fit
  <2> QED
    BY <1>4, <2>1, <2>2, <2>3, WithBalancerFits, EditKeeps DEF ConfirmBalancer
<1>5. CASE DeleteBalancer
  BY <1>0, <1>5, WithoutBalancerFits, EditKeeps DEF DeleteBalancer, Fit
<1>6. CASE MoveOutbound \/ MoveRule \/ ImportOutbounds \/ ImportRules
  BY <1>0, <1>1, <1>6, ElsewhereFits
     DEF MoveOutbound, MoveRule, ImportOutbounds, ImportRules
<1>7. ASSUME NEW tag, NEW list, NEW chosen, SetList(tag, list, chosen)
      PROVE  ObservatoryInv'
  BY <1>0, <1>1, <1>7, ListEditedFits DEF SetList
<1>8. CASE ResetDefault
  BY <1>1, <1>8, StoredFit, StoredAssumption DEF ResetDefault
<1> QED
  BY <1>2, <1>3, <1>4, <1>5, <1>6, <1>7, <1>8

\* A dialog is opened on a row there is.
LEMMA OpeningKeeps ==
  ASSUME ObservatoryInv, NEW kind \in Kinds,
         OpenAdd(kind) \/ OpenEdit(kind) \/ AskDelete(kind)
  PROVE  ObservatoryInv'
<1>1. PICK r, deleting :
        /\ Opened(kind, r, deleting)
        /\ r = 0 \/ r \in DOMAIN RowsOf(kind)
  BY DEF OpenAdd, OpenEdit, AskDelete
<1>2. kind = "balancer" => r \in Nat
  BY <1>1 DEF RowsOf, ObservatoryInv, Fit, Formed
<1>3. dialog'.over = kind /\ dialog'.row = r /\ UNCHANGED <<shown, text, net>>
  BY <1>1 DEF Opened
<1> QED
  BY <1>2, <1>3 DEF ObservatoryInv, net, TextMatchesTemplate

LEMMA ObservatoryStep ==
  ObservatoryInv /\ [PageNext]_pageVars => ObservatoryInv'
<1> SUFFICES ASSUME ObservatoryInv, [PageNext]_pageVars PROVE ObservatoryInv'
  OBVIOUS
<1>1. CASE UNCHANGED <<shown, text, dialog, net>>
  BY <1>1 DEF ObservatoryInv, net, TextMatchesTemplate
<1>2. CASE Cancel
  BY <1>2 DEF Cancel, ObservatoryInv, net, TextMatchesTemplate
<1>3. CASE TypeText
  BY <1>3, StoredFit DEF TypeText, ObservatoryInv, net, TextMatchesTemplate
<1>4. CASE Save
  BY <1>4 DEF Save, page, ObservatoryInv, TextMatchesTemplate
<1>5. ASSUME NEW x, Fit(x), Stores(x), UNCHANGED <<page, fetch>>,
             saving' = saving \/ \E v : saving' = [saving EXCEPT !.stored = TRUE, !.ver = v],
             saving # None \/ saving' = saving
      PROVE  ObservatoryInv'
  <2>1. server' = [xray |-> x, subs |-> server.subs, ver |-> server.ver + 1]
    BY <1>5 DEF Stores, ObservatoryInv
  <2>2. /\ server'.xray = x
        /\ server' = [xray |-> server'.xray, subs |-> server'.subs, ver |-> server'.ver]
    BY <2>1
  <2>3. ASSUME NEW v, saving # None, saving' = [saving EXCEPT !.stored = TRUE, !.ver = v]
        PROVE  saving' = [sent |-> saving.sent, stored |-> TRUE, ver |-> v]
    BY <2>3 DEF ObservatoryInv
  <2>4. saving' # None =>
          /\ saving' = [sent |-> saving'.sent, stored |-> saving'.stored, ver |-> saving'.ver]
          /\ Fit(saving'.sent)
    BY <1>5, <2>3 DEF ObservatoryInv
  <2> QED
    BY <1>5, <2>2, <2>4 DEF ObservatoryInv, page, TextMatchesTemplate
<1>6. CASE ServerStores \/ RivalStores
  BY <1>5, <1>6, StoredFit DEF ServerStores, RivalStores, ObservatoryInv
<1>7. CASE SaveAnswered \/ SaveFailed
  BY <1>7 DEF SaveAnswered, SaveFailed, Refetch, page, ObservatoryInv,
              TextMatchesTemplate
<1>8. CASE ServerReads \/ FetchFails \/ Refocus
  BY <1>8 DEF ServerReads, FetchFails, Refocus, Refetch, page,
              ObservatoryInv, TextMatchesTemplate
<1>9. CASE FetchLands
  BY <1>9 DEF FetchLands, ObservatoryInv, TextMatchesTemplate
<1>10. CASE ChangeSubs
  <2>1. PICK subs : server' = [server EXCEPT !.subs = subs]
    BY <1>10 DEF ChangeSubs
  <2>2. server' = [xray |-> server.xray, subs |-> subs, ver |-> server.ver]
    BY <2>1 DEF ObservatoryInv
  <2>3. /\ server'.xray = server.xray
        /\ server' = [xray |-> server'.xray, subs |-> server'.subs, ver |-> server'.ver]
    BY <2>2
  <2> QED
    BY <1>10, <2>3 DEF ChangeSubs, Refetch, page, ObservatoryInv,
                       TextMatchesTemplate
<1>11. CASE DirtyPoll
  BY <1>1, <1>11 DEF DirtyPoll
<1> QED
  BY <1>1, <1>2, <1>3, <1>4, <1>6, <1>7, <1>8, <1>9, <1>10, <1>11, EditsFit, OpeningKeeps
     DEF PageNext, pageVars, page

\* After any edits of any rows, dialogs confirmed on a template that was replaced under
\* them included, the template the page shows has exactly the observatories its balancers
\* need, if the configurations the server held did.
THEOREM ObservatoriesFollow == PageSpec => []ObservatoriesNeeded
<1>1. PageInit => ObservatoryInv
  <2> SUFFICES ASSUME PageInit PROVE ObservatoryInv
    OBVIOUS
  <2>1. PICK t \in Stored : shown = t /\ text = t /\ server = [xray |-> t, subs |-> 0, ver |-> 0]
    BY DEF PageInit
  <2>2. Fit(t)
    BY StoredFit
  <2> QED
    BY <2>1, <2>2 DEF PageInit, ObservatoryInv, TextMatchesTemplate
<1>2. ObservatoryInv => ObservatoriesNeeded
  BY DEF ObservatoryInv, Fit, Watched, ObservatoriesNeeded
<1> QED
  BY <1>1, <1>2, ObservatoryStep, PTL DEF PageSpec

-----------------------------------------------------------------------------
(* Rows taken from a list by their places.  Every set of places can be put in *)
(* order: the least length at which one could not is one more than a length   *)
(* at which all can.                                                          *)

LEMMA Least ==
  ASSUME NEW S \in SUBSET Nat, S # {}
  PROVE  \E m \in S : \A k \in S : m <= k
<1>1. PICK m \in S : \A k \in S : ~ (<<k, m>> \in OpToRel(<, Nat))
  BY NatLessThanWellFounded, WFMin
<1>2. \A k \in S : ~ (k < m)
  BY <1>1 DEF OpToRel
<1> QED
  BY <1>2

\* An ascending list of places, and the sets that have one.
Ascends(f) == \A i, j \in DOMAIN f : i < j => f[i] < f[j]
Listable(S) == \E f \in [1..Cardinality(S) -> S] : Ascends(f)

\* A place above the others goes to the end.
LEMMA ListableAbove ==
  ASSUME NEW n \in Nat, NEW S \in SUBSET (1..n), n \in S,
         IsFiniteSet(S \ {n}), NEW f \in [1..Cardinality(S \ {n}) -> S \ {n}], Ascends(f)
  PROVE  Listable(S)
<1> DEFINE c == Cardinality(S \ {n})
           g == [i \in 1..(c + 1) |-> IF i <= c THEN f[i] ELSE n]
<1>1. c \in Nat /\ Cardinality(S) = c + 1
  <2>1. Cardinality((S \ {n}) \union {n}) = c + 1 /\ c \in Nat
    BY FS_AddElement, FS_CardinalityType
  <2>2. (S \ {n}) \union {n} = S
    OBVIOUS
  <2> QED
    BY <2>1, <2>2
<1>2. g \in [1..Cardinality(S) -> S]
  <2>1. ASSUME NEW i \in 1..(c + 1) PROVE g[i] \in S
    <3>1. CASE i <= c
      <4>1. i \in 1..c
        BY <1>1, <3>1
      <4> QED BY <3>1, <4>1
    <3>2. CASE ~ (i <= c)
      BY <3>2
    <3> QED BY <3>1, <3>2
  <2>2. g \in [1..(c + 1) -> S]
    BY <2>1
  <2> HIDE DEF g, c
  <2> QED BY <1>1, <2>2
<1>3. ASSUME NEW i \in 1..(c + 1), NEW j \in 1..(c + 1), i < j PROVE g[i] < g[j]
  <2>1. i <= c /\ i \in 1..c
    BY <1>1, <1>3
  <2>2. CASE j <= c
    <3>1. j \in 1..c /\ DOMAIN f = 1..c
      BY <1>1, <2>2
    <3> QED
      BY <1>3, <2>1, <2>2, <3>1 DEF Ascends
  <2>3. CASE ~ (j <= c)
    <3>1. f[i] \in 1..n /\ f[i] # n
      BY <2>1
    <3> QED
      BY <2>1, <2>3, <3>1
  <2> QED
    BY <2>2, <2>3
<1>4. DOMAIN g = 1..(c + 1)
  OBVIOUS
<1> HIDE DEF g
<1>5. Ascends(g)
  BY <1>3, <1>4 DEF Ascends
<1> QED
  BY <1>2, <1>5 DEF Listable

\* Every set of places is listed by an ascending sequence.
LEMMA SetsAreListable ==
  ASSUME NEW n \in Nat, NEW S \in SUBSET (1..n)
  PROVE  Listable(S)
<1> DEFINE Bad == {m \in Nat : \E T \in SUBSET (1..m) : ~ Listable(T)}
<1>1. SUFFICES Bad = {}
  <2>1. n \notin Bad
    BY <1>1
  <2> QED BY <2>1
<1>2. SUFFICES ASSUME Bad # {} PROVE FALSE
  OBVIOUS
<1>3. PICK m \in Bad : \A k \in Bad : m <= k
  BY <1>2, Least
<1>4. PICK T \in SUBSET (1..m) : ~ Listable(T)
  OBVIOUS
<1>5. CASE m \notin T
  <2>1. m # 0
    <3>1. ASSUME m = 0 PROVE FALSE
      <4>1. T = {} BY <3>1
      <4>2. Cardinality(T) = 0 BY <4>1, FS_EmptySet
      <4>3. [x \in {} |-> x] \in [1..Cardinality(T) -> T] /\ Ascends([x \in {} |-> x])
        BY <4>1, <4>2 DEF Ascends
      <4> HIDE DEF Ascends
      <4> QED BY <4>3, <1>4 DEF Listable
    <3> QED BY <3>1
  <2>2. m - 1 \in Nat /\ T \in SUBSET (1..(m - 1))
    BY <1>5, <2>1
  <2>3. m - 1 \in Bad
    BY <1>4, <2>2
  <2>4. m <= m - 1 /\ m \in Nat
    <3> HIDE DEF Bad
    <3>1. m <= m - 1
      BY <1>3, <2>3
    <3> QED BY <3>1 DEF Bad
  <2> QED
    BY <2>4
<1>6. CASE m \in T
  <2>1. m - 1 \in Nat /\ T \ {m} \in SUBSET (1..(m - 1))
    BY <1>6
  <2>2. m - 1 \notin Bad
    BY <1>3, <2>1
  <2>3. Listable(T \ {m})
    BY <2>1, <2>2
  <2>4. PICK f \in [1..Cardinality(T \ {m}) -> T \ {m}] : Ascends(f)
    BY <2>3 DEF Listable
  <2>5. IsFiniteSet(T \ {m})
    <3>1. IsFiniteSet(1..m)
      BY FS_Interval
    <3> QED BY <3>1, FS_Subset
  <2>6. Listable(T)
    BY <1>6, <2>4, <2>5, ListableAbove
  <2> QED BY <1>4, <2>6
<1> QED BY <1>5, <1>6

\* The rows at some places of a list are a list of such rows (basics/helpers.ts:29-47).
LEMMA RowsAtTyped ==
  ASSUME NEW R, NEW list \in Seq(R), NEW places \in SUBSET (DOMAIN list)
  PROVE  RowsAt(list, places) \in Seq(R)
<1> DEFINE nth == CHOOSE f \in [1..Cardinality(places) -> places] : Ascends(f)
<1>1. RowsAt(list, places) = [i \in DOMAIN nth |-> list[nth[i]]]
  BY DEF RowsAt, Ascends
<1>2. Listable(places)
  <2>1. Len(list) \in Nat /\ DOMAIN list = 1..Len(list)
    OBVIOUS
  <2> QED
    BY <2>1, SetsAreListable
<1>3. Cardinality(places) \in Nat
  <2>1. IsFiniteSet(1..Len(list))
    BY FS_Interval
  <2>2. IsFiniteSet(places)
    BY <2>1, FS_Subset
  <2> QED
    BY <2>2, FS_CardinalityType
<1>4. nth \in [1..Cardinality(places) -> places]
  BY <1>2 DEF Listable
<1> HIDE DEF nth
<1>5. [i \in DOMAIN nth |-> list[nth[i]]] \in [1..Cardinality(places) -> R]
  BY <1>4
<1> QED
  BY <1>1, <1>3, <1>5

-----------------------------------------------------------------------------
\* What an edit makes of a template is a template (schemas/xray.ts).

OutboundRows == Outbounds \union {Hole}
RuleRows == Rules \union {Hole}

\* Distinct balancers have distinct tags, unless they have none.
Distinct(t) ==
  \A i, j \in DOMAIN t.balancers :
    t.balancers[i].tag = t.balancers[j].tag /\ t.balancers[i].tag # None => i = j

Sound(t) == t \in XrayTemplates /\ Distinct(t)

\* Other rows of a kind in place of those there are.
LEMMA SectionsTyped ==
  ASSUME NEW t \in XrayTemplates
  PROVE  /\ t.outbounds \in Seq(OutboundRows) /\ t.rules \in Seq(RuleRows)
         /\ t.balancers \in Seq(BalancerRows)
         /\ \A x \in Seq(OutboundRows) :
              /\ [t EXCEPT !.outbounds = x] \in XrayTemplates
              /\ [t EXCEPT !.outbounds = x].outbounds = x
              /\ [t EXCEPT !.outbounds = x].rules = t.rules
              /\ [t EXCEPT !.outbounds = x].balancers = t.balancers
         /\ \A x \in Seq(RuleRows) :
              /\ [t EXCEPT !.rules = x] \in XrayTemplates
              /\ [t EXCEPT !.rules = x].outbounds = t.outbounds
              /\ [t EXCEPT !.rules = x].rules = x
              /\ [t EXCEPT !.rules = x].balancers = t.balancers
         /\ \A x \in Seq(BalancerRows) :
              /\ [t EXCEPT !.balancers = x] \in XrayTemplates
              /\ [t EXCEPT !.balancers = x].outbounds = t.outbounds
              /\ [t EXCEPT !.balancers = x].rules = t.rules
              /\ [t EXCEPT !.balancers = x].balancers = x
BY DEF XrayTemplates, OutboundRows, RuleRows, BalancerRows

\* Matching the observatories changes nothing else.
LEMMA SyncedTyped ==
  ASSUME NEW t \in XrayTemplates
  PROVE  /\ Synced(t) \in XrayTemplates
         /\ Synced(t).outbounds = t.outbounds /\ Synced(t).rules = t.rules
         /\ Synced(t).balancers = t.balancers
<1> DEFINE pings == OfStrategy(t, {"leastPing"})
           required == OfStrategy(t, {"leastLoad"})
           optional == OfStrategy(t, {"random", "roundRobin"})
           obs == IF pings # {} THEN Subjects(t, pings) ELSE None
           burst == IF required # {} \/ (optional # {} /\ t.burst # None)
                      THEN Subjects(t, required \union optional)
                    ELSE IF required = {} /\ optional = {} THEN None ELSE t.burst
<1>1. Synced(t) = [t EXCEPT !.observatory = obs, !.burst = burst]
  BY DEF Synced
<1>2. ASSUME NEW rows \in SUBSET DOMAIN t.balancers
      PROVE  Subjects(t, rows) \in SUBSET OutboundTags
  <2>1. \A i \in rows : t.balancers[i] \in BalancerRows
    BY DEF XrayTemplates, BalancerRows
  <2>2. \A i \in rows : t.balancers[i].picks \in SUBSET OutboundTags
    BY <2>1 DEF BalancerRows, Balancers, Hole
  <2> QED
    BY <2>2 DEF Subjects
<1>3. pings \in SUBSET DOMAIN t.balancers /\ required \union optional \in SUBSET DOMAIN t.balancers
  BY DEF OfStrategy
<1>4. obs \in {None} \union SUBSET OutboundTags
  BY <1>2, <1>3
<1>5. burst \in {None} \union SUBSET OutboundTags
  <2> HIDE DEF required, optional
  <2>1. t.burst \in {None} \union SUBSET OutboundTags
    BY DEF XrayTemplates
  <2> QED
    BY <1>2, <1>3, <2>1
<1> HIDE DEF obs, burst
<1> QED
  BY <1>1, <1>4, <1>5 DEF XrayTemplates

\* A rule or an outbound that follows a renamed outbound changes in that respect only.
LEMMA RowsFollow ==
  ASSUME NEW from, from # None, NEW to \in OutboundTags
  PROVE  /\ \A r \in RuleRows : /\ RuleAfter(r, from, to) \in RuleRows
                                /\ RuleAfter(r, from, to).out = Swap(r.out, from, to)
                                /\ RuleAfter(r, from, to).bal = r.bal
         /\ \A o \in OutboundRows :
              /\ OutboundAfter(o, from, to) \in OutboundRows
              /\ OutboundAfter(o, from, to).tag = o.tag
              /\ OutboundAfter(o, from, to).dialer = Swap(o.dialer, from, to)
<1>1. ASSUME NEW r \in RuleRows
      PROVE  /\ RuleAfter(r, from, to) \in RuleRows
             /\ RuleAfter(r, from, to).out = Swap(r.out, from, to)
             /\ RuleAfter(r, from, to).bal = r.bal
  <2>1. CASE r \in Rules
    <3>1. Swap(r.out, from, to) \in OutboundTags \union {None}
      BY <2>1 DEF Swap, Rules
    <3> QED
      BY <2>1, <3>1 DEF RuleAfter, Rules, RuleRows
  <2>2. CASE r = Hole
    <3>1. Swap(r.out, from, to) = r.out
      BY <2>2 DEF Swap, Hole
    <3>2. RuleAfter(r, from, to) = r
      BY <2>2, <3>1 DEF RuleAfter, Hole
    <3> QED
      BY <3>1, <3>2
  <2> QED
    BY <2>1, <2>2 DEF RuleRows
<1>2. ASSUME NEW o \in OutboundRows
      PROVE  /\ OutboundAfter(o, from, to) \in OutboundRows
             /\ OutboundAfter(o, from, to).tag = o.tag
             /\ OutboundAfter(o, from, to).dialer = Swap(o.dialer, from, to)
  <2>1. CASE o \in Outbounds
    <3>1. Swap(o.dialer, from, to) \in OutboundTags \union {None}
      BY <2>1 DEF Swap, Outbounds
    <3> QED
      BY <2>1, <3>1 DEF OutboundAfter, Outbounds, OutboundRows
  <2>2. CASE o = Hole
    <3>1. Swap(o.dialer, from, to) = o.dialer
      BY <2>2 DEF Swap, Hole
    <3>2. OutboundAfter(o, from, to) = o
      BY <2>2, <3>1 DEF OutboundAfter, Hole
    <3> QED
      BY <3>1, <3>2
  <2> QED
    BY <2>1, <2>2 DEF OutboundRows
<1> QED
  BY <1>1, <1>2

\* A balancer that follows a renamed outbound keeps its tag.
LEMMA BalancersFollow ==
  ASSUME NEW b \in BalancerRows, NEW from, from # None, NEW to \in OutboundTags
  PROVE  /\ BalancerAfter(b, from, to) \in BalancerRows
         /\ BalancerAfter(b, from, to).tag = b.tag
         /\ BalancerAfter(b, from, to).fallback = Swap(b.fallback, from, to)
         /\ BalancerAfter(b, from, to).picks = {Swap(p, from, to) : p \in b.picks}
<1> DEFINE fallback == Swap(b.fallback, from, to)
           picks == {Swap(p, from, to) : p \in b.picks}
<1>1. BalancerAfter(b, from, to) = [b EXCEPT !.fallback = fallback, !.picks = picks]
  BY DEF BalancerAfter
<1>2. BalancerAfter(b, from, to) \in BalancerRows
  BY FollowerKeeps
<1> HIDE DEF fallback, picks
<1>3. [b EXCEPT !.fallback = fallback, !.picks = picks].tag = b.tag
  BY DEF BalancerRows, Balancers, Hole
<1>4. [b EXCEPT !.fallback = fallback, !.picks = picks].fallback = fallback
  BY DEF BalancerRows, Balancers, Hole
<1>5. [b EXCEPT !.fallback = fallback, !.picks = picks].picks = picks
  BY DEF BalancerRows, Balancers, Hole
<1> QED
  BY <1>1, <1>2, <1>3, <1>4, <1>5 DEF fallback, picks

\* A rule that follows a renamed balancer changes in that respect only.
LEMMA ViaFollows ==
  ASSUME NEW r \in RuleRows, NEW from, from # None, NEW to \in BalancerTags
  PROVE  /\ ViaAfter(r, from, to) \in RuleRows
         /\ ViaAfter(r, from, to).bal = Swap(r.bal, from, to)
<1>1. CASE r \in Rules
  <2>1. Swap(r.bal, from, to) \in BalancerTags \union {None}
    BY <1>1 DEF Swap, Rules
  <2> QED
    BY <1>1, <2>1 DEF ViaAfter, Rules, RuleRows
<1>2. CASE r = Hole
  <2>1. Swap(r.bal, from, to) = r.bal
    BY <1>2 DEF Swap, Hole
  <2>2. ViaAfter(r, from, to) = r
    BY <1>2, <2>1 DEF ViaAfter, Hole
  <2> QED
    BY <2>1, <2>2
<1> QED
  BY <1>1, <1>2 DEF RuleRows

\* The same change made to every row.
LEMMA MappedRows ==
  ASSUME NEW R, NEW list \in Seq(R), NEW after,
         after = [i \in DOMAIN list |-> after[i]],
         \A i \in DOMAIN list : after[i] \in R
  PROVE  after \in Seq(R) /\ DOMAIN after = DOMAIN list
<1>1. Len(list) \in Nat /\ DOMAIN list = 1 .. Len(list)
  OBVIOUS
<1>2. after \in [1 .. Len(list) -> R]
  BY <1>1
<1> QED
  BY <1>1, <1>2

\* In u every reference that t had to tag from is one to tag to, in the same place.
Followed(t, u, from, to) ==
  /\ DOMAIN u.rules = DOMAIN t.rules
  /\ DOMAIN u.balancers = DOMAIN t.balancers
  /\ DOMAIN u.outbounds = DOMAIN t.outbounds
  /\ \A i \in DOMAIN t.rules : u.rules[i].out = Swap(t.rules[i].out, from, to)
  /\ \A i \in DOMAIN t.balancers :
       /\ u.balancers[i].tag = t.balancers[i].tag
       /\ u.balancers[i].fallback = Swap(t.balancers[i].fallback, from, to)
       /\ \A p \in t.balancers[i].picks : Swap(p, from, to) \in u.balancers[i].picks
  /\ \A i \in DOMAIN t.outbounds :
       /\ u.outbounds[i].tag = t.outbounds[i].tag
       /\ u.outbounds[i].dialer = Swap(t.outbounds[i].dialer, from, to)

\* propagateOutboundTagRename changes what refers to the outbound, in place
\* (basics/helpers.ts:58-89).
LEMMA RenamedTyped ==
  ASSUME NEW t \in XrayTemplates, NEW from, from # None, NEW to \in OutboundTags
  PROVE  Renamed(t, from, to) \in XrayTemplates /\ Followed(t, Renamed(t, from, to), from, to)
<1> DEFINE rules == [i \in DOMAIN t.rules |-> RuleAfter(t.rules[i], from, to)]
           balancers == [i \in DOMAIN t.balancers |->
                           BalancerAfter(t.balancers[i], from, to)]
           outbounds == [i \in DOMAIN t.outbounds |->
                           OutboundAfter(t.outbounds[i], from, to)]
           u == Renamed(t, from, to)
<1>1. u = [t EXCEPT !.rules = rules, !.balancers = balancers, !.outbounds = outbounds]
  BY DEF Renamed
<1>2. /\ t.rules \in Seq(RuleRows) /\ t.balancers \in Seq(BalancerRows)
      /\ t.outbounds \in Seq(OutboundRows)
  BY SectionsTyped
<1>3. \A i \in DOMAIN t.rules :
        /\ rules[i] \in RuleRows
        /\ rules[i].out = Swap(t.rules[i].out, from, to)
  <2> SUFFICES ASSUME NEW i \in DOMAIN t.rules
               PROVE  /\ rules[i] \in RuleRows
                      /\ rules[i].out = Swap(t.rules[i].out, from, to)
    OBVIOUS
  <2>1. PICK r \in RuleRows : r = t.rules[i]
    BY <1>2
  <2>2. rules[i] = RuleAfter(r, from, to)
    BY <2>1
  <2>3. /\ RuleAfter(r, from, to) \in RuleRows
        /\ RuleAfter(r, from, to).out = Swap(r.out, from, to)
    BY RowsFollow
  <2> HIDE DEF rules
  <2> QED
    BY <2>1, <2>2, <2>3
<1>4. \A i \in DOMAIN t.balancers :
        /\ balancers[i] \in BalancerRows
        /\ balancers[i].tag = t.balancers[i].tag
        /\ balancers[i].fallback = Swap(t.balancers[i].fallback, from, to)
        /\ \A p \in t.balancers[i].picks : Swap(p, from, to) \in balancers[i].picks
  <2> SUFFICES ASSUME NEW i \in DOMAIN t.balancers
               PROVE  /\ balancers[i] \in BalancerRows
                      /\ balancers[i].tag = t.balancers[i].tag
                      /\ balancers[i].fallback = Swap(t.balancers[i].fallback, from, to)
                      /\ \A p \in t.balancers[i].picks : Swap(p, from, to) \in balancers[i].picks
    OBVIOUS
  <2>1. PICK r \in BalancerRows : r = t.balancers[i]
    BY <1>2
  <2>2. balancers[i] = BalancerAfter(r, from, to)
    BY <2>1
  <2>3. /\ BalancerAfter(r, from, to) \in BalancerRows
        /\ BalancerAfter(r, from, to).tag = r.tag
        /\ BalancerAfter(r, from, to).fallback = Swap(r.fallback, from, to)
        /\ BalancerAfter(r, from, to).picks = {Swap(p, from, to) : p \in r.picks}
    BY BalancersFollow
  <2> HIDE DEF balancers
  <2> QED
    BY <2>1, <2>2, <2>3
<1>5. \A i \in DOMAIN t.outbounds :
        /\ outbounds[i] \in OutboundRows
        /\ outbounds[i].tag = t.outbounds[i].tag
        /\ outbounds[i].dialer = Swap(t.outbounds[i].dialer, from, to)
  <2> SUFFICES ASSUME NEW i \in DOMAIN t.outbounds
               PROVE  /\ outbounds[i] \in OutboundRows
                      /\ outbounds[i].tag = t.outbounds[i].tag
                      /\ outbounds[i].dialer = Swap(t.outbounds[i].dialer, from, to)
    OBVIOUS
  <2>1. PICK r \in OutboundRows : r = t.outbounds[i]
    BY <1>2
  <2>2. outbounds[i] = OutboundAfter(r, from, to)
    BY <2>1
  <2>3. /\ OutboundAfter(r, from, to) \in OutboundRows
        /\ OutboundAfter(r, from, to).tag = r.tag
        /\ OutboundAfter(r, from, to).dialer = Swap(r.dialer, from, to)
    BY RowsFollow
  <2> HIDE DEF outbounds
  <2> QED
    BY <2>1, <2>2, <2>3
<1>6. /\ rules = [i \in DOMAIN t.rules |-> rules[i]]
      /\ balancers = [i \in DOMAIN t.balancers |-> balancers[i]]
      /\ outbounds = [i \in DOMAIN t.outbounds |-> outbounds[i]]
  OBVIOUS
<1> HIDE DEF rules, balancers, outbounds
<1>7. rules \in Seq(RuleRows) /\ DOMAIN rules = DOMAIN t.rules
  BY <1>2, <1>3, <1>6, MappedRows
<1>8. balancers \in Seq(BalancerRows) /\ DOMAIN balancers = DOMAIN t.balancers
  BY <1>2, <1>4, <1>6, MappedRows
<1>9. outbounds \in Seq(OutboundRows) /\ DOMAIN outbounds = DOMAIN t.outbounds
  BY <1>2, <1>5, <1>6, MappedRows
<1>10. /\ u \in XrayTemplates
       /\ u.rules = rules /\ u.balancers = balancers /\ u.outbounds = outbounds
  BY <1>1, <1>7, <1>8, <1>9
     DEF XrayTemplates, RuleRows, BalancerRows, OutboundRows
<1> HIDE DEF u
<1> QED
  BY <1>3, <1>4, <1>5, <1>7, <1>8, <1>9, <1>10 DEF u, Followed

\* Where a row was put there it is, and every other row is where it was.
LEMMA PlacedAt ==
  ASSUME NEW R, NEW list \in Seq(R), NEW i \in Nat, NEW x
  PROVE  /\ DOMAIN list \subseteq DOMAIN Placed(list, i, x)
         /\ \E at \in DOMAIN Placed(list, i, x) :
              /\ IF i = 0 THEN at \notin DOMAIN list ELSE at = i
              /\ \A j \in DOMAIN Placed(list, i, x) :
                   Placed(list, i, x)[j] =
                     IF j = at THEN x ELSE IF j \in DOMAIN list THEN list[j] ELSE Hole
<1>0. DOMAIN list = 1 .. Len(list) /\ Len(list) \in Nat
  OBVIOUS
<1>1. CASE i = 0
  <2>1. Placed(list, i, x) = Append(list, x)
    BY <1>1 DEF Placed
  <2>2. /\ DOMAIN Append(list, x) = 1 .. (Len(list) + 1)
        /\ \A j \in 1 .. Len(list) : Append(list, x)[j] = list[j]
        /\ Append(list, x)[Len(list) + 1] = x
    OBVIOUS
  <2>3. /\ Len(list) + 1 \in 1 .. (Len(list) + 1)
        /\ Len(list) + 1 \notin 1 .. Len(list)
        /\ \A j \in 1 .. (Len(list) + 1) : j # Len(list) + 1 => j \in 1 .. Len(list)
        /\ 1 .. Len(list) \subseteq 1 .. (Len(list) + 1)
    BY <1>0
  <2> HIDE DEF Placed
  <2> QED
    BY <1>0, <1>1, <2>1, <2>2, <2>3
<1>2. CASE i # 0
  <2> DEFINE n == IF i > Len(list) THEN i ELSE Len(list)
  <2>1. Placed(list, i, x) = Put(list, i, x)
    BY <1>2 DEF Placed
  <2>2. DOMAIN Put(list, i, x) = 1 .. n
    BY DEF Put
  <2>3. \A j \in 1 .. n : Put(list, i, x)[j] =
          IF j = i THEN x ELSE IF j <= Len(list) THEN list[j] ELSE Hole
    BY DEF Put
  <2>4. /\ 1 .. Len(list) \subseteq 1 .. n /\ i \in 1 .. n
        /\ \A j \in 1 .. n : j <= Len(list) <=> j \in 1 .. Len(list)
    BY <1>0, <1>2
  <2> HIDE DEF n, Placed, Put
  <2> QED
    BY <1>0, <1>2, <2>1, <2>2, <2>3, <2>4
<1> QED
  BY <1>1, <1>2

\* What the outbound dialog makes of a tag that some row refers to.
TagAfter(t, i, form, x) ==
  LET from == IF i \in DOMAIN t.outbounds THEN t.outbounds[i].tag ELSE None
  IN  IF from \in {None, form.tag} THEN x ELSE Swap(x, from, form.tag)

\* In u the row is where the dialog was opened, the others are where they were in t, and
\* what referred to a tag refers to what became of it.
OutboundPlaced(t, u, i, form) ==
  /\ DOMAIN u.rules = DOMAIN t.rules
  /\ DOMAIN u.balancers = DOMAIN t.balancers
  /\ \A k \in DOMAIN t.rules : u.rules[k].out = TagAfter(t, i, form, t.rules[k].out)
  /\ \A k \in DOMAIN t.balancers :
       /\ u.balancers[k].tag = t.balancers[k].tag
       /\ u.balancers[k].fallback = TagAfter(t, i, form, t.balancers[k].fallback)
       /\ \A p \in t.balancers[k].picks :
            TagAfter(t, i, form, p) \in u.balancers[k].picks
  /\ i # 0 => i \in DOMAIN u.outbounds /\ u.outbounds[i].tag = form.tag
  /\ \A k \in DOMAIN t.outbounds \ {i} :
       /\ k \in DOMAIN u.outbounds
       /\ u.outbounds[k].tag = t.outbounds[k].tag
       /\ u.outbounds[k].dialer = TagAfter(t, i, form, t.outbounds[k].dialer)

\* The outbound dialog changes a template that way (OutboundsTab.tsx:177-193).
LEMMA WithOutboundTyped ==
  ASSUME NEW t \in XrayTemplates, NEW i \in Nat, NEW form \in Outbounds,
         form.tag # None
  PROVE  /\ WithOutbound(t, i, form) \in XrayTemplates
         /\ OutboundPlaced(t, WithOutbound(t, i, form), i, form)
<1> DEFINE from == IF i \in DOMAIN t.outbounds THEN t.outbounds[i].tag ELSE None
           placed == [t EXCEPT !.outbounds = Placed(t.outbounds, i, form)]
           u == WithOutbound(t, i, form)
<1>1. u = IF from \notin {None, form.tag} THEN Renamed(placed, from, form.tag) ELSE placed
  BY DEF WithOutbound
<1>2. form.tag \in OutboundTags
  BY DEF Outbounds
<1>3. t.outbounds \in Seq(OutboundRows) /\ form \in OutboundRows /\ Hole \in OutboundRows
  BY SectionsTyped DEF OutboundRows
<1>4. Placed(t.outbounds, i, form) \in Seq(OutboundRows)
  BY <1>3, PlacedRows
<1>5. /\ placed \in XrayTemplates
      /\ placed.outbounds = Placed(t.outbounds, i, form)
      /\ placed.rules = t.rules /\ placed.balancers = t.balancers
  BY <1>4, SectionsTyped
<1>6. /\ i # 0 => i \in DOMAIN placed.outbounds /\ placed.outbounds[i] = form
      /\ \A k \in DOMAIN t.outbounds \ {i} :
           k \in DOMAIN placed.outbounds /\ placed.outbounds[k] = t.outbounds[k]
  <2> HIDE DEF placed
  <2>1. /\ DOMAIN t.outbounds \subseteq DOMAIN placed.outbounds
        /\ \E at \in DOMAIN placed.outbounds :
             /\ IF i = 0 THEN at \notin DOMAIN t.outbounds ELSE at = i
             /\ \A j \in DOMAIN placed.outbounds :
                  placed.outbounds[j] =
                    IF j = at THEN form
                    ELSE IF j \in DOMAIN t.outbounds THEN t.outbounds[j] ELSE Hole
    BY <1>3, <1>5, PlacedAt
  <2> QED
    BY <2>1
<1>7. \A x : TagAfter(t, i, form, x) =
               IF from \in {None, form.tag} THEN x ELSE Swap(x, from, form.tag)
  BY DEF TagAfter
<1> HIDE DEF placed, from, u
<1>8. CASE from \in {None, form.tag}
  <2>1. u = placed
    BY <1>1, <1>8
  <2>2. \A x : TagAfter(t, i, form, x) = x
    BY <1>7, <1>8
  <2> QED
    BY <1>5, <1>6, <2>1, <2>2 DEF u, OutboundPlaced
<1>9. CASE from \notin {None, form.tag}
  <2>1. u = Renamed(placed, from, form.tag)
    BY <1>1, <1>9
  <2>2. \A x : TagAfter(t, i, form, x) = Swap(x, from, form.tag)
    BY <1>7, <1>9
  <2>3. placed \in XrayTemplates /\ from # None /\ form.tag \in OutboundTags
    BY <1>2, <1>5, <1>9
  <2>4. u \in XrayTemplates /\ Followed(placed, u, from, form.tag)
    BY <2>1, <2>3, RenamedTyped
  <2> QED
    BY <1>5, <1>6, <2>2, <2>4 DEF u, Followed, OutboundPlaced
<1> QED
  BY <1>8, <1>9

\* The balancer dialog: its row is put where it was opened, and the rules follow
\* (BalancersTab.tsx:153-184).
LEMMA WithBalancerTyped ==
  ASSUME NEW t \in XrayTemplates, NEW i \in Nat, NEW form \in Balancers
  PROVE  LET from == IF i \in DOMAIN t.balancers THEN t.balancers[i].tag ELSE None
         IN  /\ WithBalancer(t, i, form) \in XrayTemplates
             /\ WithBalancer(t, i, form).balancers = Placed(t.balancers, i, form)
             /\ \A k \in DOMAIN t.rules :
                  WithBalancer(t, i, form).rules[k].bal =
                    IF from \in {None, form.tag} THEN t.rules[k].bal
                    ELSE Swap(t.rules[k].bal, from, form.tag)
<1> DEFINE from == IF i \in DOMAIN t.balancers THEN t.balancers[i].tag ELSE None
           placed == [t EXCEPT !.balancers = Placed(t.balancers, i, form)]
           rules == [r \in DOMAIN placed.rules |->
                       ViaAfter(placed.rules[r], from, form.tag)]
           moved == [placed EXCEPT !.rules = rules]
<1>1. WithBalancer(t, i, form) =
        Synced(IF from \in {None, form.tag} THEN placed ELSE moved)
  BY DEF WithBalancer
<1>2. /\ t.balancers \in Seq(BalancerRows) /\ t.rules \in Seq(RuleRows)
      /\ form \in BalancerRows /\ Hole \in BalancerRows /\ form.tag \in BalancerTags
  BY SectionsTyped DEF BalancerRows, Balancers
<1>3. Placed(t.balancers, i, form) \in Seq(BalancerRows)
  BY <1>2, PlacedRows
<1>4. /\ placed \in XrayTemplates /\ placed.rules = t.rules
      /\ placed.balancers = Placed(t.balancers, i, form)
  BY <1>3, SectionsTyped
<1> HIDE DEF placed, from
<1>5. CASE from \in {None, form.tag}
  <2>1. WithBalancer(t, i, form) = Synced(placed)
    BY <1>1, <1>5
  <2> QED
    BY <1>4, <1>5, <2>1, SyncedTyped DEF from
<1>6. CASE from \notin {None, form.tag}
  <2>1. ASSUME NEW k \in DOMAIN t.rules
        PROVE  rules[k] \in RuleRows /\ rules[k].bal = Swap(t.rules[k].bal, from, form.tag)
    <3>1. PICK r \in RuleRows : r = t.rules[k]
      BY <1>2
    <3>2. rules[k] = ViaAfter(r, from, form.tag)
      BY <1>4, <3>1
    <3>3. ViaAfter(r, from, form.tag) \in RuleRows
      BY <1>2, <1>6, ViaFollows
    <3>4. ViaAfter(r, from, form.tag).bal = Swap(r.bal, from, form.tag)
      BY <1>2, <1>6, ViaFollows
    <3> HIDE DEF rules
    <3> QED
      BY <3>1, <3>2, <3>3, <3>4
  <2>2. rules = [k \in DOMAIN t.rules |-> rules[k]]
    BY <1>4
  <2> HIDE DEF rules
  <2>3. rules \in Seq(RuleRows)
    BY <1>2, <2>1, <2>2, MappedRows
  <2>4. moved \in XrayTemplates /\ moved.rules = rules /\ moved.balancers = placed.balancers
    BY <1>4, <2>3, SectionsTyped
  <2> HIDE DEF moved
  <2>5. WithBalancer(t, i, form) = Synced(moved)
    BY <1>1, <1>6
  <2>6. /\ WithBalancer(t, i, form) \in XrayTemplates
        /\ WithBalancer(t, i, form).rules = rules
        /\ WithBalancer(t, i, form).balancers = placed.balancers
    BY <2>4, <2>5, SyncedTyped
  <2> QED
    BY <1>4, <1>6, <2>1, <2>6 DEF from
<1> QED
  BY <1>5, <1>6

\* A row that is taken out leaves the others, in their order.
LEMMA WithoutAt ==
  ASSUME NEW R, NEW list \in Seq(R), NEW i
  PROVE  /\ \A j \in DOMAIN list \ {i} : \E k \in DOMAIN Without(list, i) :
              Without(list, i)[k] = list[j]
         /\ \A j \in DOMAIN Without(list, i) : \E k \in DOMAIN list :
              /\ Without(list, i)[j] = list[k]
              /\ i \in DOMAIN list => k = IF j < i THEN j ELSE j + 1
         /\ i \in DOMAIN list => DOMAIN Without(list, i) = 1 .. (Len(list) - 1)
<1>1. CASE i \in DOMAIN list
  <2> DEFINE n == Len(list)
  <2>1. n \in Nat /\ DOMAIN list = 1 .. n /\ i \in 1 .. n
    BY <1>1
  <2>2. Without(list, i) = SubSeq(list, 1, i - 1) \o SubSeq(list, i + 1, n)
    BY <1>1 DEF Without, RemoveAt
  <2> DEFINE front == SubSeq(list, 1, i - 1)
             back == SubSeq(list, i + 1, n)
  <2>3. /\ Len(front) = i - 1 /\ front \in Seq(R)
        /\ \A j \in 1 .. (i - 1) : front[j] = list[j]
    BY <2>1
  <2>4. /\ Len(back) = n - i /\ back \in Seq(R)
        /\ \A j \in 1 .. (n - i) : back[j] = list[i + j]
    <3>1. /\ i + 1 \in Int /\ n \in Int
          /\ \A j \in (i + 1) .. n : list[j] \in R
      BY <2>1
    <3>2. /\ back \in Seq(R)
          /\ Len(back) = IF i + 1 <= n THEN n - (i + 1) + 1 ELSE 0
          /\ \A j \in 1 .. (n - (i + 1) + 1) : back[j] = list[(i + 1) + j - 1]
      BY <3>1, SubSeqProperties
    <3> HIDE DEF back, n
    <3>3. n - (i + 1) + 1 = n - i /\ (~ (i + 1 <= n) => n - i = 0)
      BY <2>1
    <3>4. \A j \in 1 .. (n - i) : (i + 1) + j - 1 = i + j
      BY <2>1
    <3> QED
      BY <3>2, <3>3, <3>4
  <2> HIDE DEF front, back, Without
  <2>5. DOMAIN Without(list, i) = 1 .. (n - 1)
    <3>1. Len(front \o back) = Len(front) + Len(back) /\ front \o back \in Seq(R)
      BY <2>3, <2>4
    <3>2. Len(front \o back) = n - 1
      BY <2>1, <2>3, <2>4, <3>1
    <3>3. Without(list, i) = front \o back
      BY <2>2 DEF front, back
    <3> QED
      BY <3>1, <3>2, <3>3
  <2>6. \A j \in 1 .. (n - 1) :
          Without(list, i)[j] = IF j < i THEN list[j] ELSE list[j + 1]
    <3> SUFFICES ASSUME NEW j \in 1 .. (n - 1)
                 PROVE  (front \o back)[j] = IF j < i THEN list[j] ELSE list[j + 1]
      BY <2>2 DEF front, back
    <3>1. CASE j < i
      <4>1. j \in 1 .. (i - 1) /\ (front \o back)[j] = front[j]
        BY <2>1, <2>3, <2>4, <3>1
      <4> QED
        BY <2>3, <3>1, <4>1
    <3>2. CASE ~ (j < i)
      <4>1. j - (i - 1) \in 1 .. (n - i) /\ i + (j - (i - 1)) = j + 1
        BY <2>1, <3>2
      <4>2. (front \o back)[j] = back[j - (i - 1)]
        BY <2>1, <2>3, <2>4, <3>2
      <4> QED
        BY <2>4, <3>2, <4>1, <4>2
    <3> QED
      BY <3>1, <3>2
  <2> HIDE DEF n
  <2>7. ASSUME NEW j \in DOMAIN list \ {i}
        PROVE  \E k \in DOMAIN Without(list, i) : Without(list, i)[k] = list[j]
    <3>1. CASE j < i
      BY <2>1, <2>5, <2>6, <3>1
    <3>2. CASE ~ (j < i)
      <4>1. j - 1 \in 1 .. (n - 1) /\ ~ (j - 1 < i) /\ (j - 1) + 1 = j
        BY <2>1, <3>2
      <4> QED
        BY <2>5, <2>6, <4>1
    <3> QED
      BY <3>1, <3>2
  <2>8. ASSUME NEW j \in DOMAIN Without(list, i)
        PROVE  \E k \in DOMAIN list : /\ Without(list, i)[j] = list[k]
                                      /\ k = IF j < i THEN j ELSE j + 1
    <3>1. j \in 1 .. (n - 1)
      BY <2>5
    <3>2. j \in 1 .. n /\ j + 1 \in 1 .. n
      BY <2>1, <3>1
    <3> QED
      BY <2>1, <2>6, <3>1, <3>2
  <2> QED
    BY <2>5, <2>7, <2>8 DEF n
<1>2. CASE i \notin DOMAIN list
  BY <1>2 DEF Without
<1> QED
  BY <1>1, <1>2

\* Balancers keep their tags, so those stay distinct.
LEMMA SameTags ==
  ASSUME NEW t, NEW u, Distinct(t), DOMAIN u.balancers = DOMAIN t.balancers,
         \A i \in DOMAIN t.balancers : u.balancers[i].tag = t.balancers[i].tag
  PROVE  Distinct(u)
BY DEF Distinct

\* The balancer dialog compares with the tags the other rows have now, so that tags stay
\* distinct (BalancerFormModal.tsx:76-97).
LEMMA WithBalancerSound ==
  ASSUME NEW t, Sound(t), NEW i \in Nat, NEW form \in Balancers,
         form.tag \notin TagsOf(Without(t.balancers, i))
  PROVE  Sound(WithBalancer(t, i, form))
<1> DEFINE list == t.balancers
           placed == Placed(list, i, form)
           u == WithBalancer(t, i, form)
<1>1. t \in XrayTemplates /\ list \in Seq(BalancerRows)
  BY SectionsTyped DEF Sound
<1>2. u \in XrayTemplates /\ u.balancers = placed
  BY <1>1, WithBalancerTyped
<1>3. /\ form.tag # None /\ Hole.tag = None
  BY TagsAssumption DEF Balancers, Hole
<1>4. \A j \in DOMAIN list \ {i} : list[j].tag # form.tag
  <2> SUFFICES ASSUME NEW j \in DOMAIN list \ {i}, list[j].tag = form.tag PROVE FALSE
    OBVIOUS
  <2>1. PICK k \in DOMAIN Without(list, i) : Without(list, i)[k] = list[j]
    BY <1>1, WithoutAt
  <2>2. form.tag \in TagsOf(Without(list, i))
    BY <1>3, <2>1 DEF TagsOf
  <2> QED
    BY <2>2
<1>5. \A j, k \in DOMAIN list : list[j].tag = list[k].tag /\ list[j].tag # None => j = k
  BY DEF Sound, Distinct
<1>6. PICK at \in DOMAIN placed :
        /\ IF i = 0 THEN at \notin DOMAIN list ELSE at = i
        /\ \A j \in DOMAIN placed :
             placed[j] = IF j = at THEN form
                         ELSE IF j \in DOMAIN list THEN list[j] ELSE Hole
  BY <1>1, PlacedAt
<1>7. \A j \in DOMAIN list : j # at => list[j].tag # form.tag
  <2>1. 0 \notin DOMAIN list
    BY <1>1
  <2> QED
    BY <1>4, <1>6, <2>1
<1> HIDE DEF list, placed, u
<1>8. \A j, k \in DOMAIN placed : placed[j].tag = placed[k].tag /\ placed[j].tag # None => j = k
  BY <1>3, <1>5, <1>6, <1>7
<1> QED
  BY <1>2, <1>8 DEF Sound, Distinct, u

\* Deleting a balancer leaves the tags of the others.
LEMMA WithoutBalancerSound ==
  ASSUME NEW t, Sound(t), NEW i
  PROVE  Sound(WithoutBalancer(t, i))
<1> DEFINE list == t.balancers
           left == Without(list, i)
           cut == [t EXCEPT !.balancers = left]
<1>1. t \in XrayTemplates /\ list \in Seq(BalancerRows)
  BY SectionsTyped DEF Sound
<1>2. left \in Seq(BalancerRows)
  BY <1>1, WithoutRows
<1>3. cut \in XrayTemplates /\ cut.balancers = left
  BY <1>1, <1>2, SectionsTyped
<1>4. WithoutBalancer(t, i) = Synced(cut)
  BY DEF WithoutBalancer
<1>5. \A j \in DOMAIN left : \E k \in DOMAIN list :
        left[j] = list[k] /\ (i \in DOMAIN list => k = IF j < i THEN j ELSE j + 1)
  BY <1>1, WithoutAt
<1>6. \A j, k \in DOMAIN list : list[j].tag = list[k].tag /\ list[j].tag # None => j = k
  BY DEF Sound, Distinct
<1>7. ASSUME NEW j \in DOMAIN left, NEW k \in DOMAIN left,
             left[j].tag = left[k].tag, left[j].tag # None
      PROVE  j = k
  <2>1. CASE i \notin DOMAIN list
    BY <1>6, <1>7, <2>1 DEF Without
  <2>2. CASE i \in DOMAIN list
    <3>1. PICK a \in DOMAIN list : left[j] = list[a] /\ a = IF j < i THEN j ELSE j + 1
      BY <1>5, <2>2
    <3>2. PICK b \in DOMAIN list : left[k] = list[b] /\ b = IF k < i THEN k ELSE k + 1
      BY <1>5, <2>2
    <3>3. a = b
      BY <1>6, <1>7, <3>1, <3>2
    <3>4. i \in Nat /\ j \in Nat /\ k \in Nat
      BY <1>1, <1>2, <2>2
    <3> HIDE DEF list, left
    <3> QED
      BY <3>1, <3>2, <3>3, <3>4
  <2> QED
    BY <2>1, <2>2
<1> HIDE DEF list, left, cut
<1>8. Distinct(cut)
  BY <1>3, <1>7 DEF Distinct
<1>9. Synced(cut) \in XrayTemplates /\ Synced(cut).balancers = cut.balancers
  BY <1>3, SyncedTyped
<1> QED
  BY <1>4, <1>8, <1>9, SameTags DEF Sound

\* Edits elsewhere leave the balancers alone.
LEMMA ElsewhereSound ==
  ASSUME NEW t, Sound(t)
  PROVE  /\ \A x \in Seq(OutboundRows) : Sound([t EXCEPT !.outbounds = x])
         /\ \A x \in Seq(RuleRows) : Sound([t EXCEPT !.rules = x])
<1>1. ASSUME NEW x \in Seq(OutboundRows) PROVE Sound([t EXCEPT !.outbounds = x])
  <2> DEFINE u == [t EXCEPT !.outbounds = x]
  <2>1. u \in XrayTemplates /\ u.balancers = t.balancers
    BY SectionsTyped DEF Sound
  <2> HIDE DEF u
  <2>2. Sound(u)
    BY <2>1 DEF Sound, Distinct
  <2> QED
    BY <2>2 DEF u
<1>2. ASSUME NEW x \in Seq(RuleRows) PROVE Sound([t EXCEPT !.rules = x])
  <2> DEFINE u == [t EXCEPT !.rules = x]
  <2>1. u \in XrayTemplates /\ u.balancers = t.balancers
    BY SectionsTyped DEF Sound
  <2> HIDE DEF u
  <2>2. Sound(u)
    BY <2>1 DEF Sound, Distinct
  <2> QED
    BY <2>2 DEF u
<1> QED
  BY <1>1, <1>2

\* The outbound dialog leaves the balancers their tags.
LEMMA WithOutboundSound ==
  ASSUME NEW t, Sound(t), NEW i \in Nat, NEW form \in Outbounds, form.tag # None
  PROVE  Sound(WithOutbound(t, i, form))
<1>1. /\ WithOutbound(t, i, form) \in XrayTemplates
      /\ OutboundPlaced(t, WithOutbound(t, i, form), i, form)
  BY WithOutboundTyped DEF Sound
<1> QED
  BY <1>1, SameTags DEF Sound, OutboundPlaced

\* A row that is moved stays in the list.
LEMMA MovedRows ==
  ASSUME NEW R, NEW list \in Seq(R), NEW i \in DOMAIN list, NEW j \in DOMAIN list
  PROVE  Moved(list, i, j) \in Seq(R)
<1> DEFINE rest == Without(list, i)
           front == SubSeq(rest, 1, j - 1)
           back == SubSeq(rest, j, Len(rest))
<1>1. Moved(list, i, j) = front \o <<list[i]>> \o back
  BY DEF Moved, InsertAt, Without
<1>2. rest \in Seq(R) /\ DOMAIN rest = 1 .. (Len(list) - 1)
  BY WithoutRows, WithoutAt
<1>3. /\ i \in 1 .. Len(list) /\ j \in 1 .. Len(list) /\ Len(list) \in Nat
      /\ list[i] \in R
  OBVIOUS
<1> HIDE DEF rest
<1>4. Len(rest) = Len(list) - 1
  BY <1>2, <1>3
<1>5. front \in Seq(R) /\ back \in Seq(R)
  <2>1. /\ 1 \in Int /\ j - 1 \in Int /\ j \in Int /\ Len(rest) \in Int
        /\ \A k \in 1 .. (j - 1) : rest[k] \in R
        /\ \A k \in j .. Len(rest) : rest[k] \in R
    BY <1>2, <1>3, <1>4
  <2> QED
    BY <2>1, SubSeqProperties
<1> HIDE DEF front, back
<1> QED
  BY <1>1, <1>3, <1>5

\* The rules a select leaves are rules (basics/helpers.ts:20-47).
LEMMA WithListSound ==
  ASSUME NEW t, Sound(t), NEW tag \in OutboundTags, NEW list \in Lists, NEW chosen
  PROVE  Sound(WithList(t, tag, list, chosen))
<1> DEFINE rows == Listing(t, tag, list)
           keeps(i) == i \in rows => chosen /\ \A j \in rows : i <= j
           left == {i \in DOMAIN t.rules : keeps(i)}
           rule == [out |-> tag, bal |-> None, lists |-> IF chosen THEN {list} ELSE {}]
<1>1. WithList(t, tag, list, chosen) =
        IF rows = {} THEN [t EXCEPT !.rules = Append(t.rules, rule)]
                     ELSE [t EXCEPT !.rules = RowsAt(t.rules, left)]
  BY DEF WithList
<1>2. t.rules \in Seq(RuleRows)
  BY SectionsTyped DEF Sound
<1>3. RowsAt(t.rules, left) \in Seq(RuleRows)
  BY <1>2, RowsAtTyped
<1>4. Append(t.rules, rule) \in Seq(RuleRows)
  <2>1. rule \in RuleRows
    BY DEF RuleRows, Rules
  <2> HIDE DEF rule
  <2> QED
    BY <1>2, <2>1
<1> HIDE DEF rows, left, rule
<1> QED
  BY <1>1, <1>3, <1>4, ElsewhereSound

\* The outbound of a select comes and goes as a whole (basics/helpers.ts:49-56).
LEMMA ListEditedSound ==
  ASSUME NEW t, Sound(t), NEW tag \in OutboundTags, NEW list \in Lists, NEW chosen
  PROVE  Sound(ListEdited(t, tag, list, chosen))
<1> DEFINE set == WithList(t, tag, list, chosen)
           at == Position(set, tag)
           wanted == \E i \in DOMAIN set.rules : set.rules[i].out = tag
           outbound == [tag |-> tag, dialer |-> None]
           outbounds == IF ~wanted /\ at > 1 THEN RemoveAt(set.outbounds, at)
                        ELSE IF wanted /\ at = 0 THEN Append(set.outbounds, outbound)
                        ELSE set.outbounds
<1>1. Sound(set)
  BY WithListSound
<1>2. OutboundMatched(set, tag) = [set EXCEPT !.outbounds = outbounds]
  BY DEF OutboundMatched
<1> HIDE DEF set
<1>3. set.outbounds \in Seq(OutboundRows)
  BY <1>1, SectionsTyped DEF Sound
<1>4. at > 1 => at \in DOMAIN set.outbounds
  <2>1. Positions(set, tag) \in SUBSET DOMAIN set.outbounds /\ DOMAIN set.outbounds \subseteq Nat
    BY <1>3 DEF Positions
  <2>2. CASE Positions(set, tag) = {}
    BY <2>2 DEF Position
  <2>3. CASE Positions(set, tag) # {}
    <3>1. \E m \in Positions(set, tag) : \A k \in Positions(set, tag) : m <= k
      BY <2>1, <2>3, Least
    <3> QED
      BY <2>1, <2>3, <3>1 DEF Position
  <2> QED
    BY <2>2, <2>3
<1>5. outbound \in OutboundRows
  BY DEF OutboundRows, Outbounds
<1> HIDE DEF at, outbound, wanted
<1>6. at > 1 => RemoveAt(set.outbounds, at) \in Seq(OutboundRows)
  <2>1. at > 1 => RemoveAt(set.outbounds, at) = Without(set.outbounds, at)
    BY <1>4 DEF Without
  <2> QED
    BY <1>3, <2>1, WithoutRows
<1>7. Append(set.outbounds, outbound) \in Seq(OutboundRows)
  BY <1>3, <1>5
<1>8. outbounds \in Seq(OutboundRows)
  BY <1>3, <1>6, <1>7
<1> HIDE DEF outbounds
<1>9. Sound([set EXCEPT !.outbounds = outbounds])
  BY <1>1, <1>8, ElsewhereSound
<1> QED
  BY <1>1, <1>2, <1>9 DEF ListEdited, set

-----------------------------------------------------------------------------
\* The page keeps to its types, and no template it may come to show has two balancers
\* of one tag.
TagsInv ==
  /\ PageTypeOK
  /\ Distinct(shown) /\ Distinct(server.xray)
  /\ text # Broken => Distinct(text)
  /\ saving # None => Distinct(saving.sent)
  /\ fetch \notin {None, Sent, Failed} => Distinct(fetch.xray)

\* The configurations the server may hold are in order to begin with.
LEMMA StoredSound ==
  ASSUME NEW t \in Stored PROVE Sound(t)
BY StoredAssumption DEF Sound, Distinct

\* An edit keeps the invariant if it leaves a template in order.
LEMMA SoundEdit ==
  ASSUME TagsInv, NEW t, Sound(t), Edit(t), dialog' = None
  PROVE  TagsInv'
<1>1. edits' \in 0 .. MaxEdits
  BY FormsAssumption DEF TagsInv, PageTypeOK, Edit, CanEdit
<1> QED
  BY <1>1 DEF TagsInv, PageTypeOK, Sound, Edit, net

\* Every edit of the page leaves the template in order.
LEMMA EditsSound ==
  ASSUME TagsInv,
         \/ ConfirmOutbound \/ ConfirmRule \/ ConfirmBalancer
         \/ DeleteOutbound \/ DeleteRule \/ DeleteBalancer
         \/ MoveOutbound \/ MoveRule
         \/ ImportOutbounds \/ ImportRules
         \/ (\E tag \in OutboundTags, list \in Lists, chosen \in BOOLEAN :
               SetList(tag, list, chosen))
         \/ ResetDefault
  PROVE  TagsInv'
<1>1. /\ Sound(shown)
      /\ shown.outbounds \in Seq(OutboundRows) /\ shown.rules \in Seq(RuleRows)
      /\ shown.balancers \in Seq(BalancerRows)
  BY SectionsTyped DEF TagsInv, PageTypeOK, Sound
<1>2. ASSUME NEW t, OnPage(t), Sound(t) PROVE TagsInv'
  BY <1>2, SoundEdit DEF OnPage
<1>3. dialog # None => dialog.row \in Nat
  BY DEF TagsInv, PageTypeOK
<1>4. CASE ConfirmOutbound
  <2>1. PICK form \in OutboundForms :
          form.tag # None /\ Edit(WithOutbound(shown, dialog.row, form))
    BY <1>4 DEF ConfirmOutbound
  <2>2. form \in Outbounds /\ dialog.row \in Nat
    BY <1>3, <1>4, FormsAssumption DEF ConfirmOutbound, Open
  <2>3. Sound(WithOutbound(shown, dialog.row, form))
    BY <1>1, <2>1, <2>2, WithOutboundSound
  <2> QED
    BY <1>4, <2>1, <2>3, SoundEdit DEF ConfirmOutbound
<1>5. CASE ConfirmRule
  <2>1. PICK form \in RuleForms :
          Edit([shown EXCEPT !.rules = Placed(shown.rules, dialog.row, form)])
    BY <1>5 DEF ConfirmRule
  <2>2. form \in RuleRows /\ Hole \in RuleRows /\ dialog.row \in Nat
    BY <1>3, <1>5, FormsAssumption DEF ConfirmRule, Open, RuleRows
  <2>3. Placed(shown.rules, dialog.row, form) \in Seq(RuleRows)
    BY <1>1, <2>2, PlacedRows
  <2>4. Sound([shown EXCEPT !.rules = Placed(shown.rules, dialog.row, form)])
    BY <1>1, <2>3, ElsewhereSound
  <2> QED
    BY <1>5, <2>1, <2>4, SoundEdit DEF ConfirmRule
<1>6. CASE ConfirmBalancer
  <2>1. PICK form \in BalancerForms :
          form.tag \notin OtherTags /\ Edit(WithBalancer(shown, dialog.row, form))
    BY <1>6 DEF ConfirmBalancer
  <2>2. form \in Balancers /\ dialog.row \in Nat
    BY <1>3, <1>6, FormsAssumption DEF ConfirmBalancer, Open
  <2>3. Sound(WithBalancer(shown, dialog.row, form))
    BY <1>1, <2>1, <2>2, WithBalancerSound DEF OtherTags
  <2> QED
    BY <1>6, <2>1, <2>3, SoundEdit DEF ConfirmBalancer
<1>7. CASE DeleteOutbound \/ DeleteRule
  <2>1. /\ Sound([shown EXCEPT !.outbounds = Without(shown.outbounds, dialog.row)])
        /\ Sound([shown EXCEPT !.rules = Without(shown.rules, dialog.row)])
    BY <1>1, WithoutRows, ElsewhereSound
  <2> QED
    BY <1>7, <2>1, SoundEdit DEF DeleteOutbound, DeleteRule
<1>8. CASE DeleteBalancer
  BY <1>1, <1>8, WithoutBalancerSound, SoundEdit DEF DeleteBalancer
<1>9. CASE MoveOutbound \/ MoveRule
  <2>1. \A i, j \in DOMAIN shown.outbounds :
          Sound([shown EXCEPT !.outbounds = Moved(shown.outbounds, i, j)])
    BY <1>1, MovedRows, ElsewhereSound
  <2>2. \A i, j \in DOMAIN shown.rules :
          Sound([shown EXCEPT !.rules = Moved(shown.rules, i, j)])
    BY <1>1, MovedRows, ElsewhereSound
  <2> QED
    BY <1>2, <1>9, <2>1, <2>2 DEF MoveOutbound, MoveRule
<1>10. CASE ImportOutbounds \/ ImportRules
  <2>1. \A form \in OutboundForms : Append(shown.outbounds, form) \in Seq(OutboundRows)
    BY <1>1, FormsAssumption DEF OutboundRows
  <2>2. \A form \in RuleForms : Append(shown.rules, form) \in Seq(RuleRows)
    BY <1>1, FormsAssumption DEF RuleRows
  <2>3. /\ \A form \in OutboundForms :
             Sound([shown EXCEPT !.outbounds = Append(shown.outbounds, form)])
        /\ \A form \in RuleForms :
             Sound([shown EXCEPT !.rules = Append(shown.rules, form)])
    BY <1>1, <2>1, <2>2, ElsewhereSound
  <2> QED
    BY <1>2, <1>10, <2>3 DEF ImportOutbounds, ImportRules
<1>11. ASSUME NEW tag \in OutboundTags, NEW list \in Lists, NEW chosen \in BOOLEAN,
              SetList(tag, list, chosen)
       PROVE  TagsInv'
  BY <1>1, <1>2, <1>11, ListEditedSound DEF SetList
<1>12. CASE ResetDefault
  BY <1>2, <1>12, StoredSound, StoredAssumption DEF ResetDefault
<1> QED
  BY <1>4, <1>5, <1>6, <1>7, <1>8, <1>9, <1>10, <1>11, <1>12

\* A dialog is opened on a row there is, and remembers outbound tags only.
LEMMA OpeningTyped ==
  ASSUME TagsInv, NEW kind \in Kinds,
         OpenAdd(kind) \/ OpenEdit(kind) \/ AskDelete(kind)
  PROVE  TagsInv'
<1>1. PICK r, deleting :
        /\ Opened(kind, r, deleting)
        /\ r = 0 \/ r \in DOMAIN RowsOf(kind)
        /\ deleting \in BOOLEAN
  BY DEF OpenAdd, OpenEdit, AskDelete
<1>2. /\ shown.outbounds \in Seq(OutboundRows) /\ shown.rules \in Seq(RuleRows)
      /\ shown.balancers \in Seq(BalancerRows)
  BY SectionsTyped DEF TagsInv, PageTypeOK
<1>3. r \in Nat
  BY <1>1, <1>2 DEF RowsOf, Kinds
<1>4. TagsOf(Without(shown.outbounds, r)) \subseteq OutboundTags
  <2>1. Without(shown.outbounds, r) \in Seq(OutboundRows)
    BY <1>2, WithoutRows
  <2>2. \A i \in DOMAIN Without(shown.outbounds, r) :
          Without(shown.outbounds, r)[i] \in OutboundRows
    BY <2>1
  <2>3. \A o \in OutboundRows : o.tag \in OutboundTags \union {None}
    BY DEF OutboundRows, Outbounds, Hole
  <2> QED
    BY <2>2, <2>3 DEF TagsOf
<1>5. dialog' \in [over : Kinds, row : Nat, deleting : BOOLEAN, taken : SUBSET OutboundTags]
  BY <1>1, <1>3, <1>4 DEF Opened
<1> QED
  BY <1>1, <1>5 DEF Opened, TagsInv, PageTypeOK, net

\* What is stored next has the next number.
LEMMA StoresTyped ==
  ASSUME TagsInv, NEW x \in XrayTemplates, Stores(x)
  PROVE  server' \in ServerStates /\ server'.xray = x
<1>1. server \in ServerStates /\ MaxVer \in Nat
  BY FormsAssumption DEF TagsInv, PageTypeOK
<1>2. server' = [xray |-> x, subs |-> server.subs, ver |-> server.ver + 1]
  BY <1>1 DEF Stores, ServerStates
<1>3. server.ver + 1 \in 0 .. MaxVer
  BY <1>1 DEF Stores, ServerStates
<1> QED
  BY <1>1, <1>2, <1>3 DEF ServerStates

LEMMA TagsStep == TagsInv /\ [PageNext]_pageVars => TagsInv'
<1> SUFFICES ASSUME TagsInv, [PageNext]_pageVars PROVE TagsInv'
  OBVIOUS
<1>1. CASE UNCHANGED pageVars
  BY <1>1 DEF TagsInv, PageTypeOK, pageVars, page, net
<1>2. CASE Cancel
  BY <1>2 DEF Cancel, TagsInv, PageTypeOK, net
<1>3. CASE TypeText
  <2>1. edits' \in 0 .. MaxEdits
    BY <1>3, FormsAssumption DEF TypeText, CanEdit, TagsInv, PageTypeOK
  <2>2. PICK x \in Stored \union {Broken} :
          text' = x /\ shown' = IF x = Broken THEN shown ELSE x
    BY <1>3 DEF TypeText
  <2>3. x # Broken => Sound(x)
    BY <2>2, StoredSound
  <2> QED
    BY <1>3, <2>1, <2>2, <2>3 DEF TypeText, TagsInv, PageTypeOK, Sound, net
<1>4. CASE DirtyPoll
  BY <1>4 DEF DirtyPoll, TagsInv, PageTypeOK, net
<1>5. CASE Save
  <2>1. saving' \in [sent : XrayTemplates, stored : BOOLEAN, ver : 0 .. MaxVer]
    BY <1>5, FormsAssumption DEF Save, TagsInv, PageTypeOK
  <2>2. saving'.sent = text
    BY <1>5 DEF Save
  <2> QED
    BY <1>5, <2>1, <2>2 DEF Save, TagsInv, PageTypeOK, page
<1>6. CASE ServerStores
  <2>1. saving \in [sent : XrayTemplates, stored : BOOLEAN, ver : 0 .. MaxVer]
    BY <1>6 DEF ServerStores, TagsInv, PageTypeOK
  <2>2. server' \in ServerStates /\ server'.xray = saving.sent
    BY <1>6, <2>1, StoresTyped DEF ServerStores
  <2>3. saving' = [saving EXCEPT !.stored = TRUE, !.ver = server'.ver]
    BY <1>6 DEF ServerStores
  <2>4. /\ saving' \in [sent : XrayTemplates, stored : BOOLEAN, ver : 0 .. MaxVer]
        /\ saving'.sent = saving.sent
    BY <2>1, <2>2, <2>3 DEF ServerStates
  <2> QED
    BY <1>6, <2>2, <2>4 DEF ServerStores, TagsInv, PageTypeOK, page
<1>7. CASE SaveAnswered
  BY <1>7 DEF SaveAnswered, Refetch, TagsInv, PageTypeOK
<1>8. CASE SaveFailed
  BY <1>8 DEF SaveFailed, TagsInv, PageTypeOK, page
<1>9. CASE ServerReads \/ FetchFails \/ Refocus
  BY <1>9 DEF ServerReads, FetchFails, Refocus, Refetch, TagsInv, PageTypeOK, page
<1>10. CASE FetchLands
  <2>1. fetch \in ServerStates /\ Distinct(fetch.xray)
    BY <1>10 DEF FetchLands, TagsInv, PageTypeOK
  <2>2. cached' \in [xray : XrayTemplates, subs : 0 .. MaxSubs]
    BY <1>10, <2>1 DEF FetchLands, Compared, ServerStates
  <2>3. fetch.xray \in XrayTemplates
    BY <2>1 DEF ServerStates
  <2> QED
    BY <1>10, <2>1, <2>2, <2>3 DEF FetchLands, TagsInv, PageTypeOK
<1>11. CASE ChangeSubs
  <2>1. PICK subs \in server.subs .. MaxSubs : server' = [server EXCEPT !.subs = subs]
    BY <1>11 DEF ChangeSubs
  <2>2. server \in ServerStates
    BY DEF TagsInv, PageTypeOK
  <2>3. subs \in 0 .. MaxSubs
    BY <2>1, <2>2, FormsAssumption DEF ServerStates
  <2>4. server' \in ServerStates /\ server'.xray = server.xray
    BY <2>1, <2>2, <2>3 DEF ServerStates
  <2> QED
    BY <1>11, <2>4 DEF ChangeSubs, Refetch, TagsInv, PageTypeOK, page
<1>12. CASE RivalStores
  <2>1. PICK t \in Stored : Stores(t)
    BY <1>12 DEF RivalStores
  <2>2. Sound(t)
    BY StoredSound
  <2>3. server' \in ServerStates /\ server'.xray = t
    BY <2>1, <2>2, StoresTyped DEF Sound
  <2> QED
    BY <1>12, <2>2, <2>3 DEF RivalStores, TagsInv, PageTypeOK, Sound, page
<1>13. {"direct", "blocked", "IPv4"} \subseteq OutboundTags /\ "domain" \in Lists
  BY TagsAssumption DEF Lists
<1> QED
  BY <1>1, <1>2, <1>3, <1>4, <1>5, <1>6, <1>7, <1>8, <1>9, <1>10, <1>11, <1>12, <1>13,
     EditsSound, OpeningTyped
     DEF PageNext

\* The page opens with the invariant.
LEMMA PageStarts == PageInit => TagsInv
<1> SUFFICES ASSUME PageInit PROVE TagsInv
  OBVIOUS
<1>1. PICK t \in Stored : /\ shown = t /\ text = t /\ old = t
                          /\ server = [xray |-> t, subs |-> 0, ver |-> 0]
  BY DEF PageInit
<1>2. Sound(t) /\ {0} \subseteq 0 .. MaxVer /\ {0} \subseteq 0 .. MaxSubs
      /\ {0} \subseteq 0 .. MaxEdits
  BY StoredSound, FormsAssumption
<1>3. server \in ServerStates /\ server.xray = t
  BY <1>1, <1>2 DEF ServerStates, Sound
<1>4. cached \in [xray : XrayTemplates, subs : 0 .. MaxSubs]
  BY <1>3 DEF PageInit, Compared, ServerStates
<1> QED
  BY <1>1, <1>2, <1>3, <1>4 DEF PageInit, TagsInv, PageTypeOK, Sound

\* Every edit, save and fetch leaves the page and the server with configurations of the
\* shape the schema has, for any forms and however long the lists are.
THEOREM PageTyped == PageSpec => []PageTypeOK
<1>1. PageInit => TagsInv
  BY PageStarts
<1>2. TagsInv => PageTypeOK
  BY DEF TagsInv
<1> QED
  BY <1>1, <1>2, TagsStep, PTL DEF PageSpec

-----------------------------------------------------------------------------
\* Where tags lead when a dialog gives a row another one.

\* In a template whose outbound tags are distinct a tag leads to the row that has it.
LEMMA PositionOf ==
  ASSUME NEW t \in XrayTemplates, Unique(t), NEW k \in DOMAIN t.outbounds
  PROVE  Position(t, t.outbounds[k].tag) = k
<1>1. Positions(t, t.outbounds[k].tag) = {k}
  BY DEF Unique
<1>2. k \in Nat
  BY SectionsTyped
<1> QED
  BY <1>1, <1>2 DEF Position

\* What led to an outbound leads to the same row after the dialog, whichever it was
\* opened on, if the tags are distinct before and after.
LEMMA OutboundLeads ==
  ASSUME NEW t \in XrayTemplates, NEW u \in XrayTemplates, NEW i \in Nat, i # 0,
         NEW form \in Outbounds, OutboundPlaced(t, u, i, form), Unique(t), Unique(u),
         NEW a, a # None, Position(t, a) # 0
  PROVE  Position(u, TagAfter(t, i, form, a)) = Position(t, a)
<1>1. PICK k \in DOMAIN t.outbounds : t.outbounds[k].tag = a
  BY DEF Position, Positions
<1>2. Position(t, a) = k
  BY <1>1, PositionOf
<1>3. k \in DOMAIN u.outbounds /\ u.outbounds[k].tag = TagAfter(t, i, form, a)
  <2>1. CASE k = i
    BY <1>1, <2>1 DEF OutboundPlaced, TagAfter, Swap
  <2>2. CASE k # i
    <3>1. k \in DOMAIN u.outbounds /\ u.outbounds[k].tag = a
      BY <1>1, <2>2 DEF OutboundPlaced
    <3>2. ASSUME i \in DOMAIN t.outbounds PROVE t.outbounds[i].tag # a
      BY <1>1, <2>2, <3>2 DEF Unique, Positions
    <3>3. TagAfter(t, i, form, a) = a
      BY <3>2 DEF TagAfter, Swap
    <3> QED
      BY <3>1, <3>3
  <2> QED
    BY <2>1, <2>2
<1> QED
  BY <1>2, <1>3, PositionOf

\* Only the confirmation of a dialog closes it and edits the template.
LEMMA ConfirmedBy ==
  ASSUME [PageNext]_pageVars, NEW kind \in Kinds, Confirmed(kind)
  PROVE  /\ kind = "outbound" => ConfirmOutbound
         /\ kind = "balancer" => ConfirmBalancer
<1>1. dialog # None /\ dialog.over = kind /\ ~ dialog.deleting /\ dialog' = None /\ edits' # edits
  BY DEF Confirmed, Open
<1>2. ~ UNCHANGED pageVars
  BY <1>1 DEF pageVars, page
<1>3. ~ Cancel
  BY <1>1 DEF Cancel
<1>4. ~ (\E x \in Kinds : OpenAdd(x) \/ OpenEdit(x) \/ AskDelete(x))
  BY <1>1 DEF OpenAdd, OpenEdit, AskDelete, Opened
<1>5. ~ DeleteOutbound /\ ~ DeleteRule /\ ~ DeleteBalancer
  BY <1>1 DEF DeleteOutbound, DeleteRule, DeleteBalancer, Open
<1>6. ~ MoveOutbound /\ ~ MoveRule /\ ~ ImportOutbounds /\ ~ ImportRules
      /\ ~ ResetDefault /\ ~ TypeText
  BY <1>1 DEF MoveOutbound, MoveRule, ImportOutbounds, ImportRules, ResetDefault,
              OnPage, TypeText
<1>7. \A tag, list, chosen : ~ SetList(tag, list, chosen)
  BY <1>1 DEF SetList, OnPage
<1>8. ~ DirtyPoll /\ ~ Save /\ ~ ServerStores /\ ~ SaveAnswered /\ ~ SaveFailed
      /\ ~ ServerReads /\ ~ FetchFails /\ ~ Refocus /\ ~ FetchLands /\ ~ ChangeSubs
      /\ ~ RivalStores
  BY <1>1 DEF DirtyPoll, Save, ServerStores, SaveAnswered, SaveFailed, ServerReads,
              FetchFails, Refocus, FetchLands, ChangeSubs, RivalStores, page
<1>9. ConfirmOutbound \/ ConfirmRule \/ ConfirmBalancer
  BY <1>2, <1>3, <1>4, <1>5, <1>6, <1>7, <1>8 DEF PageNext
<1> QED
  BY <1>1, <1>9 DEF ConfirmOutbound, ConfirmRule, ConfirmBalancer, Open

\* Whatever row the outbound dialog is confirmed for, references lead where they led.
LEMMA OutboundsKept ==
  ASSUME TagsInv, ConfirmOutbound, dialog.row # 0, Unique(shown), Unique(shown')
  PROVE  /\ \A i \in DOMAIN shown.rules :
              SameOutbound(shown.rules[i].out, shown'.rules[i].out)
         /\ \A i \in DOMAIN shown.balancers :
              /\ SameOutbound(shown.balancers[i].fallback, shown'.balancers[i].fallback)
              /\ \A p \in shown.balancers[i].picks :
                   \E q \in shown'.balancers[i].picks : SameOutbound(p, q)
         /\ \A i \in DOMAIN shown.outbounds \ {dialog.row} :
              SameOutbound(shown.outbounds[i].dialer, shown'.outbounds[i].dialer)
<1>1. PICK form \in OutboundForms :
        form.tag # None /\ shown' = WithOutbound(shown, dialog.row, form)
  BY DEF ConfirmOutbound, Edit
<1>2. form \in Outbounds /\ dialog.row \in Nat /\ shown \in XrayTemplates
  BY FormsAssumption DEF ConfirmOutbound, Open, TagsInv, PageTypeOK
<1>3. shown' \in XrayTemplates /\ OutboundPlaced(shown, shown', dialog.row, form)
  BY <1>1, <1>2, WithOutboundTyped
<1>4. ASSUME NEW a PROVE SameOutbound(a, TagAfter(shown, dialog.row, form, a))
  BY <1>2, <1>3, OutboundLeads DEF SameOutbound
<1> QED
  BY <1>3, <1>4 DEF OutboundPlaced

\* Whatever row the balancer dialog is confirmed for, the rules that led to a balancer do.
LEMMA BalancersKept ==
  ASSUME TagsInv, ConfirmBalancer, dialog.row # 0, NEW k \in DOMAIN shown.rules,
         shown.rules[k].bal # None
  PROVE  BalancersOf(shown, shown.rules[k].bal) \subseteq
           BalancersOf(shown', shown'.rules[k].bal)
<1> DEFINE list == shown.balancers
           i == dialog.row
           via == shown.rules[k].bal
           from == IF i \in DOMAIN list THEN list[i].tag ELSE None
<1>1. PICK form \in BalancerForms : shown' = WithBalancer(shown, i, form)
  BY DEF ConfirmBalancer, Edit
<1>2. /\ form \in Balancers /\ i \in Nat /\ shown \in XrayTemplates /\ Distinct(shown)
      /\ list \in Seq(BalancerRows)
  BY FormsAssumption, SectionsTyped DEF ConfirmBalancer, Open, TagsInv, PageTypeOK
<1>3. /\ shown'.balancers = Placed(list, i, form)
      /\ shown'.rules[k].bal = IF from \in {None, form.tag} THEN via
                               ELSE Swap(via, from, form.tag)
  BY <1>1, <1>2, WithBalancerTyped
<1>4. PICK at \in DOMAIN Placed(list, i, form) :
        /\ at = i
        /\ \A j \in DOMAIN Placed(list, i, form) :
             Placed(list, i, form)[j] =
               IF j = at THEN form ELSE IF j \in DOMAIN list THEN list[j] ELSE Hole
  BY <1>2, PlacedAt
<1>5. DOMAIN list \subseteq DOMAIN Placed(list, i, form)
  BY <1>2, PlacedAt
<1>6. ASSUME NEW j \in DOMAIN list, list[j].tag = via
      PROVE  /\ j \in DOMAIN shown'.balancers
             /\ shown'.balancers[j].tag = shown'.rules[k].bal
  <2>1. j \in DOMAIN shown'.balancers
        /\ shown'.balancers[j] = IF j = i THEN form ELSE list[j]
    BY <1>3, <1>4, <1>5
  <2>2. CASE j = i
    BY <1>3, <1>6, <2>1, <2>2 DEF Swap
  <2>3. CASE j # i
    <3>1. i \in DOMAIN list => list[i].tag # via
      BY <1>2, <1>6, <2>3 DEF Distinct
    <3>2. from # via
      BY <3>1
    <3> QED
      BY <1>3, <1>6, <2>1, <2>3, <3>2 DEF Swap
  <2> QED
    BY <2>2, <2>3
<1> QED
  BY <1>6 DEF BalancersOf

\* Confirming a dialog on any row, gone or not, redirects nothing; where outbounds are
\* concerned, as long as their tags are unique
\* (basics/helpers.ts:58-89, OutboundsTab.tsx:177-193, BalancersTab.tsx:153-184).
THEOREM TargetsFollow == PageSpec => TargetsKept
<1>1. PageInit => TagsInv
  BY PageStarts
<1> DEFINE Kept ==
      /\ Confirmed("outbound") /\ Unique(shown) /\ Unique(shown') =>
           /\ \A i \in DOMAIN shown.rules :
                SameOutbound(shown.rules[i].out, shown'.rules[i].out)
           /\ \A i \in DOMAIN shown.balancers :
                LET before == shown.balancers[i]
                    after == shown'.balancers[i]
                IN  /\ SameOutbound(before.fallback, after.fallback)
                    /\ \A p \in before.picks :
                         \E q \in after.picks : SameOutbound(p, q)
           /\ \A i \in DOMAIN shown.outbounds \ {dialog.row} :
                SameOutbound(shown.outbounds[i].dialer, shown'.outbounds[i].dialer)
      /\ Confirmed("balancer") =>
           \A i \in DOMAIN shown.rules : shown.rules[i].bal # None =>
             BalancersOf(shown, shown.rules[i].bal) \subseteq
               BalancersOf(shown', shown'.rules[i].bal)
<1>2. TagsInv /\ [PageNext]_pageVars => Kept
  <2> SUFFICES ASSUME TagsInv, [PageNext]_pageVars PROVE Kept
    OBVIOUS
  <2>1. ASSUME Confirmed("outbound"), Unique(shown), Unique(shown')
        PROVE  /\ \A i \in DOMAIN shown.rules :
                    SameOutbound(shown.rules[i].out, shown'.rules[i].out)
               /\ \A i \in DOMAIN shown.balancers :
                    /\ SameOutbound(shown.balancers[i].fallback, shown'.balancers[i].fallback)
                    /\ \A p \in shown.balancers[i].picks :
                         \E q \in shown'.balancers[i].picks : SameOutbound(p, q)
               /\ \A i \in DOMAIN shown.outbounds \ {dialog.row} :
                    SameOutbound(shown.outbounds[i].dialer, shown'.outbounds[i].dialer)
    <3>1. ConfirmOutbound /\ dialog.row # 0
      BY <2>1, ConfirmedBy DEF Confirmed, Kinds
    <3> QED
      BY <2>1, <3>1, OutboundsKept
  <2>2. ASSUME Confirmed("balancer"), NEW i \in DOMAIN shown.rules,
               shown.rules[i].bal # None
        PROVE  BalancersOf(shown, shown.rules[i].bal) \subseteq
                 BalancersOf(shown', shown'.rules[i].bal)
    <3>1. ConfirmBalancer /\ dialog.row # 0
      BY <2>2, ConfirmedBy DEF Confirmed, Kinds
    <3> QED
      BY <2>2, <3>1, BalancersKept
  <2> QED
    BY <2>1, <2>2
<1> QED
  BY <1>1, <1>2, TagsStep, PTL DEF PageSpec, TargetsKept
=============================================================================
