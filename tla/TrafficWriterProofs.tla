------------------------ MODULE TrafficWriterProofs ------------------------
(***************************************************************************)
(* For any numbers of submitters, controllers, writes and generations, and *)
(* any queue size: one writer at most, no submitter is abandoned, and what *)
(* a submitter is told is true.                                            *)
(***************************************************************************)
EXTENDS TrafficWriter, FiniteSetTheorems, TLAPS

USE SizesAssumption, FreeAssumption

\* What a submitter's state holds, by where it is.
LEMMA SubmitterHas ==
  ASSUME NEW s \in Submitters, TypeOK
  PROVE  /\ sub[s].n \in 0 .. MaxWrites
         /\ sub[s].pc # "idle" => Current(s) \in Writes
         /\ sub[s].pc \in {"blocked", "waiting"} => sub[s].gen \in Gens
<1>1. CASE sub[s] \in [pc : {"idle"}, n : 0 .. MaxWrites]
  BY <1>1
<1>2. CASE sub[s] \in [pc : {"asking", "applying"}, n : 1 .. MaxWrites]
  BY <1>2 DEF Current, Writes
<1>3. CASE sub[s] \in [pc : {"blocked", "waiting"}, n : 1 .. MaxWrites, gen : Gens]
  BY <1>3 DEF Current, Writes
<1> QED
  BY <1>1, <1>2, <1>3 DEF TypeOK, SubmitterStates

\* A goroutine that moves to another place with its count keeps its type.
LEMMA MoveType ==
  ASSUME NEW s \in Submitters, TypeOK
  PROVE  /\ sub[s].pc = "idle" /\ sub[s].n < MaxWrites =>
              [pc |-> "asking", n |-> sub[s].n + 1] \in SubmitterStates
         /\ [pc |-> "idle", n |-> sub[s].n] \in SubmitterStates
         /\ sub[s].pc = "asking" =>
              [sub[s] EXCEPT !.pc = "applying"] = [pc |-> "applying", n |-> sub[s].n]
         /\ sub[s].pc # "idle" =>
              /\ [pc |-> "applying", n |-> sub[s].n] \in SubmitterStates
              /\ \A g \in Gens, pc \in {"blocked", "waiting"} :
                   [pc |-> pc, n |-> sub[s].n, gen |-> g] \in SubmitterStates
<1>1. CASE sub[s] \in [pc : {"idle"}, n : 0 .. MaxWrites]
  BY <1>1 DEF SubmitterStates
<1>2. CASE sub[s] \in [pc : {"asking", "applying"}, n : 1 .. MaxWrites]
  BY <1>2 DEF SubmitterStates
<1>3. CASE sub[s] \in [pc : {"blocked", "waiting"}, n : 1 .. MaxWrites, gen : Gens]
  BY <1>3 DEF SubmitterStates
<1> QED
  BY <1>1, <1>2, <1>3 DEF TypeOK, SubmitterStates

\* What the writer holds, by where it is.
LEMMA WriterHas ==
  ASSUME NEW g \in Gens, TypeOK, writer[g].pc = "applying"
  PROVE  /\ writer[g].req \in Writes
         /\ writer[g].back \in {"select", "drain"}
BY DEF TypeOK, WriterStates

\* The mutex is kept by the submitter that is blocked, so a step that moves s
\* keeps this if it takes or releases the mutex as s blocks or goes on.
LEMMA MutexType ==
  ASSUME TypeOK, NEW s \in Submitters, NEW new,
         sub' = [sub EXCEPT ![s] = new], new \in SubmitterStates,
         \/ mu = "free" /\ mu' = (IF new.pc = "blocked" THEN s ELSE "free")
         \/ mu' = mu /\ sub[s].pc # "blocked" /\ new.pc # "blocked"
         \/ sub[s].pc = "blocked" /\ new.pc # "blocked" /\ mu' = "free"
  PROVE  /\ sub' \in [Submitters -> SubmitterStates]
         /\ mu' \in Submitters \cup {"free"}
         /\ \A t \in Submitters : mu' = t <=> sub'[t].pc = "blocked"
BY DEF TypeOK

\* A ready generation is one that was made.
LEMMA ReadyGen == TypeOK /\ Ready(tw) => tw \in Gens
BY DEF TypeOK, Ready, Gens

\* A controller's step keeps every type.
LEMMA ControlType ==
  ASSUME TypeOK, NEW k \in Controllers, Launch(k) \/ Stop(k) \/ Stopped(k)
  PROVE  TypeOK'
<1>1. CASE Launch(k)
  <2>1. starts + 1 \in Gens /\ [pc |-> "select"] \in WriterStates
    BY <1>1 DEF Launch, TypeOK, Gens, WriterStates
  <2> QED
    BY <1>1, <2>1 DEF Launch, TypeOK, effects
<1>2. CASE Stop(k)
  BY <1>2 DEF Stop, TypeOK, effects, Gens
<1>3. CASE Stopped(k)
  BY <1>3 DEF Stopped, TypeOK, effects
<1> QED
  BY <1>1, <1>2, <1>3

\* So does a submitter's step up to the queue,
LEMMA AskingType ==
  ASSUME TypeOK, NEW s \in Submitters, Ask(s) \/ Lock(s)
  PROVE  TypeOK'
<1>1. CASE Ask(s)
  BY <1>1, MoveType, MutexType DEF Ask, TypeOK, state, effects
<1>2. CASE GoDirect(s)
  BY <1>2, MoveType, MutexType DEF GoDirect, Asking, Goto, TypeOK, state, effects
<1>3. CASE Enqueue(s)
  <2> DEFINE new == [pc |-> "waiting", n |-> sub[s].n, gen |-> tw]
  <2>1. tw \in Gens /\ Current(s) \in Writes
    BY <1>3, ReadyGen, SubmitterHas DEF Enqueue, Asking
  <2>2. new \in SubmitterStates /\ sub' = [sub EXCEPT ![s] = new]
    BY <1>3, <2>1, MoveType DEF Enqueue, Asking, Wait
  <2>3. queue' \in [Gens -> Seq(Writes)]
    <3>1. queue \in [Gens -> Seq(Writes)] /\ queue[tw] \in Seq(Writes)
      BY <2>1 DEF TypeOK
    <3>2. Append(queue[tw], Current(s)) \in Seq(Writes)
      BY <2>1, <3>1
    <3> QED
      BY <1>3, <3>1, <3>2 DEF Enqueue, Wait
  <2> HIDE DEF new
  <2>4. /\ sub' \in [Submitters -> SubmitterStates]
        /\ mu' \in Submitters \cup {"free"}
        /\ \A t \in Submitters : mu' = t <=> sub'[t].pc = "blocked"
    BY <1>3, <2>2, MutexType DEF Enqueue, Asking, new
  <2> QED
    BY <1>3, <2>3, <2>4 DEF Enqueue, TypeOK, effects
<1>4. CASE Block(s)
  <2>1. tw \in Gens
    BY <1>4, ReadyGen DEF Block
  <2> QED
    BY <1>4, <2>1, MoveType, MutexType DEF Block, Asking, TypeOK, state, effects
<1> QED
  BY <1>1, <1>2, <1>3, <1>4 DEF Lock

\* its step from there on,
LEMMA ProceedType ==
  ASSUME TypeOK, NEW s \in Submitters, Proceed(s)
  PROVE  TypeOK'
<1>1. sub[s].pc # "idle" /\ Current(s) \in Writes
  BY SubmitterHas DEF Proceed, Unblock, GiveUp, Receive, ApplyDirect
<1>2. CASE Unblock(s)
  <2> DEFINE new == [pc |-> "waiting", n |-> sub[s].n, gen |-> sub[s].gen]
  <2>1. sub[s].gen \in Gens
    BY <1>2, SubmitterHas DEF Unblock
  <2>2. new \in SubmitterStates /\ sub' = [sub EXCEPT ![s] = new]
    BY <1>1, <1>2, <2>1, MoveType DEF Unblock, Wait
  <2>3. Append(queue[sub[s].gen], Current(s)) \in Seq(Writes)
    BY <1>1, <2>1 DEF TypeOK
  <2> HIDE DEF new
  <2>4. /\ sub' \in [Submitters -> SubmitterStates]
        /\ mu' \in Submitters \cup {"free"}
        /\ \A t \in Submitters : mu' = t <=> sub'[t].pc = "blocked"
    BY <1>2, <2>2, MutexType DEF Unblock, new
  <2> QED
    BY <1>2, <2>1, <2>3, <2>4 DEF Unblock, Wait, TypeOK, effects
<1>3. CASE GiveUp(s)
  BY <1>1, <1>3, MoveType, MutexType DEF GiveUp, Return, TypeOK, state, Told
<1>4. CASE Receive(s)
  BY <1>1, <1>4, MoveType, MutexType DEF Receive, Return, TypeOK, state, Told
<1>5. ASSUME NEW r \in {"ok", "error"}, ApplyDirect(s, r) PROVE TypeOK'
  <2>1. /\ sub' \in [Submitters -> SubmitterStates]
        /\ mu' \in Submitters \cup {"free"}
        /\ \A t \in Submitters : mu' = t <=> sub'[t].pc = "blocked"
    BY <1>5, MoveType, MutexType DEF ApplyDirect, Return
  <2>2. applied' \in [Writes -> Nat] /\ told' \in [Writes -> Told]
    BY <1>1, <1>5 DEF ApplyDirect, Outcome, Return, TypeOK, Told
  <2> QED
    BY <1>5, <2>1, <2>2 DEF ApplyDirect, TypeOK, state
<1> QED
  BY <1>2, <1>3, <1>4, <1>5 DEF Proceed

\* and the writer's.
LEMMA WriteType ==
  ASSUME TypeOK, NEW g \in Gens, Write(g)
  PROVE  TypeOK'
<1>1. CASE Take(g)
  <2>1. Head(queue[g]) \in Writes /\ Tail(queue[g]) \in Seq(Writes)
    BY <1>1 DEF Take, TypeOK
  <2>2. [pc |-> "applying", req |-> Head(queue[g]), back |-> writer[g].pc] \in WriterStates
    BY <1>1, <2>1 DEF Take, WriterStates
  <2> QED
    BY <1>1, <2>1, <2>2 DEF Take, TypeOK, effects
<1>2. ASSUME NEW r \in {"ok", "error"}, Apply(g, r) PROVE TypeOK'
  <2>1. writer[g].req \in Writes /\ [pc |-> writer[g].back] \in WriterStates
    BY <1>2, WriterHas DEF Apply, WriterStates
  <2> QED
    BY <1>2, <2>1 DEF Apply, Outcome, TypeOK
<1>3. CASE Cancelled(g)
  BY <1>3 DEF Cancelled, TypeOK, WriterStates, effects
<1>4. CASE Exit(g)
  BY <1>4 DEF Exit, Leave, TypeOK, WriterStates, effects
<1> QED
  BY <1>1, <1>2, <1>3, <1>4 DEF Write

\* Every step keeps every type.
LEMMA TypeStep == TypeOK /\ [Next]_vars => TypeOK'
<1>1. ASSUME TypeOK, UNCHANGED vars PROVE TypeOK'
  BY <1>1 DEF vars, state, effects, TypeOK
<1> QED
  BY <1>1, ControlType, AskingType, ProceedType, WriteType DEF Next, Start

\* Queue, mutex, writers and submitters always have their types.
THEOREM Typed == Spec => []TypeOK
<1>1. Init => TypeOK
  BY DEF Init, TypeOK, SubmitterStates, WriterStates, Told, Idle, Nobody, Gens
<1> QED
  BY <1>1, TypeStep, PTL DEF Spec
-----------------------------------------------------------------------------
\* One writer at most.

Active(g) == writer[g].pc \in {"select", "drain", "applying"}

\* What the generations are: the ones not made yet are blank, only the named one
\* has a running writer, a writer drains only when cancelled and leaves nothing
\* behind, and who waits for room waits for a writer that takes requests.
Generations ==
  /\ \A g \in Gens : g > starts => writer[g] = Nobody /\ queue[g] = <<>> /\ ~cancelled[g]
  /\ \A g \in Gens : Active(g) => g = tw
  /\ \A g \in Gens : writer[g].pc \in {"drain", "exited"} => cancelled[g]
  /\ \A g \in Gens : writer[g].pc = "applying" /\ writer[g].back = "drain" => cancelled[g]
  /\ \A g \in Gens : Closed(g) => queue[g] = <<>>
  /\ \A s \in Submitters : sub[s].pc = "blocked" => sub[s].gen = tw /\ Ready(tw)

\* A step of a controller keeps the generations as they should be.
LEMMA ControlGenerations ==
  ASSUME TypeOK, Generations, NEW k \in Controllers, Start(k) \/ Stop(k) \/ Stopped(k)
  PROVE  Generations'
<1>1. \A s \in Submitters : mu = "free" => sub[s].pc # "blocked"
  BY DEF TypeOK
<1>2. CASE Start(k)
  <2>1. tw # 0 => tw \in Gens
    BY DEF TypeOK, Gens
  <2>2. \A g \in Gens : ~Active(g)
    BY <1>2, <2>1 DEF Start, Closed, Generations, Active, Gens
  <2>3. starts \in Nat /\ writer \in [Gens -> WriterStates]
    BY DEF TypeOK
  <2> QED
    BY <1>1, <1>2, <2>2, <2>3
    DEF Start, Launch, Generations, Active, Closed, Ready, Gens, Nobody, effects
<1>3. CASE Stop(k)
  <2>1. /\ tw <= starts /\ starts \in Nat
        /\ \A g \in Gens : g \in Nat /\ (cancelled'[g] <=> cancelled[g] \/ g = tw)
    BY <1>3 DEF Stop, TypeOK, Gens
  <2>2. \A s \in Submitters : sub[s].pc # "blocked"
    BY <1>1, <1>3 DEF Stop
  <2> QED
    BY <1>3, <2>1, <2>2 DEF Stop, Generations, Active, Closed, effects
<1>4. CASE Stopped(k)
  <2>1. tw' # tw => Closed(tw)
    BY <1>4 DEF Stopped
  <2> QED
    BY <1>1, <1>4, <2>1 DEF Stopped, Generations, Active, Closed, Ready, effects
<1> QED
  BY <1>2, <1>3, <1>4

\* So does a submitter's,
LEMMA SubmitGenerations ==
  ASSUME TypeOK, Generations, NEW s \in Submitters, Ask(s) \/ Lock(s) \/ Proceed(s)
  PROVE  Generations'
<1>1. ASSUME NEW g \in Gens, Ready(g), g = tw, queue' = [queue EXCEPT ![g] = Append(@, Current(s))]
      PROVE  \A h \in Gens : /\ h > starts => queue'[h] = queue[h]
                             /\ Closed(h) => queue'[h] = queue[h]
  BY <1>1 DEF Ready, Generations, Closed, TypeOK, Gens
<1>2. CASE Ask(s)
  BY <1>2 DEF Ask, state, Generations, Active, Closed, Ready, TypeOK
<1>3. CASE GoDirect(s)
  BY <1>3 DEF GoDirect, Goto, Asking, state, Generations, Active, Closed, Ready, TypeOK
<1>4. CASE Enqueue(s)
  <2>1. tw \in Gens
    BY <1>4, ReadyGen DEF Enqueue
  <2>2. sub'[s].pc = "waiting" /\ \A t \in Submitters \ {s} : sub'[t] = sub[t]
    BY <1>4 DEF Enqueue, Wait, TypeOK
  <2> QED
    BY <1>1, <1>4, <2>1, <2>2 DEF Enqueue, Wait, Generations, Active, Closed, Ready
<1>5. CASE Block(s)
  BY <1>5 DEF Block, state, Generations, Active, Closed, Ready, TypeOK
<1>6. CASE Unblock(s)
  <2>1. sub[s].gen = tw /\ Ready(tw) /\ tw \in Gens
    BY <1>6, ReadyGen DEF Unblock, Generations
  <2>2. sub'[s].pc = "waiting" /\ \A t \in Submitters \ {s} : sub'[t] = sub[t]
    BY <1>6 DEF Unblock, Wait, TypeOK
  <2>3. \A h \in Gens : /\ h > starts => queue'[h] = queue[h]
                        /\ Closed(h) => queue'[h] = queue[h]
    BY <1>1, <1>6, <2>1 DEF Unblock, Wait
  <2>4. tw' = tw /\ starts' = starts /\ cancelled' = cancelled /\ writer' = writer
    BY <1>6 DEF Unblock
  <2> QED
    <3>1. \A t \in Submitters :
            sub'[t].pc = "blocked" => sub'[t].gen = tw' /\ Ready(tw)'
      BY <2>2, <2>4 DEF Generations, Ready
    <3>2. ASSUME NEW g \in Gens, g > starts
          PROVE  writer'[g] = Nobody /\ queue'[g] = <<>> /\ ~cancelled'[g]
      <4>1. writer[g] = Nobody /\ queue[g] = <<>> /\ ~cancelled[g]
        BY <3>2 DEF Generations
      <4>2. queue'[g] = queue[g]
        BY <2>3, <3>2, Zenon
      <4> QED
        BY <2>4, <4>1, <4>2, Zenon
    <3>3. \A g \in Gens : Closed(g)' => queue'[g] = <<>>
      BY <2>3, <2>4 DEF Generations, Closed
    <3>4. \A g \in Gens : Active(g)' => g = tw'
      BY <2>4 DEF Generations, Active
    <3> QED
      BY <2>4, <3>1, <3>2, <3>3, <3>4 DEF Generations
<1>7. ASSUME UNCHANGED state, sub' = [sub EXCEPT ![s] = [pc |-> "idle", n |-> @.n]]
      PROVE  Generations'
  BY <1>7 DEF state, Generations, Active, Closed, Ready, TypeOK
<1> QED
  BY <1>2, <1>3, <1>4, <1>5, <1>6, <1>7
  DEF Lock, Proceed, GiveUp, Receive, ApplyDirect, Return

\* and the writer's.
LEMMA WriteGenerations ==
  ASSUME TypeOK, Generations, NEW g \in Gens, Write(g)
  PROVE  Generations'
<1>1. CASE Take(g)
  <2>1. g <= starts
    BY <1>1 DEF Take, Generations, TypeOK, Gens
  <2> QED
    BY <1>1, <2>1 DEF Take, Generations, Active, Closed, Ready, TypeOK, Gens, effects
<1>2. ASSUME NEW r \in {"ok", "error"}, Apply(g, r) PROVE Generations'
  <2>1. g <= starts
    BY <1>2 DEF Apply, Generations, TypeOK, Gens, Nobody
  <2>2. writer[g].back \in {"select", "drain"}
    BY <1>2, WriterHas DEF Apply
  <2> QED
    BY <1>2, <2>1, <2>2 DEF Apply, Generations, Active, Closed, Ready, TypeOK, Gens
<1>3. CASE Cancelled(g)
  <2>1. writer[g] # Nobody
    BY <1>3 DEF Cancelled, Nobody
  <2>2. /\ writer'[g] = [pc |-> "drain"]
        /\ \A h \in Gens \ {g} : writer'[h] = writer[h]
    BY <1>3 DEF Cancelled, TypeOK
  <2> QED
    BY <1>3, <2>1, <2>2 DEF Cancelled, Generations, Active, Closed, Ready, effects
<1>4. CASE Exit(g)
  <2>1. g <= starts
    <3>1. writer[g] # Nobody
      BY <1>4 DEF Exit, Leave, Nobody
    <3> QED
      BY <3>1 DEF Generations, TypeOK, Gens
  <2> QED
    BY <1>4, <2>1 DEF Exit, Leave, Generations, Active, Closed, Ready, TypeOK, Gens, effects
<1> QED
  BY <1>1, <1>2, <1>3, <1>4 DEF Write

\* The generations are as they should be after every step.
LEMMA GenerationsStep == TypeOK /\ Generations /\ [Next]_vars => Generations'
<1>1. ASSUME Generations, UNCHANGED vars PROVE Generations'
  BY <1>1 DEF vars, state, Generations, Active, Closed, Ready
<1> QED
  BY <1>1, ControlGenerations, SubmitGenerations, WriteGenerations DEF Next

\* One goroutine at most serves the writer, however it is started and stopped.
THEOREM AtMostOneWriter == Spec => []OneWriter
<1>1. Init => TypeOK
  BY DEF Init, TypeOK, SubmitterStates, WriterStates, Told, Idle, Nobody, Gens
<1>2. Init => Generations
  BY DEF Init, Generations, Active, Closed, Nobody, Gens
<1>3. TypeOK /\ Generations => OneWriter
  <2>1. ASSUME TypeOK, NEW g \in Gens PROVE writer[g].pc \in {"none", "exited"} \/ Active(g)
    <3>1. writer[g] \in WriterStates
      BY <2>1 DEF TypeOK
    <3> QED
      BY <3>1 DEF WriterStates, Active
  <2> QED
    BY <2>1 DEF Generations, OneWriter
<1> QED
  BY <1>1, <1>2, <1>3, TypeStep, GenerationsStep, PTL DEF Spec
-----------------------------------------------------------------------------
\* Nobody is abandoned, and what a submitter is told is true.

Elems(q) == {q[i] : i \in 1 .. Len(q)}
Distinct(q) == \A i, j \in 1 .. Len(q) : q[i] = q[j] => i = j

\* What a new element at the end of a queue changes.
LEMMA AppendElems ==
  ASSUME NEW S, NEW q \in Seq(S), NEW e \in S
  PROVE  /\ Elems(Append(q, e)) = Elems(q) \cup {e}
         /\ Distinct(q) /\ e \notin Elems(q) => Distinct(Append(q, e))
<1> DEFINE a == Append(q, e)
<1>1. /\ Len(a) = Len(q) + 1 /\ Len(q) \in Nat
      /\ \A i \in 1 .. Len(q) : a[i] = q[i]
      /\ a[Len(q) + 1] = e
  OBVIOUS
<1> HIDE DEF a
<1> SUFFICES /\ Elems(a) = Elems(q) \cup {e}
             /\ Distinct(q) /\ e \notin Elems(q) => Distinct(a)
  BY DEF a
<1>2. \A i : i \in 1 .. Len(a) <=> i \in 1 .. Len(q) \/ i = Len(q) + 1
  BY <1>1
<1> QED
  BY <1>1, <1>2 DEF Elems, Distinct

\* What the removal of its first element changes.
LEMMA TailElems ==
  ASSUME NEW S, NEW q \in Seq(S), q # <<>>
  PROVE  /\ Elems(q) = Elems(Tail(q)) \cup {Head(q)}
         /\ Distinct(q) => Distinct(Tail(q)) /\ Head(q) \notin Elems(Tail(q))
<1> DEFINE r == Tail(q)
<1>1. /\ Len(q) = Len(r) + 1 /\ Len(r) \in Nat
      /\ \A i \in 1 .. Len(r) : r[i] = q[i + 1]
      /\ Head(q) = q[1]
  OBVIOUS
<1> HIDE DEF r
<1>2. 1 \in 1 .. Len(q) /\ \A j \in 1 .. Len(r) : j + 1 \in 1 .. Len(q)
  BY <1>1
<1>3. Elems(q) = Elems(r) \cup {Head(q)}
  <2>1. \A i \in 1 .. Len(q) : i = 1 \/ (i - 1 \in 1 .. Len(r) /\ r[i - 1] = q[i])
    BY <1>1
  <2>2. Elems(q) \subseteq Elems(r) \cup {Head(q)}
    BY <1>1, <2>1 DEF Elems
  <2>3. Elems(r) \cup {Head(q)} \subseteq Elems(q)
    BY <1>1, <1>2 DEF Elems
  <2> QED
    BY <2>2, <2>3
<1>4. ASSUME Distinct(q) PROVE Distinct(r) /\ Head(q) \notin Elems(r)
  <2>1. \A i \in 1 .. Len(r) : i + 1 \in 1 .. Len(q) /\ i + 1 # 1
    BY <1>1
  <2>2. 1 \in 1 .. Len(q)
    BY <1>1
  <2>3. Distinct(r)
    BY <1>1, <1>4, <2>1 DEF Distinct
  <2>4. Head(q) \notin Elems(r)
    BY <1>1, <1>4, <2>1, <2>2 DEF Distinct, Elems
  <2> QED
    BY <2>3, <2>4
<1> QED
  BY <1>3, <1>4 DEF r

InHand(w, g) == writer[g].pc = "applying" /\ writer[g].req = w
WaitsFor(w, g) ==
  LET s == w[1] IN sub[s].pc = "waiting" /\ sub[s].n = w[2] /\ sub[s].gen = g

\* A request is pending in the generation its submitter waits for, once, without
\* an answer so far.
Pending ==
  \A g \in Gens :
    /\ Distinct(queue[g])
    /\ \A w \in Writes :
         /\ w \in Elems(queue[g]) => ~InHand(w, g)
         /\ w \in Elems(queue[g]) \/ InHand(w, g) => WaitsFor(w, g) /\ reply[w] = "none"

\* Who waits has an answer or a pending request.
Served ==
  \A s \in Submitters :
    sub[s].pc = "waiting" =>
      \/ reply[Current(s)] # "none"
      \/ Current(s) \in Elems(queue[sub[s].gen])
      \/ InHand(Current(s), sub[s].gen)

Returned(w) == LET s == w[1] IN w[2] < sub[s].n \/ (w[2] = sub[s].n /\ sub[s].pc = "idle")
Waiting(w) == LET s == w[1] IN w[2] = sub[s].n /\ sub[s].pc = "waiting"

\* A write has the effect that was reported; before a report there is none.
Counted ==
  \A w \in Writes :
    /\ ~Returned(w) => told[w] = "none"
    /\ ~Returned(w) /\ ~Waiting(w) => reply[w] = "none"
    /\ told[w] = "none" => applied[w] = (IF reply[w] = "ok" THEN 1 ELSE 0)
    /\ told[w] # "none" => applied[w] = (IF told[w] = "ok" THEN 1 ELSE 0)

Answers == Pending /\ Served /\ Counted /\ NeverAbandoned
-----------------------------------------------------------------------------

\* A write is its submitter and a number.
LEMMA WriteIs ==
  ASSUME NEW w \in Writes
  PROVE  w[1] \in Submitters /\ w[2] \in 1 .. MaxWrites /\ w = <<w[1], w[2]>>
BY DEF Writes

\* A request that gets into a queue is new there, and its submitter waits for it.
LEMMA QueuedAnswers ==
  ASSUME TypeOK, Answers, NEW s \in Submitters, NEW g \in Gens,
         sub[s].pc \in {"asking", "blocked"}, Wait(s, g),
         UNCHANGED <<writer, effects>>
  PROVE  Answers'
<1> DEFINE c == Current(s)
<1>1. /\ c \in Writes /\ c[1] = s /\ c[2] = sub[s].n /\ sub[s].n \in Nat
      /\ \A w \in Writes : w # c => w[1] # s \/ w[2] # sub[s].n
  BY SubmitterHas, WriteIs DEF Current
<1>2. /\ sub'[s].pc = "waiting" /\ sub'[s].n = sub[s].n /\ sub'[s].gen = g
      /\ \A t \in Submitters : t # s => sub'[t] = sub[t]
      /\ \A t \in Submitters : Current(t)' = Current(t)
  BY DEF Wait, TypeOK, Current
<1>3. /\ \A h \in Gens : c \notin Elems(queue[h]) /\ ~InHand(c, h)
      /\ reply[c] = "none"
  BY <1>1 DEF Answers, Pending, WaitsFor, Counted, Returned, Waiting
<1>4. /\ Elems(queue'[g]) = Elems(queue[g]) \cup {c}
      /\ Distinct(queue'[g])
      /\ \A h \in Gens : h # g => queue'[h] = queue[h]
  <2>1. queue[g] \in Seq(Writes) /\ queue'[g] = Append(queue[g], c)
    BY DEF TypeOK, Wait
  <2>2. \A h \in Gens : h # g => queue'[h] = queue[h]
    BY DEF TypeOK, Wait
  <2>3. Distinct(queue[g]) /\ c \notin Elems(queue[g])
    BY <1>3 DEF Answers, Pending
  <2> HIDE DEF c
  <2> QED
    BY <1>1, <2>1, <2>2, <2>3, AppendElems
<1> HIDE DEF c
<1>5. Pending'
  BY <1>1, <1>2, <1>3, <1>4, WriteIs DEF Answers, Pending, WaitsFor, InHand, effects
<1>6. Served'
  BY <1>1, <1>2, <1>4, SubmitterHas DEF Answers, Served, InHand, effects, c
<1>7. Counted' /\ NeverAbandoned'
  BY <1>1, <1>2, WriteIs
  DEF Answers, Counted, Returned, Waiting, NeverAbandoned, effects
<1> QED
  BY <1>5, <1>6, <1>7 DEF Answers

\* A submitter that moves without an effect, to or from anywhere but the queue.
LEMMA QuietAnswers ==
  ASSUME TypeOK, Answers, NEW s \in Submitters, NEW new,
         sub' = [sub EXCEPT ![s] = new],
         sub[s].pc # "waiting", new.pc \notin {"waiting", "idle"},
         new.n = (IF sub[s].pc = "idle" THEN sub[s].n + 1 ELSE sub[s].n),
         UNCHANGED <<queue, writer, effects>>
  PROVE  Answers'
<1>1. /\ sub'[s] = new /\ sub[s].n \in Nat
      /\ \A t \in Submitters : t # s => sub'[t] = sub[t]
      /\ \A t \in Submitters : t # s => Current(t)' = Current(t)
  <2>1. sub'[s] = new /\ \A t \in Submitters : t # s => sub'[t] = sub[t]
    BY DEF TypeOK
  <2>2. sub[s].n \in Nat
    BY SubmitterHas
  <2>3. \A t \in Submitters : t # s => Current(t)' = Current(t)
    BY <2>1 DEF Current
  <2> QED
    BY <2>1, <2>2, <2>3
<1>2. Pending'
  BY <1>1, WriteIs DEF Answers, Pending, WaitsFor, InHand, effects
<1>3. Served'
  BY <1>1 DEF Answers, Served, InHand, effects
<1>4. Counted' /\ NeverAbandoned'
  BY <1>1, WriteIs DEF Answers, Counted, Returned, Waiting, NeverAbandoned, effects
<1> QED
  BY <1>2, <1>3, <1>4 DEF Answers

\* A submitter that returns reports what happened to its write.
LEMMA ReturnAnswers ==
  ASSUME TypeOK, Answers, NEW s \in Submitters, NEW result \in Told \ {"none", "stopped"},
         sub[s].pc # "idle", Return(s, result),
         \/ sub[s].pc = "waiting" /\ reply[Current(s)] = result /\ applied' = applied
         \/ sub[s].pc # "waiting" /\ result # "ok" /\ applied' = applied
         \/ sub[s].pc # "waiting" /\ Outcome(Current(s), result),
         UNCHANGED <<queue, writer, reply>>
  PROVE  Answers'
<1> DEFINE c == Current(s)
<1>1. /\ c \in Writes /\ c[1] = s /\ c[2] = sub[s].n /\ sub[s].n \in Nat
      /\ \A w \in Writes : w # c => w[1] # s \/ w[2] # sub[s].n
  BY SubmitterHas, WriteIs DEF Current
<1>2. /\ sub'[s].pc = "idle" /\ sub'[s].n = sub[s].n
      /\ \A t \in Submitters : t # s => sub'[t] = sub[t]
      /\ \A t \in Submitters : Current(t)' = Current(t)
  BY DEF Return, TypeOK, Current
<1>3. told[c] = "none" /\ applied[c] = (IF reply[c] = "ok" THEN 1 ELSE 0)
  BY <1>1 DEF Answers, Counted, Returned
<1>4. /\ told'[c] = result /\ \A w \in Writes : w # c => told'[w] = told[w]
      /\ applied'[c] = (IF result = "ok" THEN 1 ELSE 0)
      /\ \A w \in Writes : w # c => applied'[w] = applied[w]
  <2>1. told'[c] = result /\ \A w \in Writes : w # c => told'[w] = told[w]
    BY <1>1 DEF Return, TypeOK
  <2>2. sub[s].pc # "waiting" => reply[c] = "none"
    BY <1>1 DEF Answers, Counted, Returned, Waiting
  <2>3. /\ applied'[c] = (IF result = "ok" THEN 1 ELSE 0)
        /\ \A w \in Writes : w # c => applied'[w] = applied[w]
    BY <1>1, <1>3, <2>2 DEF Outcome, TypeOK
  <2> QED
    BY <2>1, <2>3
<1>5. \A h \in Gens : c \notin Elems(queue[h]) /\ ~InHand(c, h)
  BY <1>1, <1>3 DEF Answers, Pending, WaitsFor, Counted, Returned, Waiting
<1> HIDE DEF c
<1>6. Pending'
  BY <1>1, <1>2, <1>5, WriteIs DEF Answers, Pending, WaitsFor, InHand
<1>7. Served'
  BY <1>2 DEF Answers, Served, InHand
<1>8. Counted' /\ NeverAbandoned'
  BY <1>1, <1>2, <1>4, WriteIs
  DEF Answers, Counted, Returned, Waiting, NeverAbandoned, Told
<1> QED
  BY <1>6, <1>7, <1>8 DEF Answers
\* A submitter's step keeps the answers right,
LEMMA SubmitAnswers ==
  ASSUME TypeOK, Generations, Answers, NEW s \in Submitters,
         Ask(s) \/ Lock(s) \/ Proceed(s)
  PROVE  Answers'
<1>1. CASE Ask(s)
  BY <1>1, QuietAnswers DEF Ask, state
<1>2. CASE GoDirect(s)
  <2>1. sub' = [sub EXCEPT ![s] = [pc |-> "applying", n |-> sub[s].n]]
    BY <1>2, MoveType DEF GoDirect, Asking, Goto
  <2> QED
    BY <1>2, <2>1, QuietAnswers DEF GoDirect, Asking, state
<1>3. CASE Enqueue(s)
  BY <1>3, ReadyGen, QueuedAnswers DEF Enqueue, Asking
<1>4. CASE Block(s)
  BY <1>4, QuietAnswers DEF Block, Asking, state
<1>5. CASE Unblock(s)
  BY <1>5, SubmitterHas, QueuedAnswers DEF Unblock
<1>6. CASE GiveUp(s)
  BY <1>6, ReturnAnswers DEF GiveUp, state, Told
<1>7. CASE Receive(s)
  <2>1. sub[s].gen \in Gens /\ Current(s) \in Writes
    BY <1>7, SubmitterHas DEF Receive
  <2>2. reply[Current(s)] # "none"
    <3>1. ASSUME Closed(sub[s].gen) PROVE reply[Current(s)] # "none"
      <4>1. queue[sub[s].gen] = <<>> /\ ~InHand(Current(s), sub[s].gen)
        BY <2>1, <3>1 DEF Generations, Closed, InHand
      <4> QED
        BY <1>7, <4>1 DEF Receive, Answers, Served, Elems
    <3> QED
      BY <1>7, <3>1 DEF Receive
  <2>3. reply[Current(s)] \in Told \ {"none", "stopped"} /\ Return(s, reply[Current(s)])
    BY <1>7, <2>1, <2>2 DEF Receive, TypeOK, Told
  <2> QED
    BY <1>7, <2>3, ReturnAnswers DEF Receive, state
<1>8. ASSUME NEW r \in {"ok", "error"}, ApplyDirect(s, r) PROVE Answers'
  BY <1>8, ReturnAnswers DEF ApplyDirect, state, Told
<1> QED
  BY <1>1, <1>2, <1>3, <1>4, <1>5, <1>6, <1>7, <1>8 DEF Lock, Proceed

\* so does a writer that starts, notices the cancellation or ends,
LEMMA IdleAnswers ==
  ASSUME TypeOK, Answers, NEW g \in Gens, NEW new,
         writer' = [writer EXCEPT ![g] = new],
         writer[g].pc # "applying", new.pc # "applying",
         UNCHANGED <<queue, sub, effects>>
  PROVE  Answers'
<1>2. \A w \in Writes, h \in Gens : InHand(w, h)' <=> InHand(w, h)
  BY DEF InHand, TypeOK
<1>3. Pending'
  BY <1>2 DEF Answers, Pending, WaitsFor, effects
<1>4. Served'
  BY <1>2, SubmitterHas DEF Answers, Served, Current, effects
<1>5. Counted' /\ NeverAbandoned'
  BY DEF Answers, Counted, Returned, Waiting, NeverAbandoned, effects
<1> QED
  BY <1>3, <1>4, <1>5 DEF Answers

\* one that takes a request,
LEMMA TakeAnswers ==
  ASSUME TypeOK, Answers, NEW g \in Gens, Take(g)
  PROVE  Answers'
<1> DEFINE c == Head(queue[g])
<1>1. /\ Elems(queue[g]) = Elems(queue'[g]) \cup {c} /\ c \notin Elems(queue'[g])
      /\ Distinct(queue'[g])
      /\ \A h \in Gens : h # g => queue'[h] = queue[h]
  <2>1. queue[g] \in Seq(Writes) /\ queue[g] # <<>> /\ queue'[g] = Tail(queue[g])
    BY DEF Take, TypeOK
  <2>2. Distinct(queue[g]) /\ \A h \in Gens : h # g => queue'[h] = queue[h]
    BY DEF Take, TypeOK, Answers, Pending
  <2> QED
    BY <2>1, <2>2, TailElems
<1>2. /\ \A w \in Writes : ~InHand(w, g) /\ (InHand(w, g)' <=> w = c)
      /\ \A w \in Writes, h \in Gens : h # g => (InHand(w, h)' <=> InHand(w, h))
  BY DEF Take, InHand, TypeOK
<1> HIDE DEF c
<1>3. Pending'
  BY <1>1, <1>2 DEF Take, Answers, Pending, WaitsFor, effects
<1>4. Served'
  BY <1>1, <1>2, SubmitterHas DEF Take, Answers, Served, Current, effects
<1>5. Counted' /\ NeverAbandoned'
  BY DEF Take, Answers, Counted, Returned, Waiting, NeverAbandoned, effects
<1> QED
  BY <1>3, <1>4, <1>5 DEF Answers

\* and one that applies it and answers.
LEMMA ApplyAnswers ==
  ASSUME TypeOK, Answers, NEW g \in Gens, NEW r \in {"ok", "error"}, Apply(g, r)
  PROVE  Answers'
<1> DEFINE c == writer[g].req
<1>1. c \in Writes /\ InHand(c, g)
  BY WriterHas DEF Apply, InHand
<1>2. /\ WaitsFor(c, g) /\ reply[c] = "none" /\ ~Returned(c) /\ told[c] = "none"
      /\ applied[c] = 0
  <2>1. WaitsFor(c, g) /\ reply[c] = "none"
    BY <1>1 DEF Answers, Pending
  <2>2. ~Returned(c)
    BY <1>1, <2>1, WriteIs DEF WaitsFor, Returned
  <2> QED
    BY <1>1, <2>1, <2>2 DEF Answers, Counted
<1>3. /\ reply'[c] = r /\ applied'[c] = (IF r = "ok" THEN 1 ELSE 0)
      /\ \A w \in Writes : w # c => reply'[w] = reply[w] /\ applied'[w] = applied[w]
  BY <1>1, <1>2 DEF Apply, Outcome, TypeOK
<1>4. /\ \A w \in Writes : ~InHand(w, g)' /\ (InHand(w, g) <=> w = c)
      /\ \A w \in Writes, h \in Gens : h # g => (InHand(w, h)' <=> InHand(w, h))
  BY <1>1, WriterHas DEF Apply, InHand, TypeOK
<1>5. \A h \in Gens : c \notin Elems(queue[h]) /\ (InHand(c, h) => h = g)
  BY <1>1, <1>2 DEF Answers, Pending, WaitsFor
<1> HIDE DEF c
<1>6. Pending'
  BY <1>1, <1>3, <1>4, <1>5 DEF Apply, Answers, Pending, WaitsFor
<1>7. Served'
  BY <1>1, <1>3, <1>4, SubmitterHas DEF Apply, Answers, Served, Current
<1>8. Counted' /\ NeverAbandoned'
  BY <1>1, <1>2, <1>3, WriteIs
  DEF Apply, Answers, Counted, Returned, Waiting, NeverAbandoned, WaitsFor
<1> QED
  BY <1>6, <1>7, <1>8 DEF Answers

\* The answers depend on nothing else than requests, goroutines and effects.
LEMMA UnmovedAnswers ==
  ASSUME Answers, UNCHANGED <<queue, writer, sub, effects>>
  PROVE  Answers'
<1>1. Pending'
  BY DEF effects, Answers, Pending, InHand, WaitsFor
<1>2. Served'
  BY DEF effects, Answers, Served, InHand, Current
<1>3. Counted'
  BY DEF effects, Answers, Counted, Returned, Waiting
<1>4. NeverAbandoned'
  BY DEF effects, Answers, NeverAbandoned
<1> QED
  BY <1>1, <1>2, <1>3, <1>4 DEF Answers

\* Every step keeps the answers right.
LEMMA AnswersStep == TypeOK /\ Generations /\ Answers /\ [Next]_vars => Answers'
<1> SUFFICES ASSUME TypeOK, Generations, Answers, [Next]_vars PROVE Answers'
  OBVIOUS
<1>1. CASE UNCHANGED vars
  <2>1. UNCHANGED <<queue, writer, sub, effects>>
    BY <1>1 DEF vars, state
  <2> QED
    BY <2>1, UnmovedAnswers
<1>2. ASSUME NEW k \in Controllers, Start(k) PROVE Answers'
  <2>1. starts + 1 \in Gens /\ writer[starts + 1] = Nobody
    <3>1. starts + 1 \in Gens /\ starts + 1 > starts
      BY <1>2 DEF Start, Launch, TypeOK, Gens
    <3> QED
      BY <3>1 DEF Generations
  <2>2. /\ writer' = [writer EXCEPT ![starts + 1] = [pc |-> "select"]]
        /\ UNCHANGED <<queue, sub, effects>>
    BY <1>2 DEF Start, Launch
  <2>3. writer[starts + 1].pc # "applying" /\ [pc |-> "select"].pc # "applying"
    BY <2>1 DEF Nobody
  <2> QED
    BY <2>1, <2>2, <2>3, IdleAnswers
<1>3. ASSUME NEW k \in Controllers, Stop(k) \/ Stopped(k) PROVE Answers'
  <2>1. Stop(k) => UNCHANGED <<queue, writer, sub, effects>>
    BY DEF Stop
  <2>2. Stopped(k) => UNCHANGED <<queue, writer, sub, effects>>
    BY DEF Stopped
  <2>3. UNCHANGED <<queue, writer, sub, effects>>
    BY <1>3, <2>1, <2>2
  <2> QED
    BY <2>3, UnmovedAnswers
<1>4. ASSUME NEW g \in Gens, Cancelled(g) \/ Exit(g) PROVE Answers'
  BY <1>4, IdleAnswers DEF Cancelled, Exit, Leave
<1> QED
  BY <1>1, <1>2, <1>3, <1>4, SubmitAnswers, TakeAnswers, ApplyAnswers DEF Next, Write

\* The strengthening that is inductive holds always.
LEMMA AlwaysAnswers == Spec => [](TypeOK /\ Generations /\ Answers)
<1>1. Init => TypeOK
  BY DEF Init, TypeOK, SubmitterStates, WriterStates, Told, Idle, Nobody, Gens
<1>2. Init => Generations
  BY DEF Init, Generations, Active, Closed, Nobody, Gens
<1>3. Init => Answers
  BY WriteIs DEF Init, Answers, Pending, Served, Counted, NeverAbandoned, InHand, Elems,
              Distinct, Nobody, Returned, Waiting, WaitsFor, Gens
<1> QED
  BY <1>1, <1>2, <1>3, TypeStep, GenerationsStep, AnswersStep, PTL DEF Spec

\* Nobody is told that the writer stopped before the write.
THEOREM NobodyAbandoned == Spec => []NeverAbandoned
<1>1. Answers => NeverAbandoned
  BY DEF Answers
<1> QED
  BY <1>1, AlwaysAnswers, PTL

\* Whoever submits is told exactly what happened to the write.
THEOREM AnswersAreTrue == Spec => []AnswerIsTrue
<1>1. Answers => AnswerIsTrue
  BY DEF Answers, Counted, AnswerIsTrue
<1> QED
  BY <1>1, AlwaysAnswers, PTL

-----------------------------------------------------------------------------
\* Until somebody stops the writer there is one, so nobody applies a write himself.

Steady == \A g \in Gens : ~cancelled[g]

NoDetour ==
  /\ \A s \in Submitters : sub[s].pc # "idle" => starts > 0
  /\ \A k \in Controllers : ctl[k].pc = "stopping" => cancelled[ctl[k].gen]
  /\ Steady => /\ starts > 0 => tw # 0
               /\ \A s \in Submitters : sub[s].pc # "applying"

LEMMA NoDetourStep == TypeOK /\ NoDetour /\ [Next]_vars => NoDetour'
<1> SUFFICES ASSUME TypeOK, NoDetour, [Next]_vars PROVE NoDetour'
  OBVIOUS
<1>1. CASE UNCHANGED vars
  BY <1>1 DEF vars, state, NoDetour, Steady
<1>2. ASSUME NEW k \in Controllers, Start(k) PROVE NoDetour'
  BY <1>2 DEF Start, Launch, NoDetour, Steady, TypeOK
<1>3. ASSUME NEW k \in Controllers, Stop(k) PROVE NoDetour'
  <2>1. /\ tw \in Gens /\ cancelled'[tw] /\ ctl'[k] = [pc |-> "stopping", gen |-> tw]
        /\ \A g \in Gens : cancelled[g] => cancelled'[g]
        /\ \A j \in Controllers : j # k => ctl'[j] = ctl[j]
        /\ sub' = sub /\ starts' = starts
    BY <1>3 DEF Stop, TypeOK, Gens
  <2>2. \A j \in Controllers : ctl[j].pc = "stopping" => ctl[j].gen \in Gens
    BY DEF TypeOK, Idle
  <2> QED
    BY <2>1, <2>2 DEF NoDetour, Steady
<1>4. ASSUME NEW k \in Controllers, Stopped(k) PROVE NoDetour'
  <2>1. /\ ctl[k].pc = "stopping" /\ ctl[k].gen \in Gens /\ cancelled' = cancelled
        /\ ctl'[k].pc = "idle"
        /\ \A j \in Controllers : j # k => ctl'[j] = ctl[j]
        /\ sub' = sub /\ starts' = starts
    BY <1>4 DEF Stopped, TypeOK, Idle
  <2>2. ~Steady'
    BY <2>1 DEF NoDetour, Steady
  <2> QED
    BY <2>1, <2>2 DEF NoDetour
<1>5. ASSUME NEW s \in Submitters, Ask(s) \/ Lock(s) \/ Proceed(s) PROVE NoDetour'
  <2>1. /\ UNCHANGED <<tw, starts, cancelled, ctl>>
        /\ \A r \in Submitters : r # s => sub'[r] = sub[r]
    BY <1>5 DEF Ask, Lock, Proceed, GoDirect, Enqueue, Block, Unblock, GiveUp, Receive,
                ApplyDirect, Wait, Return, Goto, Outcome, state, TypeOK
  <2>2. starts > 0
    BY <1>5 DEF Ask, Lock, Proceed, GoDirect, Enqueue, Block, Unblock, GiveUp, Receive,
                ApplyDirect, Asking, NoDetour
  <2>3. ASSUME Steady PROVE sub'[s].pc # "applying"
    <3>1. tw \in Gens /\ Ready(tw)
      BY <2>2, <2>3 DEF NoDetour, Steady, Ready, TypeOK, Gens
    <3> QED
      BY <1>5, <3>1 DEF Ask, Lock, Proceed, GoDirect, Enqueue, Block, Unblock, GiveUp,
                        Receive, ApplyDirect, Wait, Return, TypeOK
  <2> QED
    BY <2>1, <2>2, <2>3 DEF NoDetour, Steady
<1>6. ASSUME NEW g \in Gens, Write(g) PROVE NoDetour'
  BY <1>6 DEF Write, Take, Cancelled, Exit, Leave, Apply, NoDetour, Steady
<1> QED
  BY <1>1, <1>2, <1>3, <1>4, <1>5, <1>6 DEF Next

\* "It can never execute concurrently with the traffic poll": until somebody stops the
\* writer, one traffic write is applied at a time, for any numbers of goroutines.
THEOREM SerialisedWhileRunning == Spec => []SerialisedUntilStopped
<1>1. Init => TypeOK
  BY DEF Init, TypeOK, SubmitterStates, WriterStates, Told, Idle, Nobody, Gens
<1>2. Init => Generations
  BY DEF Init, Generations, Active, Closed, Nobody, Gens
<1>3. Init => NoDetour
  BY DEF Init, NoDetour, Idle
<1>4. Generations /\ NoDetour => SerialisedUntilStopped
  <2> SUFFICES ASSUME Generations, NoDetour, Steady PROVE Cardinality(Applying) <= 1
    BY DEF SerialisedUntilStopped, Serialised, Steady
  <2>1. Applying \subseteq {<<"writer", tw>>}
    BY DEF Applying, Generations, Active, NoDetour
  <2>2. IsFiniteSet({<<"writer", tw>>}) /\ Cardinality({<<"writer", tw>>}) = 1
    BY FS_Singleton
  <2> QED
    BY <2>1, <2>2, FS_Subset
<1> QED
  BY <1>1, <1>2, <1>3, <1>4, TypeStep, GenerationsStep, NoDetourStep, PTL DEF Spec
=============================================================================
