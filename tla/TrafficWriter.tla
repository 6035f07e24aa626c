--------------------------- MODULE TrafficWriter ---------------------------
(***************************************************************************)
(* The serial traffic writer: every transaction that touches the counters  *)
(* of clients and inbounds is handed to one goroutine through a bounded    *)
(* queue, and its submitter waits for the answer.                          *)
(*                                                                         *)
(* Start makes a new generation: queue, context, done channel, goroutine.  *)
(* Stop cancels the context and waits until the goroutine has drained the  *)
(* queue.  A submitter that finds no writer, or a cancelled one, applies   *)
(* its write itself.  One mutex guards the package state; a submitter      *)
(* keeps it while it waits for room in the queue.                          *)
(***************************************************************************)
EXTENDS Naturals, Sequences, FiniteSets

CONSTANTS
  Submitters, Controllers,   \* goroutines that submit; that start and stop
  QueueSize,
  MaxWrites, MaxStarts       \* bounds: writes per submitter, generations

ASSUME SizesAssumption ==
  /\ QueueSize \in Nat \ {0}
  /\ MaxWrites \in Nat /\ MaxStarts \in Nat
ASSUME FreeAssumption == "free" \notin Submitters

Writes == Submitters \X (1 .. MaxWrites)
Gens == 1 .. MaxStarts

VARIABLES
  tw,          \* the generation the package state names, 0 = none
  starts,      \* generations made so far
  queue,       \* the requests in each generation's channel
  cancelled,   \* whether its context is
  writer,      \* where its goroutine is
  mu,          \* the submitter that keeps the mutex, or "free"
  sub, ctl,    \* where each submitter and controller is
  reply,       \* what the writer put into each request's done channel
  told,        \* what its submitter returned with
  applied      \* ghost: how often each write took effect

state == <<tw, starts, queue, cancelled, writer>>
effects == <<reply, told, applied>>
vars == <<state, mu, sub, ctl, effects>>

Idle == [pc |-> "idle"]
Nobody == [pc |-> "none"]

Init ==
  /\ tw = 0
  /\ starts = 0
  /\ queue = [g \in Gens |-> <<>>]
  /\ cancelled = [g \in Gens |-> FALSE]
  /\ writer = [g \in Gens |-> Nobody]
  /\ mu = "free"
  /\ sub = [s \in Submitters |-> [pc |-> "idle", n |-> 0]]
  /\ ctl = [k \in Controllers |-> Idle]
  /\ reply = [w \in Writes |-> "none"]
  /\ told = [w \in Writes |-> "none"]
  /\ applied = [w \in Writes |-> 0]

Closed(g) == writer[g].pc = "exited"
Ready(g) == g # 0 /\ ~cancelled[g]
Current(s) == <<s, sub[s].n>>

-----------------------------------------------------------------------------
\* StartTrafficWriter, StopTrafficWriter.

Launch(k) ==
  /\ ctl[k] = Idle /\ mu = "free"
  /\ starts < MaxStarts
  /\ starts' = starts + 1
  /\ tw' = starts + 1
  /\ writer' = [writer EXCEPT ![starts + 1] = [pc |-> "select"]]
  /\ UNCHANGED <<queue, cancelled, mu, sub, ctl, effects>>

\* Unless a writer runs already, or is still draining.
Start(k) == (tw # 0 => Closed(tw)) /\ Launch(k)

Stop(k) ==
  /\ ctl[k] = Idle /\ mu = "free"
  /\ tw # 0
  /\ cancelled' = [cancelled EXCEPT ![tw] = TRUE]
  /\ ctl' = [ctl EXCEPT ![k] = [pc |-> "stopping", gen |-> tw]]
  /\ UNCHANGED <<tw, starts, queue, writer, mu, sub, effects>>

\* The state is cleared unless somebody started another writer meanwhile.
Stopped(k) ==
  /\ ctl[k].pc = "stopping"
  /\ Closed(ctl[k].gen)
  /\ mu = "free"
  /\ tw' = IF tw = ctl[k].gen THEN 0 ELSE tw
  /\ ctl' = [ctl EXCEPT ![k] = Idle]
  /\ UNCHANGED <<starts, queue, cancelled, writer, mu, sub, effects>>

-----------------------------------------------------------------------------
\* submitTrafficWrite.

\* The panel starts the writer before anything that submits.
Ask(s) ==
  /\ sub[s].pc = "idle" /\ sub[s].n < MaxWrites
  /\ starts > 0
  /\ sub' = [sub EXCEPT ![s] = [pc |-> "asking", n |-> @.n + 1]]
  /\ UNCHANGED <<state, mu, ctl, effects>>

Asking(s) == sub[s].pc = "asking" /\ mu = "free"
Goto(s, pc) == sub' = [sub EXCEPT ![s].pc = pc]

Wait(s, g) ==
  /\ queue' = [queue EXCEPT ![g] = Append(@, Current(s))]
  /\ sub' = [sub EXCEPT ![s] = [pc |-> "waiting", n |-> @.n, gen |-> g]]

Full(g) == Len(queue[g]) >= QueueSize

Return(s, result) ==
  /\ told' = [told EXCEPT ![Current(s)] = result]
  /\ sub' = [sub EXCEPT ![s] = [pc |-> "idle", n |-> @.n]]

\* No writer takes requests (any more): the submitter applies the write itself.
GoDirect(s) ==
  /\ Asking(s)
  /\ ~Ready(tw)
  /\ Goto(s, "applying")
  /\ UNCHANGED <<state, mu, ctl, effects>>

Enqueue(s) ==
  /\ Asking(s)
  /\ Ready(tw) /\ ~Full(tw)
  /\ Wait(s, tw)
  /\ UNCHANGED <<tw, starts, cancelled, writer, mu, ctl, effects>>

\* Faulty variant: rather than wait for room, the submitter applies the write.
BypassQueue(s) ==
  /\ Asking(s)
  /\ Ready(tw) /\ Full(tw)
  /\ Goto(s, "applying")
  /\ UNCHANGED <<state, mu, ctl, effects>>

\* No room: the submitter waits for it with the mutex held.
Block(s) ==
  /\ Asking(s)
  /\ Ready(tw) /\ Full(tw)
  /\ mu' = s
  /\ sub' = [sub EXCEPT ![s] = [pc |-> "blocked", n |-> @.n, gen |-> tw]]
  /\ UNCHANGED <<state, ctl, effects>>

Unblock(s) ==
  /\ sub[s].pc = "blocked"
  /\ ~Full(sub[s].gen)
  /\ Wait(s, sub[s].gen)
  /\ mu' = "free"
  /\ UNCHANGED <<tw, starts, cancelled, writer, ctl, effects>>

\* Faulty variant: the request goes into the queue all the same.
GiveUpQueued(s) ==
  /\ sub[s].pc = "blocked"
  /\ queue' = [queue EXCEPT ![sub[s].gen] = Append(@, Current(s))]
  /\ Return(s, "full")
  /\ mu' = "free"
  /\ UNCHANGED <<tw, starts, cancelled, writer, ctl, reply, applied>>

\* Five seconds have passed.
GiveUp(s) ==
  /\ sub[s].pc = "blocked"
  /\ Return(s, "full")
  /\ mu' = "free"
  /\ UNCHANGED <<state, ctl, reply, applied>>

\* The write succeeds, or fails (a panic is recovered and is an error).
Outcome(w, result) ==
  /\ result \in {"ok", "error"}
  /\ applied' = [applied EXCEPT ![w] = IF result = "ok" THEN @ + 1 ELSE @]

ApplyDirect(s, result) ==
  /\ sub[s].pc = "applying"
  /\ Outcome(Current(s), result)
  /\ Return(s, result)
  /\ UNCHANGED <<state, mu, ctl, reply>>

\* The answer, unless the writer is gone and has not given one.
Receive(s) ==
  /\ sub[s].pc = "waiting"
  /\ reply[Current(s)] = "none" => Closed(sub[s].gen)
  /\ Return(s, IF reply[Current(s)] # "none" THEN reply[Current(s)] ELSE "stopped")
  /\ UNCHANGED <<state, mu, ctl, reply, applied>>

-----------------------------------------------------------------------------
\* runTrafficWriter.

Take(g) ==
  /\ writer[g].pc \in {"select", "drain"}
  /\ queue[g] # <<>>
  /\ queue' = [queue EXCEPT ![g] = Tail(@)]
  /\ writer' = [writer EXCEPT ![g] =
       [pc |-> "applying", req |-> Head(queue[g]), back |-> @.pc]]
  /\ UNCHANGED <<tw, starts, cancelled, mu, sub, ctl, effects>>

\* Faulty variant: a panic is not recovered in time to answer.
ApplyUnanswered(g, result) ==
  /\ writer[g].pc = "applying"
  /\ Outcome(writer[g].req, result)
  /\ reply' = IF result = "ok" THEN [reply EXCEPT ![writer[g].req] = result] ELSE reply
  /\ writer' = [writer EXCEPT ![g] = [pc |-> @.back]]
  /\ UNCHANGED <<tw, starts, queue, cancelled, mu, sub, ctl, told>>

Apply(g, result) ==
  /\ writer[g].pc = "applying"
  /\ Outcome(writer[g].req, result)
  /\ reply' = [reply EXCEPT ![writer[g].req] = result]
  /\ writer' = [writer EXCEPT ![g] = [pc |-> @.back]]
  /\ UNCHANGED <<tw, starts, queue, cancelled, mu, sub, ctl, told>>

\* With the context cancelled, select may take either branch.
Cancelled(g) ==
  /\ writer[g].pc = "select"
  /\ cancelled[g]
  /\ writer' = [writer EXCEPT ![g] = [pc |-> "drain"]]
  /\ UNCHANGED <<tw, starts, queue, cancelled, mu, sub, ctl, effects>>

Leave(g) ==
  /\ writer[g].pc = "drain"
  /\ writer' = [writer EXCEPT ![g] = [pc |-> "exited"]]
  /\ UNCHANGED <<tw, starts, queue, cancelled, mu, sub, ctl, effects>>

\* Nothing is left in the queue.
Exit(g) == queue[g] = <<>> /\ Leave(g)

-----------------------------------------------------------------------------

Lock(s) == GoDirect(s) \/ Enqueue(s) \/ Block(s)

Proceed(s) ==
  \/ Unblock(s) \/ GiveUp(s) \/ Receive(s)
  \/ \E result \in {"ok", "error"} : ApplyDirect(s, result)

Write(g) ==
  \/ Take(g) \/ Cancelled(g) \/ Exit(g)
  \/ \E result \in {"ok", "error"} : Apply(g, result)

Next ==
  \/ \E k \in Controllers : Start(k) \/ Stop(k) \/ Stopped(k)
  \/ \E s \in Submitters : Ask(s) \/ Lock(s) \/ Proceed(s)
  \/ \E g \in Gens : Write(g)

\* Goroutines are scheduled, and transactions end.
Spec ==
  /\ Init /\ [][Next]_vars
  /\ \A s \in Submitters : WF_vars(Lock(s)) /\ WF_vars(Proceed(s))
  /\ \A k \in Controllers : WF_vars(Stopped(k))
  /\ \A g \in Gens : WF_vars(Write(g))

-----------------------------------------------------------------------------

Told == {"none", "ok", "error", "full", "stopped"}

SubmitterStates ==
  [pc : {"idle"}, n : 0 .. MaxWrites]
    \cup [pc : {"asking", "applying"}, n : 1 .. MaxWrites]
    \cup [pc : {"blocked", "waiting"}, n : 1 .. MaxWrites, gen : Gens]

WriterStates ==
  [pc : {"none", "select", "drain", "exited"}]
    \cup [pc : {"applying"}, req : Writes, back : {"select", "drain"}]

\* Every variable keeps its type, and the mutex is kept exactly by a submitter that
\* is blocked.
TypeOK ==
  /\ tw \in 0 .. starts /\ starts \in 0 .. MaxStarts
  /\ queue \in [Gens -> Seq(Writes)]
  /\ cancelled \in [Gens -> BOOLEAN]
  /\ writer \in [Gens -> WriterStates]
  /\ mu \in Submitters \cup {"free"}
  /\ sub \in [Submitters -> SubmitterStates]
  /\ ctl \in [Controllers -> {Idle} \cup [pc : {"stopping"}, gen : Gens]]
  /\ reply \in [Writes -> {"none", "ok", "error"}]
  /\ told \in [Writes -> Told]
  /\ applied \in [Writes -> Nat]
  /\ \A s \in Submitters : mu = s <=> sub[s].pc = "blocked"

\* However the writer is started and stopped, one goroutine at most serves it.
OneWriter ==
  \A g, h \in Gens :
    writer[g].pc \notin {"none", "exited"} /\ writer[h].pc \notin {"none", "exited"} => g = h

\* A submitter is told the truth: a write took effect exactly once if it says so,
\* and not at all, then or later, if it reports an error or a full queue.
AnswerIsTrue ==
  \A w \in Writes :
    /\ applied[w] <= 1
    /\ told[w] # "none" => applied[w] = (IF told[w] = "ok" THEN 1 ELSE 0)

\* Nobody is ever told that the writer stopped before the write: what got into the
\* queue is drained before the writer is done.
NeverAbandoned == \A w \in Writes : told[w] # "stopped"

Applying ==
  {<<"writer", g>> : g \in {h \in Gens : writer[h].pc = "applying"}}
    \cup {<<"submitter", s>> : s \in {t \in Submitters : sub[t].pc = "applying"}}

\* "It can never execute concurrently with the traffic poll": one write at a time.
Serialised == Cardinality(Applying) <= 1

\* ... which holds as long as nobody has stopped the writer.
SerialisedUntilStopped == (\A g \in Gens : ~cancelled[g]) => Serialised

\* A goroutine that submits gets an answer, and one that stops the writer returns,
\* whatever the others do.
EveryCallReturns ==
  /\ \A s \in Submitters : sub[s].pc # "idle" ~> sub[s].pc = "idle"
  /\ \A k \in Controllers : ctl[k] # Idle ~> ctl[k] = Idle
=============================================================================
