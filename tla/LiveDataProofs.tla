-------------------------- MODULE LiveDataProofs --------------------------
(***************************************************************************)
(* Proofs about LiveSocket and LiveData, for any number of sockets and any *)
(* bounds.                                                                 *)
(***************************************************************************)
EXTENDS LiveData, SequenceTheorems, TLAPS

USE NoneAssumption, BoundsAssumption

-----------------------------------------------------------------------------
(* The socket client.                                                       *)

SocketNext ==
  \/ Connect \/ TimerFires \/ ServerFlips
  \/ \E s \in Sockets : Opened(s) \/ Closed(s) \/ TooBig(s)

\* The client's own invariant: it keeps a timer only while it has no socket
\* that lives, so that the callback replaces none.
SocketInv ==
  /\ SocketTypeOK
  /\ OneLiveSocket
  /\ timer => ws = None \/ ~ Live(ws)

LEMMA SocketStarts == SocketInit => SocketInv
  BY DEF SocketInit, SocketInv, SocketTypeOK, ReadyStates, OneLiveSocket, Live

LEMMA SocketKeeps ==
  ASSUME SocketInv, SocketNext \/ UNCHANGED socketVars
  PROVE  SocketInv'
  <1> USE DEF SocketInv, SocketTypeOK, ReadyStates, OneLiveSocket, Live
  <1>1. ASSUME NEW s \in Sockets, OpenSocket(s), timer' = FALSE, up' = up,
               ws = None \/ ~ Live(ws)
        PROVE  SocketInv'
    <2>1. \A q \in Sockets : ~ Live(q)
      BY <1>1
    <2>2. state' \in [Sockets -> ReadyStates] /\ ws' = s
      BY <1>1 DEF OpenSocket
    <2>3. \A q \in Sockets \ {s} : state'[q] = state[q]
      BY <1>1 DEF OpenSocket
    <2> QED BY <1>1, <2>1, <2>2, <2>3
  <1>2. CASE Connect
    BY <1>1, <1>2 DEF Connect, ConstructorThrows
  <1>3. CASE TimerFires
    BY <1>1, <1>3 DEF TimerFires, ConstructorThrows
  <1>4. CASE ServerFlips \/ UNCHANGED socketVars
    <2>1. state' = state /\ ws' = ws /\ timer' = timer /\ up' \in BOOLEAN
      BY <1>4 DEF ServerFlips, socketVars
    <2> QED BY <2>1
  <1>5. ASSUME NEW s \in Sockets, Opened(s) PROVE SocketInv'
    BY <1>5 DEF Opened
  <1>6. ASSUME NEW s \in Sockets, Closed(s) PROVE SocketInv'
    BY <1>6 DEF Closed
  <1>7. ASSUME NEW s \in Sockets, TooBig(s) PROVE SocketInv'
    BY <1>7 DEF TooBig
  <1> QED BY <1>2, <1>3, <1>4, <1>5, <1>6, <1>7 DEF SocketNext

LEMMA SocketInsists ==
  ASSUME SocketNext, ws # None \/ timer
  PROVE  ws' # None \/ timer'
  BY DEF SocketNext, Connect, ConstructorThrows, TimerFires, OpenSocket, ServerFlips, Opened,
         Closed, TooBig

\* Every step of the page is a step of the socket client or leaves it alone.
LEMMA PageSteps ==
  ASSUME [Next]_vars
  PROVE  SocketNext \/ UNCHANGED socketVars
  <1>1. CASE SocketStep
    BY <1>1 DEF SocketStep, SocketNext
  <1>2. CASE ~ SocketStep
    BY <1>2
    DEF Next, ServerReads, Fetched, FetchFails, Poll, OtherSession, AutoDisable, NodeSync,
        Submit, Applied, Acknowledged, WriteFails, RecentExpires, Receive, DebounceFires,
        vars, socketVars
  <1> QED BY <1>1, <1>2

LEMMA SocketInvariant == Spec => []SocketInv
  <1>1. Init => SocketInv
    BY SocketStarts DEF Init
  <1>2. SocketInv /\ [Next]_vars => SocketInv'
    BY PageSteps, SocketKeeps
  <1> QED BY <1>1, <1>2, PTL DEF Spec

\* The client has one socket that connects or is open, this.ws, however
\* mounts, timers and the events of replaced sockets interleave
\* (websocket.ts:37-44, 80-125, 165-191).
THEOREM OneSocketAtATime == Spec => []OneLiveSocket
  <1>1. SocketInv => OneLiveSocket
    BY DEF SocketInv
  <1> QED BY <1>1, SocketInvariant, PTL

\* Once asked to connect, the client always has a socket or a timer that will
\* open one (websocket.ts:106-125, 165-191).
THEOREM NeverSilent == Spec => NeverGivesUp
  <1> DEFINE Insists == ws # None \/ timer => ws' # None \/ timer'
  <1>1. [Next]_vars => [Insists]_socketVars
    BY PageSteps, SocketInsists
  <1>2. NeverGivesUp <=> [][Insists]_socketVars
    BY DEF NeverGivesUp
  <1> QED BY <1>1, <1>2, PTL DEF Spec

-----------------------------------------------------------------------------
(* Types.                                                                   *)

LEMMA MessageTyped ==
  ASSUME NEW m \in Messages
  PROVE  m.kind \in {"invalidate", "snapshot"} /\ m.list \in Lists /\ m.ver \in Versions
  BY DEF Messages

\* One message is sent, unless it is dropped, or nobody listens.
LEMMA OneSent ==
  ASSUME TypeOK, ver' \in Versions, NEW list \in Lists, NEW kind \in {"invalidate", "snapshot", "dropped"},
         Broadcast(<<kind>>, <<list>>)
  PROVE  chan' \in Seq(Messages)
  <1> DEFINE m == [kind |-> kind, list |-> list, ver |-> IF list = page THEN ver' ELSE 0]
             sent == [i \in 1..Len(<<list>>) |->
                        [kind |-> <<kind>>[i], list |-> <<list>>[i],
                         ver |-> IF <<list>>[i] = page THEN ver' ELSE 0]]
  <1>1. 0 \in Versions
    BY DEF Versions
  <1>2. CASE kind = "dropped"
    BY <1>2 DEF Broadcast, TypeOK
  <1>3. CASE kind # "dropped"
    <2>1. m \in Messages
      BY <1>1, <1>3 DEF Messages
    <2>2. Len(<<list>>) = 1
      OBVIOUS
    <2>3. sent \in [1..1 -> Messages]
      BY <2>1, <2>2
    <2>4. sent \in Seq(Messages)
      BY <2>3, SeqDef
    <2>5. chan' = chan \/ chan' = chan \o sent
      BY DEF Broadcast
    <2>6. chan \in Seq(Messages)
      BY DEF TypeOK
    <2> HIDE DEF sent
    <2> QED BY <2>4, <2>5, <2>6, ConcatProperties
  <1> QED BY <1>2, <1>3

\* Two are.
LEMMA TwoSent ==
  ASSUME TypeOK, ver' \in Versions, NEW l1 \in Lists, NEW l2 \in Lists,
         Broadcast(<<"invalidate", "invalidate">>, <<l1, l2>>)
  PROVE  chan' \in Seq(Messages)
  <1> DEFINE m(l) == [kind |-> "invalidate", list |-> l, ver |-> IF l = page THEN ver' ELSE 0]
             sent == [i \in 1..Len(<<l1, l2>>) |->
                        [kind |-> <<"invalidate", "invalidate">>[i], list |-> <<l1, l2>>[i],
                         ver |-> IF <<l1, l2>>[i] = page THEN ver' ELSE 0]]
  <1>1. 0 \in Versions
    BY DEF Versions
  <1>2. m(l1) \in Messages /\ m(l2) \in Messages
    BY <1>1 DEF Messages
  <1>3. Len(<<l1, l2>>) = 2
    OBVIOUS
  <1>4. ASSUME NEW i \in 1..2 PROVE sent[i] \in Messages
    <2>1. CASE i = 1
      BY <1>2, <1>3, <2>1
    <2>2. CASE i = 2
      BY <1>2, <1>3, <2>2
    <2> QED BY <2>1, <2>2
  <1>5. sent \in Seq(Messages)
    <2>1. sent \in [1..2 -> Messages]
      BY <1>3, <1>4
    <2> QED BY <2>1, SeqDef
  <1>6. chan' = chan \/ chan' = chan \o sent
    BY DEF Broadcast
  <1>7. chan \in Seq(Messages)
    BY DEF TypeOK
  <1> HIDE DEF sent
  <1> QED BY <1>5, <1>6, <1>7, ConcatProperties

LEMMA SocketTyped ==
  ASSUME SocketInv, [Next]_vars
  PROVE  SocketTypeOK'
  BY PageSteps, SocketKeeps DEF SocketInv

LEMMA TypeStep ==
  ASSUME TypeOK, SocketInv, [Next]_vars
  PROVE  TypeOK'
  <1> USE DEF Versions, dataVars
  <1>1. SocketTypeOK'
    BY SocketTyped
  <1>2. CASE SocketStep
    <2>1. KeepsMessages
      BY <1>2 DEF SocketStep
    <2>2. <<>> \in Seq(Messages)
      OBVIOUS
    <2> QED BY <1>1, <2>1, <2>2 DEF KeepsMessages, TypeOK
  <1>3. CASE ServerReads \/ Fetched \/ FetchFails \/ Poll \/ Submit \/ WriteFails \/ RecentExpires
    BY <1>1, <1>3
    DEF ServerReads, Fetched, FetchFails, Poll, Submit, WriteFails, RecentExpires, TypeOK
  <1>4. CASE (\E list \in Lists : OtherSession(list)) \/ AutoDisable \/ NodeSync
    <2>1. ver' \in Versions
      <3>1. ver < MaxVer /\ (ver' = ver \/ ver' = ver + 1)
        BY <1>4 DEF OtherSession, AutoDisable, NodeSync, Room
      <3> QED BY <3>1 DEF TypeOK
    <2>2. chan' \in Seq(Messages)
      <3>1. ASSUME NEW list \in Lists, OtherSession(list) PROVE chan' \in Seq(Messages)
        <4>1. PICK kind \in Kinds(list) : Broadcast(<<kind>>, <<list>>)
          BY <3>1 DEF OtherSession
        <4>2. kind \in {"invalidate", "snapshot", "dropped"}
          BY DEF Kinds
        <4> QED BY <2>1, <4>1, <4>2, OneSent
      <3>2. CASE AutoDisable
        BY <2>1, <3>2, OneSent DEF AutoDisable, Lists
      <3>3. CASE NodeSync
        BY <2>1, <3>3, TwoSent DEF NodeSync, Lists
      <3> QED BY <1>4, <3>1, <3>2, <3>3
    <2>3. /\ page' = page /\ cache' = cache /\ fetch' = fetch /\ debounce' = debounce
          /\ recent' = recent /\ write' = write /\ acked' = acked /\ heard' = heard
      BY <1>4 DEF OtherSession, AutoDisable, NodeSync
    <2> QED BY <1>1, <2>1, <2>2, <2>3 DEF TypeOK
  <1>5. CASE Applied
    <2>1. ver' \in Versions /\ write' = ver'
      BY <1>5 DEF Applied, Room, TypeOK
    <2>2. chan' \in Seq(Messages)
      <3>1. PICK kind \in Kinds(page) : Broadcast(<<kind>>, <<page>>)
        BY <1>5 DEF Applied
      <3>2. kind \in {"invalidate", "snapshot", "dropped"} /\ page \in Lists
        BY DEF Kinds, TypeOK
      <3> QED BY <2>1, <3>1, <3>2, OneSent
    <2>3. /\ page' = page /\ cache' = cache /\ fetch' = fetch /\ debounce' = debounce
          /\ recent' = recent /\ acked' = acked /\ heard' = heard
      BY <1>5 DEF Applied
    <2> QED BY <1>1, <2>1, <2>2, <2>3 DEF TypeOK
  <1>6. CASE Acknowledged
    <2>1. /\ page' = page /\ ver' = ver /\ chan' = chan /\ cache' = cache
          /\ debounce' = debounce /\ heard' = heard /\ acked' \in Versions
          /\ write' = None /\ recent' \in BOOLEAN /\ fetch' = Sent
      BY <1>6 DEF Acknowledged, Invalidate, TypeOK
    <2> QED BY <1>1, <2>1 DEF TypeOK
  <1>7. CASE Receive
    <2>1. Head(chan) \in Messages /\ Tail(chan) \in Seq(Messages)
      BY <1>7 DEF Receive, TypeOK
    <2>2. Head(chan).list \in Lists /\ Head(chan).ver \in Versions
      BY <2>1, MessageTyped
    <2>3. debounce' \in Lists \union {None} /\ heard' \in Versions /\ cache' \in Versions
      BY <1>7, <2>2 DEF Receive, OnInvalidate, OnInbounds, TypeOK
    <2>4. /\ page' = page /\ ver' = ver /\ fetch' = fetch /\ recent' = recent
          /\ write' = write /\ acked' = acked /\ chan' = Tail(chan)
      BY <1>7 DEF Receive
    <2> QED BY <1>1, <2>1, <2>3, <2>4 DEF TypeOK
  <1>8. CASE DebounceFires
    BY <1>1, <1>8 DEF DebounceFires, Invalidate, TypeOK
  <1>9. CASE UNCHANGED vars
    BY <1>1, <1>9 DEF vars, TypeOK
  <1> QED BY <1>2, <1>3, <1>4, <1>5, <1>6, <1>7, <1>8, <1>9 DEF Next

\* The socket, the requests and the messages keep their types.
THEOREM Typed == Spec => []TypeOK
  <1>1. Init => TypeOK
    <2>1. <<>> \in Seq(Messages) /\ 0 \in Versions
      BY DEF Versions
    <2> QED BY <2>1, SocketStarts DEF Init, SocketInv, TypeOK
  <1>2. TypeOK /\ SocketInv /\ [Next]_vars => TypeOK'
    BY TypeStep
  <1> QED BY <1>1, <1>2, SocketInvariant, PTL DEF Spec

-----------------------------------------------------------------------------
(* Own changes are shown.                                                   *)

\* What the page has been told of happened, and what a request has read is at
\* least that.
Told ==
  /\ acked <= ver
  /\ write \in Versions => write <= ver
  /\ fetch \in Versions => fetch >= acked

LEMMA ToldStep ==
  ASSUME TypeOK, TypeOK', Told, [Next]_vars
  PROVE  Told'
  <1> USE DEF Versions, dataVars
  <1>0. /\ acked \in Nat /\ ver \in Nat /\ None \notin Versions /\ Sent \notin Versions
        /\ ver' \in Nat
    BY DEF TypeOK
  <1>1. CASE SocketStep \/ Poll \/ Submit \/ Fetched \/ FetchFails \/ WriteFails \/ RecentExpires
             \/ Receive \/ DebounceFires \/ UNCHANGED vars
    <2>1. /\ acked' = acked /\ ver' = ver
          /\ write' = write \/ write' \in {None, Sent}
          /\ fetch' = fetch \/ fetch' \in {None, Sent}
      <3>1. CASE SocketStep
        BY <3>1 DEF SocketStep, KeepsMessages
      <3>2. CASE ~ SocketStep
        BY <1>1, <3>2
        DEF Poll, Submit, Fetched, FetchFails, WriteFails, RecentExpires, Receive,
            DebounceFires, Invalidate, vars
      <3> QED BY <3>1, <3>2
    <2> QED BY <1>0, <2>1 DEF Told
  <1>2. CASE ServerReads
    BY <1>0, <1>2 DEF ServerReads, Told
  <1>3. CASE (\E list \in Lists : OtherSession(list)) \/ AutoDisable \/ NodeSync
    <2>1. ver' >= ver
      <3>1. ver' = ver \/ ver' = ver + 1
        BY <1>3 DEF OtherSession, AutoDisable, NodeSync
      <3> QED BY <1>0, <3>1
    <2>2. acked' = acked /\ write' = write /\ fetch' = fetch
      BY <1>3 DEF OtherSession, AutoDisable, NodeSync
    <2> QED BY <1>0, <2>1, <2>2 DEF Told
  <1>4. CASE Applied
    <2>1. ver' = ver + 1 /\ write' = ver' /\ acked' = acked /\ fetch' = fetch
      BY <1>4 DEF Applied
    <2> QED BY <1>0, <2>1 DEF Told
  <1>5. CASE Acknowledged
    <2>1. acked' = write /\ write \in Versions /\ write' = None /\ fetch' = Sent /\ ver' = ver
      BY <1>5 DEF Acknowledged, Invalidate
    <2> QED BY <1>0, <2>1 DEF Told
  <1> QED BY <1>1, <1>2, <1>3, <1>4, <1>5 DEF Next

\* A request whose answer is shown after the page knows of its own change has
\* read the list with that change (invalidateAll, refresh).
THEOREM OwnChangesStay == Spec => []OwnChangesShown
  <1>1. Init => Told
    BY DEF Init, Told, Versions
  <1>2. TypeOK /\ TypeOK' /\ Told /\ [Next]_vars => Told'
    BY ToldStep
  <1>3. Told => OwnChangesShown
    BY DEF Told, OwnChangesShown
  <1> QED BY <1>1, <1>2, <1>3, Typed, PTL DEF Spec
=============================================================================
