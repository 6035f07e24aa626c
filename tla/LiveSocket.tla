---------------------------- MODULE LiveSocket ----------------------------
(* The panel's WebSocket client (src/frontend/src/api/websocket.ts): one     *)
(* object per hook, shared by every component that mounts, which keeps one   *)
(* browser socket open and opens another when it closes.  The browser's      *)
(* events come one at a time but in any order, also for a socket that the    *)
(* client has already replaced.  Delays are abstracted: a reconnect timer    *)
(* that is set fires some time later.  disconnect() has no caller in the     *)
(* panel and is left out, so shouldReconnect is always true; isConnected,  *)
(* which nothing reads, is left out too.                                     *)
CONSTANTS
  Sockets,    \* browser WebSocket objects; one that has closed is used again
  None        \* "no socket"

ASSUME NoneAssumption == None \notin Sockets

VARIABLES
  state,        \* readyState per socket, "closed" also before it exists
  ws,           \* this.ws
  timer,        \* this.reconnectTimer # null
  up            \* the server accepts and keeps connections (environment)

socketVars == <<state, ws, timer, up>>

ReadyStates == {"connecting", "open", "closing", "closed"}

SocketTypeOK ==
  /\ state \in [Sockets -> ReadyStates]
  /\ ws \in Sockets \union {None}
  /\ timer \in BOOLEAN
  /\ up \in BOOLEAN

SocketInit ==
  /\ state = [s \in Sockets |-> "closed"]
  /\ ws = None
  /\ timer = FALSE
  /\ up \in BOOLEAN

Live(s) == state[s] \in {"connecting", "open"}

\* #openSocket: a new object becomes this.ws.
OpenSocket(s) ==
  /\ state[s] = "closed"
  /\ state' = [state EXCEPT ![s] = "connecting"]
  /\ ws' = s

\* The constructor throws: this.ws keeps its value and a retry is scheduled.
ConstructorThrows ==
  /\ timer' = TRUE
  /\ UNCHANGED <<state, ws>>

\* connect() as it would be without its call of #cancelReconnect.
ConnectKeepingTimer ==
  /\ ~(ws # None /\ Live(ws))
  /\ \/ \E s \in Sockets : OpenSocket(s) /\ UNCHANGED timer
     \/ ConstructorThrows
  /\ UNCHANGED up

\* connect(), called whenever a component that uses the hook mounts: nothing
\* to do while this.ws is connecting or open.
Connect ==
  /\ ~(ws # None /\ Live(ws))
  /\ \/ \E s \in Sockets : OpenSocket(s) /\ timer' = FALSE
     \/ ConstructorThrows
  /\ UNCHANGED up

\* The reconnect timer's callback.
TimerFires ==
  /\ timer
  /\ \/ \E s \in Sockets : OpenSocket(s) /\ timer' = FALSE
     \/ ConstructorThrows
  /\ UNCHANGED up

\* The 'open' event; only this.ws's own counts.
Opened(s) ==
  /\ up
  /\ state[s] = "connecting"
  /\ state' = [state EXCEPT ![s] = "open"]
  /\ UNCHANGED <<ws, timer, up>>

\* The 'close' handler as it would be without its call of #scheduleReconnect.
ClosedForGood(s) ==
  /\ state[s] # "closed"
  /\ up => state[s] # "connecting"
  /\ state' = [state EXCEPT ![s] = "closed"]
  /\ ws' = IF ws = s THEN None ELSE ws
  /\ UNCHANGED <<timer, up>>

\* The 'close' event, after a refused connection, a lost one, or close().  It
\* forgets the socket and schedules a reconnect if it was this.ws.
Closed(s) ==
  /\ state[s] # "closed"
  /\ up => state[s] # "connecting"
  /\ state' = [state EXCEPT ![s] = "closed"]
  /\ IF ws = s
       THEN ws' = None /\ timer' = TRUE
       ELSE UNCHANGED <<ws, timer>>
  /\ UNCHANGED up

\* A message over MAX_PAYLOAD_BYTES arrives: #onMessage closes the socket and
\* drops the message; the close event comes later.
TooBig(s) ==
  /\ ws = s
  /\ state[s] = "open"
  /\ state' = [state EXCEPT ![s] = "closing"]
  /\ UNCHANGED <<ws, timer, up>>

\* The server or the network goes away or comes back.
ServerFlips == up' = ~up /\ UNCHANGED <<state, ws, timer>>

\* At most one socket is connecting or open, and it is this.ws: no forgotten
\* socket keeps a connection and a registration at the server (connect,
\* scheduleReconnect and the handlers' tests of this.ws, together).
OneLiveSocket == \A s \in Sockets : Live(s) => ws = s

\* Once somebody has asked for a connection the client never ends up with
\* neither a socket whose close event will come nor a timer: it cannot go
\* silent (close handler, constructor failure, timer callback).
NeverGivesUp ==
  [][ (ws # None \/ timer) => (ws' # None \/ timer') ]_socketVars

============================================================================
