----------------------------- MODULE LiveData -----------------------------
(* One open page of the panel, the Inbounds or the Clients page, and the     *)
(* list it shows from its cache (useInbounds.ts, useClients.ts).  The list    *)
(* goes stale when the server changes; it is brought up to date by the       *)
(* refetch after the page's own writes, by the messages of the WebSocket     *)
(* bridge (websocketBridge.ts, over the socket of LiveSocket) and, on the    *)
(* Clients page only, by a poll.  The content of a list is its version: the  *)
(* number of changes the server had made to it when it was read.  The server *)
(* and the query library are modelled from how this code uses them.          *)
EXTENDS LiveSocket, Naturals, Sequences

CONSTANTS
  Sent,       \* a request that is on its way (None: no request)
  MaxVer,     \* bound: changes the server makes to each list
  MaxChan     \* bound: unread messages of the socket

ASSUME BoundsAssumption ==
  /\ MaxVer \in Nat \ {0}
  /\ MaxChan \in Nat \ {0}
  /\ {None, Sent} \cap Nat = {}
  /\ None # Sent

Lists == {"inbounds", "clients"}
Versions == 0..MaxVer

VARIABLES
  page,      \* the page that is open, named after its list
  ver,       \* server: changes made to that list
  chan,      \* messages on the open socket, oldest first
  cache,     \* version of the cached list
  fetch,     \* the list's request: None, Sent, or the version it read
  debounce,  \* invalidateTimer: the list it will invalidate, or None
  recent,    \* isRecentLocalInvalidate()
  write,     \* the page's own change: None, Sent, or the version it made
  acked,     \* newest own change the page knows to have succeeded
  heard      \* newest change announced by an invalidate message it handled

dataVars ==
  <<page, ver, chan, cache, fetch, debounce, recent, write, acked, heard>>
vars == <<socketVars, dataVars>>

Messages == [kind : {"invalidate", "snapshot"}, list : Lists, ver : Versions]

TypeOK ==
  /\ SocketTypeOK
  /\ page \in Lists
  /\ ver \in Versions
  /\ chan \in Seq(Messages)
  /\ cache \in Versions
  /\ fetch \in {None, Sent} \union Versions
  /\ debounce \in Lists \union {None}
  /\ recent \in BOOLEAN
  /\ write \in {None, Sent} \union Versions
  /\ acked \in Versions
  /\ heard \in Versions

Init ==
  /\ SocketInit
  /\ page \in Lists
  /\ ver = 0
  /\ chan = <<>>
  /\ cache = 0
  /\ fetch = None
  /\ debounce = None
  /\ recent = FALSE
  /\ write = None
  /\ acked = 0
  /\ heard = 0

----------------------------------------------------------------------------
\* The socket.

Registered == ws # None /\ state[ws] = "open"

\* What a step of the socket client does to the page: the messages of a socket
\* that is no longer this.ws, or no longer open, are never handled.
KeepsMessages ==
  /\ chan' = IF Registered /\ ws' = ws /\ state'[ws] = "open" THEN chan
                                                              ELSE <<>>
  /\ UNCHANGED <<page, ver, cache, fetch, debounce, recent, write, acked,
                 heard>>

SocketStep ==
  \/ Connect /\ KeepsMessages
  \/ TimerFires /\ KeepsMessages
  \/ ServerFlips /\ KeepsMessages
  \/ \E s \in Sockets : \/ Opened(s) /\ KeepsMessages
                        \/ Closed(s) /\ KeepsMessages
                        \/ chan # <<>> /\ TooBig(s) /\ KeepsMessages

----------------------------------------------------------------------------
\* The list's query.

\* An invalidation that leaves a request that is on its way as it is.
InvalidateJoining(list) ==
  fetch' = IF list = page /\ fetch = None THEN Sent ELSE fetch

\* invalidateQueries: the list is refetched at once, and a request that is
\* already on its way is dropped.
Invalidate(list) == fetch' = IF list = page THEN Sent ELSE fetch

\* The server reads the list for the request.
ServerReads ==
  /\ up
  /\ fetch = Sent
  /\ fetch' = ver
  /\ UNCHANGED <<socketVars, page, ver, chan, cache, debounce, recent, write,
                 acked, heard>>

\* The answer arrives and replaces the cached list.
Fetched ==
  /\ fetch \in Versions
  /\ cache' = fetch
  /\ fetch' = None
  /\ UNCHANGED <<socketVars, page, ver, chan, debounce, recent, write, acked,
                 heard>>

\* The request and its retry fail: the old list stays.
FetchFails ==
  /\ ~up
  /\ fetch # None
  /\ fetch' = None
  /\ UNCHANGED <<socketVars, page, ver, chan, cache, debounce, recent, write,
                 acked, heard>>

\* The poll as it would be if it paused while the socket is open.
PollWhileOffline ==
  /\ page = "clients"
  /\ ~Registered
  /\ fetch = None
  /\ fetch' = Sent
  /\ UNCHANGED <<socketVars, page, ver, chan, cache, debounce, recent, write,
                 acked, heard>>

\* refetchInterval of the clients list, every 5 s; the inbounds have none.
Poll ==
  /\ page = "clients"
  /\ fetch = None
  /\ fetch' = Sent
  /\ UNCHANGED <<socketVars, page, ver, chan, cache, debounce, recent, write,
                 acked, heard>>

----------------------------------------------------------------------------
\* The server.  A change of the other page's list is only its message.

Room(n) == up /\ ver < MaxVer /\ Len(chan) + n <= MaxChan

Broadcast(kinds, lists) ==
  chan' = IF Registered /\ kinds # <<"dropped">>
            THEN chan \o [i \in 1..Len(lists) |->
                            [kind |-> kinds[i], list |-> lists[i],
                             ver |-> IF lists[i] = page THEN ver' ELSE 0]]
            ELSE chan

\* How a change of each list is told: the clients are announced; the inbounds
\* are pushed, or announced when they are many or a switch was flipped, and a
\* push within 250 ms of another is dropped by the hub.
Kinds(list) == IF list = "clients" THEN {"invalidate"}
                                   ELSE {"invalidate", "snapshot", "dropped"}

\* Another session changes a list.
OtherSession(list) ==
  /\ Room(1)
  /\ ver' = IF list = page THEN ver + 1 ELSE ver
  /\ \E kind \in Kinds(list) : Broadcast(<<kind>>, <<list>>)
  /\ UNCHANGED <<socketVars, page, cache, fetch, debounce, recent, write,
                 acked, heard>>

\* The traffic job disables clients: both lists change, the inbounds are
\* announced.
AutoDisable ==
  /\ Room(1)
  /\ ver' = ver + 1
  /\ Broadcast(<<"invalidate">>, <<"inbounds">>)
  /\ UNCHANGED <<socketVars, page, cache, fetch, debounce, recent, write,
                 acked, heard>>

\* The node sync found a structural change: both lists change and are
\* announced, one message right after the other.
NodeSync ==
  /\ Room(2)
  /\ ver' = ver + 1
  /\ Broadcast(<<"invalidate", "invalidate">>, <<"inbounds", "clients">>)
  /\ UNCHANGED <<socketVars, page, cache, fetch, debounce, recent, write,
                 acked, heard>>

----------------------------------------------------------------------------
\* The page's own writes, to its own list.

Submit ==
  /\ write = None
  /\ write' = Sent
  /\ UNCHANGED <<socketVars, page, ver, chan, cache, fetch, debounce, recent,
                 acked, heard>>

\* The server applies it and tells every session, this one included.
Applied ==
  /\ write = Sent
  /\ Room(1)
  /\ ver' = ver + 1
  /\ write' = ver'
  /\ \E kind \in Kinds(page) : Broadcast(<<kind>>, <<page>>)
  /\ UNCHANGED <<socketVars, page, cache, fetch, debounce, recent, acked,
                 heard>>

\* The page learns of its success.  A client change goes through
\* invalidateAll, which also marks it as local; an inbound change goes through
\* refresh of useInbounds.
Acknowledged ==
  /\ write \in Versions
  /\ acked' = write
  /\ write' = None
  /\ recent' = (recent \/ page = "clients")
  /\ Invalidate(page)
  /\ UNCHANGED <<socketVars, page, ver, chan, cache, debounce, heard>>

\* The request or its answer is lost: onSuccess does not run.
WriteFails ==
  /\ ~up
  /\ write # None
  /\ write' = None
  /\ UNCHANGED <<socketVars, page, ver, chan, cache, fetch, debounce, recent,
                 acked, heard>>

\* 1.5 s pass since the last local invalidation.
RecentExpires ==
  /\ recent
  /\ recent' = FALSE
  /\ UNCHANGED <<socketVars, page, ver, chan, cache, fetch, debounce, write,
                 acked, heard>>

----------------------------------------------------------------------------
\* The bridge.

\* onInvalidate: one timer for both lists, so a list that was waiting for it
\* is forgotten.
OnInvalidate(m) ==
  /\ debounce' = m.list
  /\ heard' = IF m.list = page THEN m.ver ELSE heard
  /\ UNCHANGED cache

\* onInbounds: the pushed list replaces the cached one.
OnInbounds(m) ==
  /\ cache' = IF m.list = page THEN m.ver ELSE cache
  /\ UNCHANGED <<debounce, heard>>

Receive ==
  /\ chan # <<>>
  /\ LET m == Head(chan)
     IN  IF m.kind = "invalidate" THEN OnInvalidate(m) ELSE OnInbounds(m)
  /\ chan' = Tail(chan)
  /\ UNCHANGED <<socketVars, page, ver, fetch, recent, write, acked>>

\* The timer's callback, 200 ms after the last invalidate message.
DebounceFires ==
  /\ debounce # None
  /\ debounce' = None
  /\ IF recent THEN UNCHANGED fetch ELSE Invalidate(debounce)
  /\ UNCHANGED <<socketVars, page, ver, chan, cache, recent, write, acked,
                 heard>>

----------------------------------------------------------------------------
Next ==
  \/ SocketStep
  \/ ServerReads \/ Fetched \/ FetchFails \/ Poll
  \/ (\E list \in Lists : OtherSession(list)) \/ AutoDisable \/ NodeSync
  \/ Submit \/ Applied \/ Acknowledged \/ WriteFails \/ RecentExpires
  \/ Receive \/ DebounceFires

Spec == Init /\ [][Next]_vars

\* The browser runs its timers and delivers its events, a reachable server
\* accepts and answers.  Nothing is assumed of the users, of the server's
\* changes or of the network.
Fairness ==
  /\ WF_vars(TimerFires /\ ws' # ws /\ KeepsMessages)
  /\ \A s \in Sockets :
       /\ WF_vars(Opened(s) /\ KeepsMessages)
       /\ WF_vars(state[s] = "closing" /\ Closed(s) /\ KeepsMessages)
  /\ WF_vars(ServerReads) /\ WF_vars(Fetched) /\ WF_vars(Poll)
  /\ WF_vars(RecentExpires) /\ WF_vars(Receive) /\ WF_vars(DebounceFires)

FairSpec == Spec /\ Fairness

----------------------------------------------------------------------------
\* What a request brings back after the page was told that its change
\* succeeded includes that change: a request that read the list before is
\* dropped and never shown (invalidateAll, refresh).
OwnChangesShown == fetch \in Versions => fetch >= acked

\* While the server is reachable the Clients page ends up showing the server's
\* version whatever the bridge lost: displaced or swallowed invalidations,
\* messages gone with a socket, answers overtaken by changes.
ClientsConverge ==
  (<>[]up /\ page = "clients") => <>[](cache = ver)

\* "Other open sessions re-fetch via REST": with a server that is always
\* reachable, a change of the inbounds that was announced to the Inbounds page
\* is fetched.
AnnouncedInboundsFetched ==
  ([]up /\ page = "inbounds")
    => \A v \in Versions : heard = v ~> cache >= v

============================================================================
