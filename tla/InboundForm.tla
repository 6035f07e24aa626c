--------------------------- MODULE InboundForm ---------------------------
(* The dialog that adds or edits one inbound (InboundFormModal.tsx): what    *)
(* each choice of the operator does to the other fields of the form, what is *)
(* posted, and the row the server keeps.  The stream settings are their      *)
(* discriminators and the names of the slices present, the client list is    *)
(* its e-mails and, for all of them alike, the credential fields they hold   *)
(* and whether their ids are UUIDs.                                          *)
EXTENDS Naturals, FiniteSets

CONSTANTS
  Protocols,   \* bound: protocols of the picker that are tried
  Transports,  \* bound: transports of the network selector that are tried
  Strategies,  \* bound: share strategies of the selector that are tried
  Emails,      \* clients that somebody may add to the inbound
  None         \* no row, no stream settings, no network

AllProtocols == {"vless", "vmess", "trojan", "shadowsocks", "hysteria",
                 "wireguard", "tunnel", "http", "mixed", "tun", "mtproto"}
AllTransports == {"tcp", "kcp", "ws", "grpc", "httpupgrade", "xhttp"}
AllStrategies == {"node", "listen", "custom"}

ASSUME PickersAssumption ==
  /\ Protocols \subseteq AllProtocols /\ "vless" \in Protocols
  /\ Transports \subseteq AllTransports /\ "tcp" \in Transports
  /\ Strategies \subseteq AllStrategies /\ {"node", "listen"} \subseteq Strategies
  /\ None \notin AllTransports \cup {"hysteria"}

Networks == AllTransports \cup {"hysteria"}
Securities == {"none", "tls", "reality"}
Slices == Networks \cup {"tls", "reality"}
Masks == {"mkcp-legacy", "salamander"}
Fields == {"id", "password", "auth"}

\* Which protocols a field of the form means something for.
ClientBearing == {"vless", "vmess", "trojan", "shadowsocks", "hysteria"}
NodeEligible == ClientBearing \cup {"wireguard"}
StreamProtocols == NodeEligible \cup {"tunnel"}
Transportless == {"wireguard", "tunnel"}

CanEnableTls(protocol, network) ==
  protocol = "hysteria"
  \/ /\ protocol \in {"vmess", "vless", "trojan", "shadowsocks"}
     /\ network \in AllTransports \ {"kcp"}

CanEnableReality(protocol, network) ==
  /\ protocol \in {"vless", "trojan"}
  /\ network \in {"tcp", "grpc", "xhttp"}

\* The credential field a protocol's clients carry.
OwnField(protocol) ==
  CASE protocol \in {"vless", "vmess"} -> "id"
    [] protocol \in {"trojan", "shadowsocks"} -> "password"
    [] protocol = "hysteria" -> "auth"

NoCreds == [f \in Fields |-> "absent"]
Origins == {"absent", "kept", "fresh"}
Answers == {"no", "failed", "ok"}

VARIABLES
  row,      \* the stored inbound, or None
  hasNode,  \* an enabled node exists
  fetched,  \* what became of the request for the list of nodes
  dialog,   \* closed, add, edit, or confirm: the question before saving
  form,     \* the values the form holds while the dialog is open
  opened,   \* dbInbound, the row the edit dialog was opened on
  trail     \* history of this dialog: what the operator's choices were

vars == <<row, hasNode, fetched, dialog, form, opened, trail>>

Streams == [network : Networks \cup {None}, security : Securities,
            slices : SUBSET Slices, masks : SUBSET Masks]

Rows == [protocol : Protocols, stream : Streams \cup {None}, node : BOOLEAN,
         strategy : Strategies, emails : SUBSET Emails, creds : SUBSET Fields,
         uuids : BOOLEAN]

Forms == [protocol : Protocols, stream : Streams \cup {None}, node : BOOLEAN,
          strategy : Strategies, emails : SUBSET Emails,
          creds : [Fields -> Origins], uuids : BOOLEAN]

\* shed: a protocol without clients was tried; crossed: one that does not take
\* over the credential; chose: a strategy was picked; slim: the dialog opened on
\* the list's row; blind: it was open while the list of nodes had failed.
Trails == [shed : BOOLEAN, crossed : BOOLEAN, chose : BOOLEAN,
           slim : BOOLEAN, blind : BOOLEAN]

ASSUME NoneAssumption == None \notin Streams \cup Rows \cup Forms

\* Every variable keeps its type, and the edit dialog is open on a row.
TypeOK ==
  /\ row \in Rows \cup {None}
  /\ hasNode \in BOOLEAN /\ fetched \in Answers
  /\ dialog \in {"closed", "add", "edit", "confirm"}
  /\ form \in Forms \cup {None}
  /\ opened \in Rows \cup {None}
  /\ (form = None) <=> (dialog = "closed")
  /\ (opened # None) <=> (dialog \in {"edit", "confirm"})
  /\ trail \in Trails

EmptyTcp == [network |-> "tcp", security |-> "none", slices |-> {"tcp"},
             masks |-> {}]

NewTrail == [shed |-> FALSE, crossed |-> FALSE, chose |-> FALSE,
             slim |-> FALSE, blind |-> FALSE]

\* No inbound, or one an older panel saved without its transport's slice.
Init ==
  /\ row \in {None,
       [protocol |-> "vless", stream |-> [EmptyTcp EXCEPT !.slices = {}],
        node |-> FALSE, strategy |-> "node", emails |-> {}, creds |-> {},
        uuids |-> TRUE]}
  /\ hasNode \in BOOLEAN
  /\ fetched = "no"
  /\ dialog = "closed"
  /\ form = None
  /\ opened = None
  /\ trail = NewTrail

-----------------------------------------------------------------------------
(* Rules that rewrite the form.                                              *)

\* nodeShareOptionAvailable: the strategy `node` is offered.  A list that has
\* not arrived, or failed to, is empty.
NodeOffered(protocol, answer) ==
  answer = "ok" /\ hasNode /\ protocol \in NodeEligible

\* Mutant: the list of nodes counts as known before it has arrived.
SettledEarly(f, answer) ==
  IF ~NodeOffered(f.protocol, answer) /\ f.strategy = "node"
  THEN [f EXCEPT !.strategy = "listen"]
  ELSE f

\* The effect that runs after every change: a strategy that is not offered
\* becomes `listen`, once the request for the nodes was answered, by the list
\* or by an error (availableNodesFetched).
Settled(f, answer) ==
  IF answer # "no" /\ ~NodeOffered(f.protocol, answer) /\ f.strategy = "node"
  THEN [f EXCEPT !.strategy = "listen"]
  ELSE f

\* Mutant: the row is taken as it is.
Unhealed(stream) == stream

\* healStreamNetworkKey: an older row gets its missing slice.
Healed(stream) ==
  IF stream # None /\ stream.network # None
  THEN [stream EXCEPT !.slices = @ \cup {stream.network}]
  ELSE stream

\* Mutant: a hysteria client is only carried from hysteria.
CarriedByField(next, creds, uuids) ==
  [NoCreds EXCEPT ![OwnField(next)] =
     IF creds[OwnField(next)] = "absent" \/ (OwnField(next) = "id" /\ ~uuids)
     THEN "fresh" ELSE creds[OwnField(next)]]

\* Where migrateClientsToProtocol takes the credential of each client from; an
\* id is only taken over when it is a UUID.
Carried(next, creds, uuids) ==
  LET have(f) == creds[f] # "absent" /\ (f = "id" => uuids)
      origin == IF next # "shadowsocks" /\ have(OwnField(next)) THEN creds[OwnField(next)]
                ELSE IF next = "trojan" /\ have("auth") THEN creds["auth"]
                ELSE IF next = "hysteria" /\ have("password") THEN creds["password"]
                ELSE "fresh"
  IN  [NoCreds EXCEPT ![OwnField(next)] = origin]

\* The settings a newly picked protocol starts from: the clients of an
\* edited inbound are rebuilt, those of a new one are gone.
WithProtocol(f, next, editing) ==
  LET keeps == editing /\ next \in ClientBearing /\ f.emails # {}
  IN  [f EXCEPT !.protocol = next,
                !.emails = IF keeps THEN @ ELSE {},
                !.creds = IF keeps THEN Carried(next, @, f.uuids) ELSE NoCreds,
                !.uuids = TRUE,
                !.node = @ /\ (editing \/ next \in NodeEligible)]

\* Mutant: leaving hysteria keeps its transport.
StreamKept(next, stream) ==
  CASE next = "hysteria" ->
         [network |-> "hysteria", security |-> "tls",
          slices |-> {"hysteria", "tls"}, masks |-> {"salamander"}]
    [] next \in Transportless ->
         [network |-> None, security |-> "none", slices |-> {}, masks |-> {}]
    [] next \notin Transportless \cup {"hysteria"} ->
         IF stream = None THEN EmptyTcp
         ELSE IF stream.network = None THEN EmptyTcp ELSE stream

\* The stream settings after a new protocol was picked.
StreamFor(next, stream) ==
  CASE next = "hysteria" ->
         [network |-> "hysteria", security |-> "tls",
          slices |-> {"hysteria", "tls"}, masks |-> {"salamander"}]
    [] next \in Transportless ->
         [network |-> None, security |-> "none", slices |-> {}, masks |-> {}]
    [] next \notin Transportless \cup {"hysteria"} ->
         IF stream = None \/ stream.network \in {None, "hysteria"}
         THEN EmptyTcp ELSE stream

\* Every discriminator has its slice.
SlicesParse(f) ==
  f.stream # None =>
    /\ f.stream.network # None => f.stream.network \in f.stream.slices
    /\ f.stream.security # "none" => f.stream.security \in f.stream.slices

\* Every client has its credential, which only shadowsocks may leave blank.
ClientsParse(f) ==
  f.emails # {} /\ f.protocol # "shadowsocks" =>
    f.creds[OwnField(f.protocol)] # "absent"

\* InboundFormSchema accepts the form.
Parses(f) == SlicesParse(f) /\ ClientsParse(f)

\* What the schema lets through of the stream settings, and what the server
\* keeps of it.
StoredStream(f) ==
  IF f.stream = None \/ f.protocol \notin StreamProtocols THEN None
  ELSE [f.stream EXCEPT
         !.slices = ({f.stream.network} \ {None})
                    \cup ({f.stream.security} \ {"none"})]

\* The credentials the clients may be stored with: their protocol's; a blank
\* shadowsocks password is made up for the methods that ask for one.
StoredCreds(f) ==
  IF f.protocol \notin ClientBearing \/ f.emails = {} THEN {{}}
  ELSE IF f.creds[OwnField(f.protocol)] # "absent" THEN {{OwnField(f.protocol)}}
  ELSE {{}, {OwnField(f.protocol)}}

-----------------------------------------------------------------------------
(* The operator's actions.                                                   *)

Editing == dialog \in {"add", "edit"}

OpenAdd ==
  /\ dialog = "closed" /\ row = None
  /\ dialog' = "add"
  /\ form' = Settled([protocol |-> "vless", stream |-> EmptyTcp,
                      node |-> FALSE, strategy |-> "node",
                      emails |-> {}, creds |-> NoCreds, uuids |-> TRUE],
                     fetched)
  /\ trail' = [NewTrail EXCEPT !.blind = fetched = "failed"]
  /\ UNCHANGED <<row, hasNode, fetched, opened>>

\* The dialog opens on the row as the server has it or, when it cannot be
\* fetched, on the row of the list, whose clients come without credentials.
OpenEdit(slim) ==
  /\ dialog = "closed" /\ row # None
  /\ slim => row.emails # {}
  /\ dialog' = "edit"
  /\ opened' = row
  /\ form' = Settled([protocol |-> row.protocol, stream |-> Healed(row.stream),
                      node |-> row.node, strategy |-> row.strategy,
                      emails |-> row.emails,
                      creds |-> [f \in Fields |-> IF f \in row.creds /\ ~slim
                                                  THEN "kept" ELSE "absent"],
                      uuids |-> row.uuids],
                     fetched)
  /\ trail' = [NewTrail EXCEPT !.slim = slim, !.blind = fetched = "failed"]
  /\ UNCHANGED <<row, hasNode, fetched>>

\* Which of these protocols take over each other's credential.
Family(protocol) ==
  CASE protocol \in {"vless", "vmess"} -> "uuid"
    [] protocol \in {"trojan", "hysteria"} -> "secret"
    [] OTHER -> "other"

PickProtocol(next) ==
  /\ Editing /\ next # form.protocol
  /\ form' = Settled(WithProtocol([form EXCEPT
                       !.stream = StreamFor(next, form.stream)],
                     next, dialog = "edit"), fetched)
  /\ trail' = [trail EXCEPT
       !.shed = @ \/ next \notin ClientBearing,
       !.crossed = @ \/ Family(next) = "other"
                     \/ Family(next) # Family(form.protocol)]
  /\ UNCHANGED <<row, hasNode, fetched, dialog, opened>>

\* onNetworkChange: the other transports' slices go, the security stays.
PickNetwork(next) ==
  /\ Editing
  /\ form.protocol \in StreamProtocols \ (Transportless \cup {"hysteria"})
  /\ next # form.stream.network
  /\ form' = [form EXCEPT
       !.stream.network = next,
       !.stream.slices = (@ \ AllTransports) \cup {next},
       !.stream.masks = IF next = "kcp" THEN @ \cup {"mkcp-legacy"}
                                        ELSE @ \ {"mkcp-legacy"}]
  /\ UNCHANGED <<row, hasNode, fetched, dialog, opened, trail>>

\* The radio group of the security tab, with the buttons it shows.
PickSecurity(next) ==
  /\ Editing
  /\ form.protocol \in StreamProtocols \ Transportless
  /\ next # form.stream.security
  /\ CanEnableTls(form.protocol, form.stream.network)
  /\ next = "none" => form.protocol # "hysteria"
  /\ next = "reality" => CanEnableReality(form.protocol, form.stream.network)
  /\ form' = [form EXCEPT
       !.stream.security = next,
       !.stream.slices = (@ \ {"tls", "reality"}) \cup ({next} \ {"none"})]
  /\ UNCHANGED <<row, hasNode, fetched, dialog, opened, trail>>

\* The list of UDP masks, shown for these transports only.
EditMask(mask) ==
  /\ Editing
  /\ form.protocol \in StreamProtocols \ {"tunnel"}
  /\ form.protocol \in {"hysteria", "wireguard"} \/ form.stream.network = "kcp"
  /\ \/ mask \in form.stream.masks
     \/ mask = "mkcp-legacy" /\ form.protocol # "hysteria"
     \/ mask = "salamander" /\ form.protocol \in {"hysteria", "wireguard"}
  /\ form' = [form EXCEPT !.stream.masks =
                IF mask \in @ THEN @ \ {mask} ELSE @ \cup {mask}]
  /\ UNCHANGED <<row, hasNode, fetched, dialog, opened, trail>>

\* The deployment picker: add mode only.
PickNode(on) ==
  /\ dialog = "add" /\ NodeOffered(form.protocol, fetched)
  /\ form' = [form EXCEPT !.node = on]
  /\ form' # form
  /\ UNCHANGED <<row, hasNode, fetched, dialog, opened, trail>>

PickStrategy(s) ==
  /\ Editing /\ s # form.strategy
  /\ s = "node" => NodeOffered(form.protocol, fetched)
  /\ form' = [form EXCEPT !.strategy = s]
  /\ trail' = [trail EXCEPT !.chose = TRUE]
  /\ UNCHANGED <<row, hasNode, fetched, dialog, opened>>

Shut ==
  /\ dialog' = "closed"
  /\ form' = None
  /\ opened' = None
  /\ trail' = NewTrail

Cancel == Editing /\ Shut /\ UNCHANGED <<row, hasNode, fetched>>

\* submit: the schema accepts the form, the request succeeds, the dialog
\* closes.  The server replaces the clients by those it was sent.
Submit ==
  /\ Parses(form)
  /\ \E creds \in StoredCreds(form) :
       row' = [protocol |-> form.protocol, stream |-> StoredStream(form),
               node |-> form.node, strategy |-> form.strategy,
               emails |-> form.emails, creds |-> creds, uuids |-> form.uuids]
  /\ Shut
  /\ UNCHANGED <<hasNode, fetched>>

ProtocolChanged == dialog = "edit" /\ form.protocol # opened.protocol

\* handleOk: save at once, or ask first.
SaveAtOnce == Editing /\ ~ProtocolChanged /\ Submit

Ask ==
  /\ ProtocolChanged
  /\ dialog' = "confirm"
  /\ UNCHANGED <<row, hasNode, fetched, form, opened, trail>>

Confirm == dialog = "confirm" /\ Submit

Dismiss ==
  /\ dialog = "confirm"
  /\ dialog' = "edit"
  /\ UNCHANGED <<row, hasNode, fetched, form, opened, trail>>

-----------------------------------------------------------------------------
(* Others.                                                                   *)

\* The list of nodes arrives; an open dialog settles again.
NodesArrive ==
  /\ fetched # "ok"
  /\ fetched' = "ok"
  /\ form' = IF form = None THEN None ELSE Settled(form, "ok")
  /\ UNCHANGED <<row, hasNode, dialog, opened, trail>>

\* The request for it fails, which counts as an answer with no nodes.
NodesFail ==
  /\ fetched = "no"
  /\ fetched' = "failed"
  /\ form' = IF form = None THEN None ELSE Settled(form, "failed")
  /\ trail' = [trail EXCEPT !.blind = form # None]
  /\ UNCHANGED <<row, hasNode, dialog, opened>>

\* Another page adds a client, which may carry every protocol's credential;
\* its id need not be a UUID.
ClientAdded(email) ==
  /\ row # None
  /\ row.protocol \in ClientBearing /\ email \notin row.emails
  /\ \E all \in {Fields, {OwnField(row.protocol)}}, uuids \in BOOLEAN :
       /\ "id" \notin all => uuids
       /\ row' = [row EXCEPT !.emails = @ \cup {email},
                             !.creds = IF row.emails = {} THEN all ELSE @,
                             !.uuids = IF row.emails = {} THEN uuids ELSE @]
  /\ UNCHANGED <<hasNode, fetched, dialog, form, opened, trail>>

InboundDeleted ==
  /\ row # None /\ dialog = "closed"
  /\ row' = None
  /\ UNCHANGED <<hasNode, fetched, dialog, form, opened, trail>>

Next ==
  \/ OpenAdd \/ Cancel
  \/ \E slim \in BOOLEAN : OpenEdit(slim)
  \/ \E p \in Protocols : PickProtocol(p)
  \/ \E n \in Transports : PickNetwork(n)
  \/ \E s \in Securities : PickSecurity(s)
  \/ \E k \in Masks : EditMask(k)
  \/ \E on \in BOOLEAN : PickNode(on)
  \/ \E s \in Strategies : PickStrategy(s)
  \/ SaveAtOnce \/ Ask \/ Confirm \/ Dismiss
  \/ NodesArrive \/ NodesFail
  \/ \E e \in Emails : ClientAdded(e)
  \/ InboundDeleted

Spec == Init /\ [][Next]_vars

-----------------------------------------------------------------------------
(* Properties.                                                               *)

Saves == SaveAtOnce \/ Confirm

\* The dialog never holds values its own schema refuses: whatever was picked
\* before, each discriminator has the slice the operator could fill in, and each
\* client its credential, unless the dialog opened on the list's row.  The
\* message the schema would give names a field no tab shows.
AlwaysParses ==
  form # None => SlicesParse(form) /\ (ClientsParse(form) \/ trail.slim)

\* "hysteria is only valid when the parent protocol is hysteria": the stored
\* stream settings fit the protocol, with that network's slice and no other,
\* however many protocols and transports were tried before.  The mask mKCP is
\* seeded with never stays behind on another transport either, where the list
\* that could remove it is hidden.
StreamFitsProtocol ==
  row # None /\ row.stream # None =>
    LET st == row.stream
    IN  /\ st.network = "hysteria" <=> row.protocol = "hysteria"
        /\ row.protocol = "hysteria" => st.security = "tls"
        /\ row.protocol \in Transportless <=> st.network = None
        /\ row.protocol \in Transportless => st.security = "none"
        /\ Cardinality(st.slices \cap Networks) <= 1
        /\ "mkcp-legacy" \in st.masks =>
             st.network = "kcp" \/ row.protocol = "wireguard"

\* "Editing an existing inbound must not silently wipe its clients": while
\* every protocol tried has clients, saving keeps each client the dialog was
\* opened with; and as long as only protocols were tried that take over each
\* other's credential, in any order, every share link stays valid.  Ids that
\* are not UUIDs are not taken over, and of the list's row there is no credential
\* to keep.
ClientsKept ==
  [][Saves /\ opened # None =>
       /\ ~trail.shed => opened.emails \subseteq row'.emails
       /\ /\ opened.emails # {} /\ OwnField(opened.protocol) \in opened.creds
          /\ Family(opened.protocol) = "uuid" => opened.uuids
          /\ ~trail.crossed /\ ~trail.slim
          => form.creds[OwnField(form.protocol)] = "kept"]_vars

\* A stored `node` strategy is not clobbered because the list of nodes comes
\* late (#5375): while an enabled node exists it is saved as it was, unless
\* the operator chose another or a protocol without it was held.  It is lost
\* when the request for the nodes fails, which counts as a list without any.
NodeStrategyKept ==
  [][Saves /\ opened # None /\ opened.protocol \in NodeEligible
       /\ hasNode /\ ~trail.shed /\ ~trail.chose /\ ~trail.blind
       => row'.strategy = opened.strategy]_vars

\* "Changing the protocol of a live inbound rewrites every client credential
\* ... make the operator acknowledge it once": a save that asked nothing
\* leaves every client and its credential as the dialog found them.
AcknowledgedOnce ==
  [][SaveAtOnce /\ opened # None /\ opened.emails # {}
       => /\ opened.emails \subseteq row'.emails
          /\ form.creds[OwnField(form.protocol)] = "kept"]_vars
=============================================================================
