--------------------------- MODULE InboundFormProofs ---------------------------
(***************************************************************************)
(* For any selection of protocols and transports, any clients and any      *)
(* order of choices: the dialog's schema accepts the form unless it opened *)
(* without the clients' credentials, what is stored fits its protocol, and *)
(* editing loses neither clients nor, while the list of nodes can be had,  *)
(* a share strategy nobody changed.                                        *)
(***************************************************************************)
EXTENDS InboundForm, FiniteSetTheorems, TLAPS

USE PickersAssumption, NoneAssumption

\* Stream settings a protocol may hold while it is being edited.
Fits(protocol, st) ==
  IF st = None THEN protocol \notin StreamProtocols
  ELSE /\ (st.network = "hysteria") <=> (protocol = "hysteria")
       /\ protocol = "hysteria" => st.security = "tls"
       /\ (protocol \in Transportless) <=> (st.network = None)
       /\ protocol \in Transportless => st.security = "none"
       /\ "mkcp-legacy" \in st.masks => st.network = "kcp" \/ protocol = "wireguard"

\* Every discriminator has its slice.
Sliced(st) ==
  st # None =>
    /\ st.network # None => st.network \in st.slices
    /\ st.security # "none" => st.security \in st.slices

\* What a stored row has of slices: no other transport's, and that of its security.
Trim(st) ==
  st # None =>
    /\ st.slices \cap Networks \subseteq {st.network}
    /\ st.security # "none" => st.security \in st.slices

FormFits == form # None => Fits(form.protocol, form.stream) /\ Sliced(form.stream)
RowFits == row # None => Fits(row.protocol, row.stream) /\ Trim(row.stream)

FitInv == TypeOK /\ FormFits /\ RowFits

-----------------------------------------------------------------------------
\* The operators that rewrite the form.

\* The protocols fall into those with a transport of their own choice, hysteria, those
\* without transport and those without stream settings.
LEMMA ProtocolFacts ==
  /\ Protocols \subseteq AllProtocols
  /\ "hysteria" \in StreamProtocols /\ "hysteria" \notin Transportless
  /\ Transportless \subseteq StreamProtocols
  /\ None \notin AllTransports /\ None # "hysteria" /\ "hysteria" \notin AllTransports
  /\ "vless" \in Protocols /\ "vless" \in StreamProtocols \ Transportless
  /\ ClientBearing \subseteq NodeEligible
BY DEF AllProtocols, StreamProtocols, Transportless, NodeEligible, ClientBearing, AllTransports

\* Settling changes nothing but the strategy, and that one only where `node` is not
\* offered.
LEMMA SettledFacts ==
  ASSUME NEW f \in Forms, NEW known \in Answers
  PROVE  /\ Settled(f, known) \in Forms
         /\ Settled(f, known).protocol = f.protocol
         /\ Settled(f, known).stream = f.stream
         /\ Settled(f, known).node = f.node
         /\ Settled(f, known).emails = f.emails
         /\ Settled(f, known).creds = f.creds
         /\ Settled(f, known).uuids = f.uuids
         /\ hasNode /\ f.protocol \in NodeEligible /\ known # "failed" => Settled(f, known).strategy = f.strategy
BY DEF Settled, Forms, Answers, NodeOffered

\* The settings an added inbound starts from.
LEMMA EmptyTcpFits ==
  ASSUME NEW p \in StreamProtocols \ (Transportless \cup {"hysteria"})
  PROVE  EmptyTcp \in Streams /\ Fits(p, EmptyTcp) /\ Sliced(EmptyTcp) /\ EmptyTcp # None
<1>1. EmptyTcp \in Streams
  BY DEF EmptyTcp, Streams, Networks, AllTransports, Securities, Slices
<1>2. EmptyTcp.network = "tcp" /\ EmptyTcp.security = "none" /\ EmptyTcp.masks = {}
      /\ EmptyTcp.slices = {"tcp"}
  BY DEF EmptyTcp
<1>3. "tcp" # None /\ p # "hysteria" /\ p \notin Transportless
  BY DEF AllTransports
<1>4. EmptyTcp # None
  BY <1>1
<1> QED
  BY <1>1, <1>2, <1>3, <1>4 DEF Fits, Sliced

\* Whatever was picked before, the stream settings after a new protocol fit it.
LEMMA StreamForFits ==
  ASSUME NEW p, NEW st \in Streams \cup {None}, Fits(p, st), Sliced(st), NEW next \in Protocols
  PROVE  /\ StreamFor(next, st) \in Streams /\ StreamFor(next, st) # None
         /\ Fits(next, StreamFor(next, st)) /\ Sliced(StreamFor(next, st))
<1>1. CASE next = "hysteria"
  <2> DEFINE s == [network |-> "hysteria", security |-> "tls",
                   slices |-> {"hysteria", "tls"}, masks |-> {"salamander"}]
  <2>1. StreamFor(next, st) = s
    BY <1>1, ProtocolFacts DEF StreamFor
  <2>2. s \in Streams
    BY DEF Streams, Networks, AllTransports, Securities, Slices, Masks
  <2>3. Fits(next, s) /\ Sliced(s) /\ s # None
    BY <1>1, <2>2, ProtocolFacts DEF Fits, Sliced
  <2> QED
    BY <2>1, <2>2, <2>3
<1>2. CASE next \in Transportless
  <2> DEFINE s == [network |-> None, security |-> "none", slices |-> {}, masks |-> {}]
  <2>1. StreamFor(next, st) = s
    BY <1>2, ProtocolFacts DEF StreamFor
  <2>2. s \in Streams
    BY DEF Streams, Networks, Securities, Slices, Masks
  <2>3. Fits(next, s) /\ Sliced(s) /\ s # None
    BY <1>2, <2>2, ProtocolFacts DEF Fits, Sliced
  <2> QED
    BY <2>1, <2>2, <2>3
<1>3. CASE next \notin Transportless \cup {"hysteria"}
  <2>1. CASE st = None \/ st.network \in {None, "hysteria"}
    <3>1. StreamFor(next, st) = EmptyTcp
      BY <1>3, <2>1 DEF StreamFor
    <3>2. EmptyTcp \in Streams /\ EmptyTcp # None /\ Sliced(EmptyTcp)
      BY EmptyTcpFits, ProtocolFacts
    <3>3. Fits(next, EmptyTcp)
      BY <1>3, <3>2, ProtocolFacts DEF Fits, EmptyTcp, AllTransports
    <3> QED
      BY <3>1, <3>2, <3>3
  <2>2. CASE st # None /\ st.network \notin {None, "hysteria"}
    <3>1. StreamFor(next, st) = st /\ st \in Streams
      BY <1>3, <2>2 DEF StreamFor
    <3>2. Fits(next, st)
      BY <1>3, <2>2 DEF Fits, Transportless
    <3> QED
      BY <2>2, <3>1, <3>2
  <2> QED
    BY <2>1, <2>2
<1> QED
  BY <1>1, <1>2, <1>3

\* A client's credential is carried or made, in the field of its protocol.
LEMMA CarriedFacts ==
  ASSUME NEW next \in ClientBearing, NEW creds \in [Fields -> Origins], NEW uuids \in BOOLEAN
  PROVE  /\ OwnField(next) \in Fields
         /\ Carried(next, creds, uuids) \in [Fields -> Origins]
         /\ Carried(next, creds, uuids)[OwnField(next)] # "absent"
<1>1. OwnField(next) \in Fields
  BY DEF ClientBearing, OwnField, Fields
<1>2. NoCreds \in [Fields -> Origins] /\ \A f \in Fields : NoCreds[f] = "absent"
  BY DEF NoCreds, Origins
<1>3. PICK o : /\ Carried(next, creds, uuids) = [NoCreds EXCEPT ![OwnField(next)] = o]
               /\ o \in Origins /\ o # "absent"
  BY <1>1 DEF Carried, Origins, Fields
<1> QED
  BY <1>1, <1>2, <1>3

\* Picking a protocol leaves a form.
LEMMA WithProtocolFacts ==
  ASSUME NEW f \in Forms, NEW st \in Streams, NEW next \in Protocols, NEW editing \in BOOLEAN
  PROVE  LET g == WithProtocol([f EXCEPT !.stream = st], next, editing)
         IN  /\ g \in Forms /\ g.protocol = next /\ g.stream = st
             /\ g.strategy = f.strategy
             /\ g.emails = IF editing /\ next \in ClientBearing /\ f.emails # {}
                             THEN f.emails ELSE {}
             /\ g.uuids
             /\ editing /\ next \in ClientBearing /\ f.emails # {} =>
                  g.creds = Carried(next, f.creds, f.uuids)
<1> DEFINE b == [f EXCEPT !.stream = st]
           keeps == editing /\ next \in ClientBearing /\ b.emails # {}
<1>1. b \in Forms /\ b.emails = f.emails /\ b.creds = f.creds /\ b.strategy = f.strategy
      /\ b.stream = st /\ b.uuids = f.uuids
  BY DEF Forms
<1> HIDE DEF b
<1>2. keeps => Carried(next, b.creds, b.uuids) \in [Fields -> Origins]
  BY <1>1, CarriedFacts DEF Forms
<1>3. NoCreds \in [Fields -> Origins]
  BY DEF NoCreds, Origins
<1>4. (b.node /\ (editing \/ next \in NodeEligible)) \in BOOLEAN
  OBVIOUS
<1>5. PICK e, c, n : /\ WithProtocol(b, next, editing) =
                          [b EXCEPT !.protocol = next, !.emails = e, !.creds = c,
                                    !.uuids = TRUE, !.node = n]
                     /\ e = IF keeps THEN b.emails ELSE {}
                     /\ c = IF keeps THEN Carried(next, b.creds, b.uuids) ELSE NoCreds
                     /\ n \in BOOLEAN
  BY <1>4 DEF WithProtocol
<1>6. e \in SUBSET Emails /\ c \in [Fields -> Origins]
  BY <1>1, <1>2, <1>3, <1>5 DEF Forms
<1>7. /\ WithProtocol(b, next, editing) \in Forms
      /\ WithProtocol(b, next, editing).protocol = next
      /\ WithProtocol(b, next, editing).stream = b.stream
      /\ WithProtocol(b, next, editing).strategy = b.strategy
      /\ WithProtocol(b, next, editing).emails = e
      /\ WithProtocol(b, next, editing).creds = c
      /\ WithProtocol(b, next, editing).uuids
  BY <1>1, <1>5, <1>6 DEF Forms
<1> QED
  BY <1>1, <1>5, <1>7 DEF b

\* The server keeps the slices of the discriminators.
LEMMA StoredFacts ==
  ASSUME NEW f \in Forms, Fits(f.protocol, f.stream), Sliced(f.stream)
  PROVE  /\ StoredStream(f) \in Streams \cup {None}
         /\ Fits(f.protocol, StoredStream(f)) /\ Trim(StoredStream(f))
<1>1. CASE f.stream = None \/ f.protocol \notin StreamProtocols
  <2>1. StoredStream(f) = None /\ f.protocol \notin StreamProtocols
    BY <1>1 DEF StoredStream, Fits
  <2> QED
    BY <2>1 DEF Fits, Trim
<1>2. CASE f.stream # None /\ f.protocol \in StreamProtocols
  <2> DEFINE st == f.stream
             kept == ({st.network} \ {None}) \cup ({st.security} \ {"none"})
             s == [st EXCEPT !.slices = kept]
  <2>1. StoredStream(f) = s /\ st \in Streams
    BY <1>2 DEF StoredStream, Forms
  <2>2. kept \in SUBSET Slices
    BY <2>1 DEF Streams, Slices, Networks, Securities
  <2>3. s \in Streams /\ s.network = st.network /\ s.security = st.security
        /\ s.masks = st.masks /\ s.slices = kept
    BY <2>1, <2>2 DEF Streams
  <2>4. Fits(f.protocol, s) /\ s # None
    BY <1>2, <2>3 DEF Fits
  <2>5. st.security \notin Networks
    BY <2>1 DEF Streams, Securities, Networks, AllTransports
  <2>6. Trim(s)
    BY <2>3, <2>4, <2>5 DEF Trim
  <2> QED
    BY <2>1, <2>3, <2>4, <2>6
<1> QED
  BY <1>1, <1>2

-----------------------------------------------------------------------------
\* What is shown always parses, what is stored always fits.

\* An action that only rewrites the form, to one that fits.
LEMMA Rewritten ==
  ASSUME FitInv, form # None, NEW f \in Forms, form' = f,
         Fits(f.protocol, f.stream), Sliced(f.stream), trail' \in Trails,
         UNCHANGED <<row, hasNode, fetched, dialog, opened>>
  PROVE  FitInv'
<1>1. f # None
  OBVIOUS
<1> QED
  BY <1>1 DEF FitInv, TypeOK, FormFits, RowFits, Trails

\* ... of the stream settings only.
LEMMA StreamRewritten ==
  ASSUME FitInv, form # None, NEW st \in Streams, form' = [form EXCEPT !.stream = st],
         Fits(form.protocol, st), Sliced(st), 
         UNCHANGED <<row, hasNode, fetched, dialog, opened, trail>>
  PROVE  FitInv'
<1>1. form \in Forms
  BY DEF FitInv, TypeOK
<1>2. [form EXCEPT !.stream = st] \in Forms
      /\ [form EXCEPT !.stream = st].stream = st
      /\ [form EXCEPT !.stream = st].protocol = form.protocol
  BY <1>1 DEF Forms
<1>3. trail' \in Trails
  BY DEF FitInv, TypeOK, Trails
<1> QED
  BY <1>2, <1>3, Rewritten

\* Opening the dialog.
LEMMA OpensFit == ASSUME FitInv, OpenAdd \/ \E slim \in BOOLEAN : OpenEdit(slim) PROVE FitInv'
<1>0. /\ fetched \in Answers
      /\ \A slim \in BOOLEAN :
           [NewTrail EXCEPT !.slim = slim, !.blind = fetched = "failed"] \in Trails
      /\ [NewTrail EXCEPT !.blind = fetched = "failed"] \in Trails
  BY DEF FitInv, TypeOK, NewTrail, Trails
<1>1. CASE OpenAdd
  <2> DEFINE f == [protocol |-> "vless", stream |-> EmptyTcp, node |-> FALSE,
                   strategy |-> "node", emails |-> {}, creds |-> NoCreds,
                   uuids |-> TRUE]
  <2>1. EmptyTcp \in Streams /\ Fits("vless", EmptyTcp) /\ Sliced(EmptyTcp)
    BY EmptyTcpFits, ProtocolFacts
  <2>2. f \in Forms
    BY <2>1, ProtocolFacts DEF Forms, NoCreds, Origins
  <2>3. /\ Settled(f, fetched) \in Forms
        /\ Settled(f, fetched).protocol = "vless" /\ Settled(f, fetched).stream = EmptyTcp
    BY <1>0, <2>2, SettledFacts
  <2>4. /\ form' = Settled(f, fetched) /\ dialog' = "add" /\ trail' \in Trails
        /\ UNCHANGED <<row, hasNode, fetched, opened>> /\ dialog = "closed"
    BY <1>0, <1>1 DEF OpenAdd
  <2> QED
    BY <1>0, <2>1, <2>3, <2>4 DEF FitInv, TypeOK, FormFits, RowFits
<1>2. ASSUME NEW slim \in BOOLEAN, OpenEdit(slim) PROVE FitInv'
  <2> DEFINE f == [protocol |-> row.protocol, stream |-> Healed(row.stream),
                   node |-> row.node, strategy |-> row.strategy, emails |-> row.emails,
                   creds |-> [x \in Fields |-> IF x \in row.creds /\ ~slim
                                               THEN "kept" ELSE "absent"],
                   uuids |-> row.uuids]
  <2>1. row \in Rows /\ Fits(row.protocol, row.stream) /\ Trim(row.stream)
    BY <1>2 DEF OpenEdit, FitInv, TypeOK, RowFits
  <2>2. /\ Healed(row.stream) \in Streams \cup {None}
        /\ Fits(row.protocol, Healed(row.stream)) /\ Sliced(Healed(row.stream))
    <3>1. CASE row.stream = None
      BY <2>1, <3>1 DEF Healed, Sliced
    <3>2. CASE row.stream # None /\ row.stream.network = None
      BY <2>1, <3>2 DEF Healed, Sliced, Trim, Rows
    <3>3. CASE row.stream # None /\ row.stream.network # None
      <4> DEFINE st == row.stream
                 healed == [st EXCEPT !.slices = @ \cup {st.network}]
      <4>1. st \in Streams /\ st.network \in Slices
        BY <2>1, <3>3 DEF Rows, Streams, Slices
      <4>2. healed \in Streams /\ healed.network = st.network
            /\ healed.security = st.security /\ healed.masks = st.masks
            /\ healed.slices = st.slices \cup {st.network}
        BY <4>1 DEF Streams
      <4>3. Healed(st) = healed /\ healed # None
        BY <3>3, <4>2 DEF Healed
      <4> QED
        BY <2>1, <3>3, <4>2, <4>3 DEF Fits, Sliced, Trim
    <3> QED
      BY <3>1, <3>2, <3>3
  <2>3. f \in Forms
    BY <2>1, <2>2 DEF Rows, Forms, Origins
  <2>4. /\ Settled(f, fetched) \in Forms
        /\ Settled(f, fetched).protocol = row.protocol
        /\ Settled(f, fetched).stream = Healed(row.stream)
    BY <1>0, <2>3, SettledFacts
  <2>5. /\ form' = Settled(f, fetched) /\ dialog' = "edit" /\ trail' \in Trails /\ opened' = row
        /\ UNCHANGED <<row, hasNode, fetched>>
    BY <1>0, <1>2 DEF OpenEdit
  <2> QED
    BY <1>0, <2>1, <2>2, <2>4, <2>5 DEF FitInv, TypeOK, FormFits, RowFits
<1> QED
  BY <1>1, <1>2

\* Picking a protocol.
LEMMA ProtocolFits ==
  ASSUME FitInv, NEW next \in Protocols, PickProtocol(next) PROVE FitInv'
<1> DEFINE st == StreamFor(next, form.stream)
           f == WithProtocol([form EXCEPT !.stream = st], next, dialog = "edit")
<1>1. /\ form \in Forms /\ form # None /\ Fits(form.protocol, form.stream)
      /\ Sliced(form.stream) /\ fetched \in Answers /\ trail \in Trails
  BY DEF PickProtocol, Editing, FitInv, TypeOK, FormFits
<1>2. st \in Streams /\ Fits(next, st) /\ Sliced(st)
  BY <1>1, StreamForFits DEF Forms
<1>3. f \in Forms /\ f.protocol = next /\ f.stream = st
  <2>1. PICK editing \in BOOLEAN : editing = (dialog = "edit")
    OBVIOUS
  <2> DEFINE g == WithProtocol([form EXCEPT !.stream = st], next, editing)
  <2>2. g \in Forms /\ g.protocol = next /\ g.stream = st
    <3> HIDE DEF st
    <3> QED
      BY <1>1, <1>2, WithProtocolFacts
  <2> QED
    BY <2>1, <2>2
<1>4. /\ Settled(f, fetched) \in Forms
      /\ Settled(f, fetched).protocol = next /\ Settled(f, fetched).stream = st
  BY <1>1, <1>3, SettledFacts
<1>5. /\ form' = Settled(f, fetched)
      /\ UNCHANGED <<row, hasNode, fetched, dialog, opened>>
  BY DEF PickProtocol
<1>6. trail' \in Trails
  BY <1>1 DEF PickProtocol, Trails
<1> QED
  BY <1>1, <1>2, <1>4, <1>5, <1>6, Rewritten

\* Picking a transport.
LEMMA NetworkFits ==
  ASSUME FitInv, NEW next \in Transports, PickNetwork(next) PROVE FitInv'
<1> DEFINE st == form.stream
           masks == IF next = "kcp" THEN st.masks \cup {"mkcp-legacy"}
                                    ELSE st.masks \ {"mkcp-legacy"}
           new == [st EXCEPT !.network = next,
                             !.slices = (st.slices \ AllTransports) \cup {next},
                             !.masks = masks]
<1>1. /\ form \in Forms /\ form # None /\ Fits(form.protocol, st) /\ Sliced(st)
      /\ form.protocol \in StreamProtocols \ (Transportless \cup {"hysteria"})
  BY DEF PickNetwork, Editing, FitInv, TypeOK, FormFits
<1>2. st \in Streams /\ st # None /\ next \in AllTransports
  BY <1>1 DEF Fits, Forms
<1>3. masks \in SUBSET Masks
  BY <1>2 DEF Streams, Masks
<1>4. (st.slices \ AllTransports) \cup {next} \in SUBSET Slices
  BY <1>2 DEF Streams, Slices, Networks
<1>5. /\ new \in Streams /\ new.network = next /\ new.security = st.security
      /\ new.slices = (st.slices \ AllTransports) \cup {next} /\ new.masks = masks
  BY <1>2, <1>3, <1>4 DEF Streams, Networks
<1>6. form' = [form EXCEPT !.stream = new]
  BY <1>1, <1>2 DEF PickNetwork, Forms, Streams
<1>7. st.security \notin AllTransports
  BY <1>2 DEF Streams, Securities, AllTransports
<1>8. Fits(form.protocol, new) /\ Sliced(new)
  <2>1. next # "hysteria" /\ next # None
    BY <1>2, ProtocolFacts
  <2>2. "mkcp-legacy" \in masks => next = "kcp"
    OBVIOUS
  <2> QED
    BY <1>1, <1>2, <1>5, <1>7, <2>1, <2>2 DEF Fits, Sliced
<1> QED
  BY <1>1, <1>5, <1>6, <1>8, StreamRewritten DEF PickNetwork

\* Picking a security.
LEMMA SecurityFits ==
  ASSUME FitInv, NEW next \in Securities, PickSecurity(next) PROVE FitInv'
<1> DEFINE st == form.stream
           slices == (st.slices \ {"tls", "reality"}) \cup ({next} \ {"none"})
           new == [st EXCEPT !.security = next, !.slices = slices]
<1>1. /\ form \in Forms /\ form # None /\ Fits(form.protocol, st) /\ Sliced(st)
      /\ form.protocol \in StreamProtocols \ Transportless
  BY DEF PickSecurity, Editing, FitInv, TypeOK, FormFits
<1>2. st \in Streams /\ st # None
  BY <1>1 DEF Fits, Forms
<1>3. slices \in SUBSET Slices
  BY <1>2 DEF Streams, Slices, Securities
<1>4. /\ new \in Streams /\ new.network = st.network /\ new.security = next
      /\ new.slices = slices /\ new.masks = st.masks
  BY <1>2, <1>3 DEF Streams
<1>5. form' = [form EXCEPT !.stream = new]
  BY <1>1, <1>2 DEF PickSecurity, Forms, Streams
<1>6. st.network \notin {"tls", "reality"} \/ st.network = None
  BY <1>2 DEF Streams, Networks, AllTransports
<1>7. form.protocol # "hysteria"
  BY <1>1, <1>2 DEF PickSecurity, Fits, CanEnableReality, Securities
<1>8. Fits(form.protocol, new) /\ Sliced(new)
  BY <1>1, <1>2, <1>4, <1>6, <1>7 DEF Fits, Sliced
<1> QED
  BY <1>1, <1>4, <1>5, <1>8, StreamRewritten DEF PickSecurity

\* Editing the masks.
LEMMA MaskFits ==
  ASSUME FitInv, NEW mask \in Masks, EditMask(mask) PROVE FitInv'
<1> DEFINE st == form.stream
           masks == IF mask \in st.masks THEN st.masks \ {mask} ELSE st.masks \cup {mask}
           new == [st EXCEPT !.masks = masks]
<1>1. /\ form \in Forms /\ form # None /\ Fits(form.protocol, st) /\ Sliced(st)
      /\ form.protocol \in StreamProtocols
  BY DEF EditMask, Editing, FitInv, TypeOK, FormFits
<1>2. st \in Streams /\ st # None
  BY <1>1 DEF Fits, Forms
<1>3. masks \in SUBSET Masks
  BY <1>2 DEF Streams
<1>4. /\ new \in Streams /\ new.network = st.network /\ new.security = st.security
      /\ new.slices = st.slices /\ new.masks = masks
  BY <1>2, <1>3 DEF Streams
<1>5. form' = [form EXCEPT !.stream = new]
  BY <1>1, <1>2 DEF EditMask, Forms, Streams
<1>6. "mkcp-legacy" \in masks => st.network = "kcp" \/ form.protocol = "wireguard"
  BY <1>1, <1>2 DEF EditMask, Fits
<1>7. Fits(form.protocol, new) /\ Sliced(new)
  BY <1>1, <1>2, <1>4, <1>6 DEF Fits, Sliced
<1> QED
  BY <1>1, <1>4, <1>5, <1>7, StreamRewritten DEF EditMask

\* Deployment and strategy.
LEMMA OthersFit ==
  ASSUME FitInv, \/ \E on \in BOOLEAN : PickNode(on)
                 \/ \E s \in Strategies : PickStrategy(s)
  PROVE  FitInv'
<1>1. form \in Forms /\ form # None /\ Fits(form.protocol, form.stream) /\ Sliced(form.stream)
  BY DEF PickNode, PickStrategy, Editing, FitInv, TypeOK, FormFits
<1>2. ASSUME NEW on \in BOOLEAN, PickNode(on) PROVE FitInv'
  <2>1. [form EXCEPT !.node = on] \in Forms
        /\ [form EXCEPT !.node = on].protocol = form.protocol
        /\ [form EXCEPT !.node = on].stream = form.stream
    BY <1>1 DEF Forms
  <2>2. trail' \in Trails
    BY <1>2 DEF PickNode, FitInv, TypeOK, Trails
  <2> QED
    BY <1>1, <1>2, <2>1, <2>2, Rewritten DEF PickNode
<1>3. ASSUME NEW s \in Strategies, PickStrategy(s) PROVE FitInv'
  <2>1. [form EXCEPT !.strategy = s] \in Forms
        /\ [form EXCEPT !.strategy = s].protocol = form.protocol
        /\ [form EXCEPT !.strategy = s].stream = form.stream
    BY <1>1 DEF Forms
  <2>2. trail' \in Trails
    BY <1>3 DEF PickStrategy, FitInv, TypeOK, Trails
  <2> QED
    BY <1>1, <1>3, <2>1, <2>2, Rewritten DEF PickStrategy
<1> QED
  BY <1>2, <1>3

\* A closed dialog leaves nothing behind.
LEMMA ShutFits ==
  ASSUME FitInv, Shut, UNCHANGED <<hasNode, fetched>>, row' \in Rows \cup {None}, RowFits'
  PROVE  FitInv'
<1>1. NewTrail \in Trails
  BY DEF NewTrail, Trails
<1> QED
  BY <1>1 DEF Shut, FitInv, TypeOK, FormFits

\* Saving stores a row that fits.
LEMMA SubmitFits == ASSUME FitInv, form # None, Submit PROVE FitInv'
<1>1. form \in Forms /\ Fits(form.protocol, form.stream) /\ Sliced(form.stream)
  BY DEF FitInv, TypeOK, FormFits
<1>2. /\ StoredStream(form) \in Streams \cup {None}
      /\ Fits(form.protocol, StoredStream(form)) /\ Trim(StoredStream(form))
  BY <1>1, StoredFacts
<1>3. StoredCreds(form) \subseteq SUBSET Fields
  BY DEF StoredCreds, ClientBearing, OwnField, Fields
<1>4. row' \in Rows /\ row'.protocol = form.protocol /\ row'.stream = StoredStream(form)
  BY <1>1, <1>2, <1>3 DEF Submit, Rows, Forms
<1> QED
  BY <1>2, <1>4, ShutFits DEF Submit, RowFits

\* Every step keeps the form and the row in shape.
LEMMA FitStep == FitInv /\ [Next]_vars => FitInv'
<1> SUFFICES ASSUME FitInv, [Next]_vars PROVE FitInv'
  OBVIOUS
<1>1. CASE UNCHANGED vars
  BY <1>1 DEF vars, FitInv, TypeOK, FormFits, RowFits
<1>2. CASE Cancel
  BY <1>2, ShutFits DEF Cancel, FitInv, TypeOK, RowFits
<1>3. CASE SaveAtOnce \/ Confirm
  BY <1>3, SubmitFits DEF SaveAtOnce, Confirm, Editing, FitInv, TypeOK
<1>4. CASE Ask \/ Dismiss
  BY <1>4 DEF Ask, Dismiss, ProtocolChanged, FitInv, TypeOK, FormFits, RowFits
<1>5. CASE NodesArrive \/ NodesFail
  <2>1. PICK a \in Answers : /\ form' = IF form = None THEN None ELSE Settled(form, a)
                             /\ fetched' = a
                             /\ UNCHANGED <<row, hasNode, dialog, opened>>
    BY <1>5 DEF NodesArrive, NodesFail, Answers
  <2>2. trail' \in Trails
    BY <1>5 DEF NodesArrive, NodesFail, FitInv, TypeOK, Trails
  <2>3. CASE form = None
    BY <2>1, <2>2, <2>3 DEF FitInv, TypeOK, FormFits, RowFits
  <2>4. CASE form # None
    <3>1. form \in Forms /\ Fits(form.protocol, form.stream) /\ Sliced(form.stream)
      BY <2>4 DEF FitInv, TypeOK, FormFits
    <3>2. /\ Settled(form, a) \in Forms
          /\ Settled(form, a).protocol = form.protocol
          /\ Settled(form, a).stream = form.stream
      BY <3>1, SettledFacts
    <3> QED
      BY <2>1, <2>2, <2>4, <3>1, <3>2 DEF FitInv, TypeOK, FormFits, RowFits
  <2> QED
    BY <2>3, <2>4
<1>6. ASSUME NEW e \in Emails, ClientAdded(e) PROVE FitInv'
  <2>1. row \in Rows /\ row # None
    BY <1>6 DEF ClientAdded, FitInv, TypeOK
  <2>2. PICK all \in {Fields, {OwnField(row.protocol)}}, uuids \in BOOLEAN :
          row' = [row EXCEPT !.emails = row.emails \cup {e},
                             !.creds = IF row.emails = {} THEN all ELSE row.creds,
                             !.uuids = IF row.emails = {} THEN uuids ELSE row.uuids]
    BY <1>6 DEF ClientAdded
  <2>3. all \in SUBSET Fields
    BY <1>6 DEF ClientAdded, OwnField, ClientBearing, Fields
  <2>4. row' \in Rows /\ row'.protocol = row.protocol /\ row'.stream = row.stream
    BY <2>1, <2>2, <2>3 DEF Rows
  <2> QED
    BY <1>6, <2>1, <2>4 DEF ClientAdded, FitInv, TypeOK, FormFits, RowFits
<1>7. CASE InboundDeleted
  BY <1>7 DEF InboundDeleted, FitInv, TypeOK, FormFits, RowFits
<1> QED
  BY <1>1, <1>2, <1>3, <1>4, <1>5, <1>6, <1>7, OpensFit, ProtocolFits, NetworkFits,
     SecurityFits, MaskFits, OthersFit DEF Next

\* The first row, if there is one, fits.
LEMMA FitInit == Init => FitInv
<1> SUFFICES ASSUME Init PROVE FitInv
  OBVIOUS
<1>1. EmptyTcp \in Streams /\ EmptyTcp # None /\ Fits("vless", EmptyTcp)
  BY EmptyTcpFits, ProtocolFacts
<1> DEFINE st == [EmptyTcp EXCEPT !.slices = {}]
           r == [protocol |-> "vless", stream |-> st, node |-> FALSE, strategy |-> "node",
                 emails |-> {}, creds |-> {}, uuids |-> TRUE]
<1>2. /\ st \in Streams /\ st.network = EmptyTcp.network /\ st.masks = EmptyTcp.masks
      /\ st.security = EmptyTcp.security /\ st.security = "none" /\ st.slices = {}
  BY <1>1 DEF Streams, EmptyTcp
<1>3. st # None /\ Fits("vless", st) /\ Trim(st)
  BY <1>1, <1>2 DEF Fits, Trim
<1>4. r \in Rows
  BY <1>2, ProtocolFacts DEF Rows
<1>5. row \in {None, r}
  BY DEF Init
<1>6. RowFits
  BY <1>3, <1>5 DEF RowFits
<1> QED
  BY <1>4, <1>5, <1>6 DEF Init, FitInv, TypeOK, FormFits, NewTrail, Trails, Answers

LEMMA Fitting == Spec => []FitInv
BY FitInit, FitStep, PTL DEF Spec

\* Rows, forms, dialogs and their histories keep their types.
THEOREM Typed == Spec => []TypeOK
<1>1. FitInv => TypeOK
  BY DEF FitInv
<1> QED
  BY <1>1, Fitting, PTL

\* The stored stream settings are those of their protocol and transport, whatever was
\* tried before the save.
THEOREM StoredRowsFit == Spec => []StreamFitsProtocol
<1>1. FitInv => StreamFitsProtocol
  <2> SUFFICES ASSUME FitInv, row # None, row.stream # None
               PROVE  /\ (row.stream.network = "hysteria") <=> (row.protocol = "hysteria")
                      /\ row.protocol = "hysteria" => row.stream.security = "tls"
                      /\ (row.protocol \in Transportless) <=> (row.stream.network = None)
                      /\ row.protocol \in Transportless => row.stream.security = "none"
                      /\ Cardinality(row.stream.slices \cap Networks) <= 1
                      /\ "mkcp-legacy" \in row.stream.masks =>
                           row.stream.network = "kcp" \/ row.protocol = "wireguard"
    BY DEF StreamFitsProtocol
  <2>1. Fits(row.protocol, row.stream) /\ Trim(row.stream)
    BY DEF FitInv, RowFits
  <2>2. row.stream.slices \cap Networks \subseteq {row.stream.network}
    BY <2>1 DEF Trim
  <2>3. IsFiniteSet({row.stream.network}) /\ Cardinality({row.stream.network}) = 1
    BY FS_Singleton
  <2>4. Cardinality(row.stream.slices \cap Networks) <= 1
    BY <2>2, <2>3, FS_Subset
  <2> QED
    BY <2>1, <2>4 DEF Fits
<1> QED
  BY <1>1, Fitting, PTL

-----------------------------------------------------------------------------
\* What editing keeps.

\* A row with clients has a protocol that has them, and all but shadowsocks clients have
\* its credential.
Keyed(r) ==
  r.emails # {} => /\ r.protocol \in ClientBearing
                   /\ r.protocol # "shadowsocks" => OwnField(r.protocol) \in r.creds

\* Clients the edit dialog was opened with have a credential it should keep.
Keeping ==
  /\ opened.emails # {} /\ OwnField(opened.protocol) \in opened.creds
  /\ Family(opened.protocol) = "uuid" => opened.uuids
  /\ ~trail.crossed /\ ~trail.slim

\* While only protocols with clients were tried the form has every client, and while only
\* such as take over each other's credential it has the credential the row had.
ClientInv ==
  /\ row # None => Keyed(row)
  /\ form # None /\ form.emails # {} =>
       form.protocol \in ClientBearing /\ (ClientsParse(form) \/ trail.slim)
  /\ opened # None =>
       /\ Keyed(opened)
       /\ ~trail.shed => opened.emails \subseteq form.emails
       /\ Keeping =>
            /\ ~trail.shed
            /\ form.protocol \in ClientBearing
            /\ Family(form.protocol) = Family(opened.protocol)
            /\ Family(form.protocol) = "uuid" => form.uuids
            /\ form.creds[OwnField(form.protocol)] = "kept"
            /\ \A f \in Fields : form.creds[f] # "fresh"

\* The share strategy is the stored one until another is chosen.
NodeInv ==
  /\ opened # None /\ opened.protocol \in NodeEligible /\ hasNode
       /\ ~trail.shed /\ ~trail.chose /\ ~trail.blind
     => form.strategy = opened.strategy /\ form.protocol \in NodeEligible
  /\ form # None /\ fetched = "failed" => trail.blind

\* Within a family the credential is carried over.
LEMMA CarriedInFamily ==
  ASSUME NEW p, NEW next, Family(next) # "other", Family(next) = Family(p), next # p,
         NEW creds \in [Fields -> Origins], creds[OwnField(p)] = "kept",
         \A f \in Fields : creds[f] # "fresh",
         NEW uuids \in BOOLEAN, Family(p) = "uuid" => uuids
  PROVE  /\ next \in ClientBearing
         /\ Carried(next, creds, uuids)[OwnField(next)] = "kept"
         /\ \A f \in Fields : Carried(next, creds, uuids)[f] # "fresh"
<1>1. \/ p \in {"vless", "vmess"} /\ next \in {"vless", "vmess"}
      \/ p = "trojan" /\ next = "hysteria"
      \/ p = "hysteria" /\ next = "trojan"
  BY DEF Family
<1>2. next \in ClientBearing /\ OwnField(next) \in Fields
  BY <1>1 DEF ClientBearing, OwnField, Fields
<1>3. Carried(next, creds, uuids) = [NoCreds EXCEPT ![OwnField(next)] = "kept"]
  <2>1. \A f \in Fields : creds[f] # "absent" => creds[f] = "kept"
    BY DEF Origins
  <2>2. CASE p \in {"vless", "vmess"} /\ next \in {"vless", "vmess"}
    BY <2>2 DEF Carried, OwnField, Family
  <2>3. CASE p = "trojan" /\ next = "hysteria"
    BY <2>1, <2>3 DEF Carried, OwnField, Fields
  <2>4. CASE p = "hysteria" /\ next = "trojan"
    BY <2>1, <2>4 DEF Carried, OwnField, Fields
  <2> QED
    BY <1>1, <2>2, <2>3, <2>4
<1> QED
  BY <1>2, <1>3 DEF NoCreds

\* Steps that leave the clients of the form and of the row alone.
LEMMA ClientsAside ==
  ASSUME ClientInv, UNCHANGED <<row, opened>>, form # None,
         form'.protocol = form.protocol, form'.emails = form.emails, form'.creds = form.creds,
         form'.uuids = form.uuids, trail'.shed = trail.shed, trail'.crossed = trail.crossed,
         trail'.slim = trail.slim
  PROVE  ClientInv'
BY DEF ClientInv, Keyed, Keeping, ClientsParse

\* ... and those of them that leave the strategy alone.
LEMMA StrategyAside ==
  ASSUME NodeInv, UNCHANGED <<opened, hasNode, fetched, trail>>, form # None,
         form'.protocol = form.protocol, form'.strategy = form.strategy
  PROVE  NodeInv'
BY DEF NodeInv

\* Transports, securities, masks and deployment say nothing of clients and strategy.
LEMMA FieldsAside ==
  ASSUME FitInv,
         \/ \E n \in Transports : PickNetwork(n)
         \/ \E n \in Securities : PickSecurity(n)
         \/ \E k \in Masks : EditMask(k)
         \/ \E on \in BOOLEAN : PickNode(on)
  PROVE  /\ form'.protocol = form.protocol /\ form'.emails = form.emails
         /\ form'.creds = form.creds /\ form'.strategy = form.strategy
         /\ form'.uuids = form.uuids
         /\ form # None /\ UNCHANGED <<row, hasNode, fetched, opened, trail>>
<1>1. form \in Forms /\ form # None
  BY DEF PickNetwork, PickSecurity, EditMask, PickNode, Editing, FitInv, TypeOK
<1> QED
  BY <1>1 DEF PickNetwork, PickSecurity, EditMask, PickNode, Forms

\* The dialog opens on the row as it is, or without its clients' credentials.
LEMMA OpenEditKeeps ==
  ASSUME FitInv, ClientInv, NEW slim \in BOOLEAN, OpenEdit(slim) PROVE ClientInv' /\ NodeInv'
<1> DEFINE creds == [x \in Fields |-> IF x \in row.creds /\ ~slim THEN "kept" ELSE "absent"]
           f == [protocol |-> row.protocol, stream |-> Healed(row.stream),
                 node |-> row.node, strategy |-> row.strategy, emails |-> row.emails,
                 creds |-> creds, uuids |-> row.uuids]
<1>1. row \in Rows /\ row # None /\ Keyed(row) /\ fetched \in Answers
  BY DEF OpenEdit, FitInv, TypeOK, ClientInv
<1>2. Healed(row.stream) \in Streams \cup {None}
  <2>1. CASE row.stream = None \/ row.stream.network = None
    BY <1>1, <2>1 DEF Healed, Rows
  <2>2. CASE row.stream # None /\ row.stream.network # None
    <3>1. row.stream \in Streams /\ row.stream.network \in Slices
      BY <1>1, <2>2 DEF Rows, Streams, Slices
    <3>2. [row.stream EXCEPT !.slices = @ \cup {row.stream.network}] \in Streams
      BY <3>1 DEF Streams
    <3> QED
      BY <2>2, <3>2 DEF Healed
  <2> QED
    BY <2>1, <2>2
<1>3. f \in Forms
  BY <1>1, <1>2 DEF Rows, Forms, Origins
<1>4. /\ form' = Settled(f, fetched) /\ opened' = row
      /\ UNCHANGED <<row, hasNode, fetched>>
      /\ trail' = [NewTrail EXCEPT !.slim = slim, !.blind = fetched = "failed"]
  BY DEF OpenEdit
<1>5. /\ trail'.shed = FALSE /\ trail'.crossed = FALSE /\ trail'.slim = slim
      /\ trail'.blind = (fetched = "failed")
  BY <1>4 DEF NewTrail
<1>6. /\ form'.protocol = row.protocol /\ form'.emails = row.emails
      /\ form'.uuids = row.uuids /\ form'.creds = creds /\ form' # None
      /\ hasNode /\ row.protocol \in NodeEligible /\ fetched # "failed" =>
           form'.strategy = row.strategy
  <2>1. /\ f.protocol = row.protocol /\ f.emails = row.emails /\ f.strategy = row.strategy
        /\ f.creds = creds /\ f.uuids = row.uuids
    OBVIOUS
  <2> HIDE DEF f
  <2> QED
    BY <1>1, <1>3, <1>4, <2>1, SettledFacts
<1>7. row.emails # {} => OwnField(row.protocol) \in Fields
  BY <1>1 DEF Keyed, OwnField, ClientBearing, Fields
<1>8. row.emails # {} /\ OwnField(row.protocol) \in row.creds /\ ~slim =>
        creds[OwnField(row.protocol)] = "kept"
  BY <1>7
<1>9. \A x \in Fields : creds[x] # "fresh"
  OBVIOUS
<1> HIDE DEF creds
<1>10. row.emails # {} => row.protocol \in ClientBearing
  BY <1>1 DEF Keyed
<1>11. form'.emails # {} => ClientsParse(form)' \/ slim
  BY <1>1, <1>6, <1>8 DEF ClientsParse, Keyed
<1>12. ClientInv'
  <2>1. (form # None /\ form.emails # {} =>
           form.protocol \in ClientBearing /\ (ClientsParse(form) \/ trail.slim))'
    BY <1>5, <1>6, <1>10, <1>11
  <2>2. Keyed(row)' /\ Keyed(opened)'
    BY <1>1, <1>4
  <2>3. Keeping' => row.emails # {} /\ OwnField(row.protocol) \in row.creds /\ ~slim
                    /\ (Family(row.protocol) = "uuid" => row.uuids)
    BY <1>4, <1>5 DEF Keeping
  <2> QED
    BY <1>4, <1>5, <1>6, <1>8, <1>9, <1>10, <2>1, <2>2, <2>3 DEF ClientInv
<1>13. NodeInv'
  BY <1>4, <1>5, <1>6 DEF NodeInv
<1> QED
  BY <1>12, <1>13

\* Another protocol takes the clients along, and within its family their credential.
LEMMA ProtocolKeeps ==
  ASSUME FitInv, ClientInv, NodeInv, NEW next \in Protocols, PickProtocol(next)
  PROVE  ClientInv' /\ NodeInv'
<1>1. /\ form \in Forms /\ form # None /\ Fits(form.protocol, form.stream)
      /\ Sliced(form.stream) /\ fetched \in Answers /\ next # form.protocol
      /\ opened # None => dialog = "edit"
      /\ trail \in Trails
  BY DEF PickProtocol, Editing, FitInv, TypeOK, FormFits
<1>2. PICK st \in Streams : st = StreamFor(next, form.stream)
  BY <1>1, StreamForFits DEF Forms
<1>3. PICK editing \in BOOLEAN : editing = (dialog = "edit")
  OBVIOUS
<1>4. PICK f : f = WithProtocol([form EXCEPT !.stream = st], next, editing)
  OBVIOUS
<1>5. /\ f \in Forms /\ f.protocol = next /\ f.strategy = form.strategy /\ f.uuids
      /\ f.emails = IF editing /\ next \in ClientBearing /\ form.emails # {}
                      THEN form.emails ELSE {}
      /\ editing /\ next \in ClientBearing /\ form.emails # {} =>
           f.creds = Carried(next, form.creds, form.uuids)
  BY <1>1, <1>4, WithProtocolFacts
<1>6. form' = Settled(f, fetched) /\ UNCHANGED <<row, hasNode, fetched, opened>>
  BY <1>2, <1>3, <1>4 DEF PickProtocol
<1>7. /\ form'.protocol = next /\ form'.emails = f.emails /\ form'.creds = f.creds
      /\ form'.uuids = f.uuids /\ form' # None
      /\ hasNode /\ next \in NodeEligible /\ fetched # "failed" =>
           form'.strategy = form.strategy
  BY <1>1, <1>5, <1>6, SettledFacts
<1>8. /\ ~trail'.shed => ~trail.shed /\ next \in ClientBearing
      /\ ~trail'.crossed => /\ ~trail.crossed /\ Family(next) # "other"
                            /\ Family(next) = Family(form.protocol)
      /\ ~trail.shed /\ next \in ClientBearing => ~trail'.shed
      /\ trail'.chose = trail.chose /\ trail'.slim = trail.slim /\ trail'.blind = trail.blind
  BY <1>1 DEF PickProtocol, Trails
<1>9. form.creds \in [Fields -> Origins] /\ form.uuids \in BOOLEAN
  BY <1>1 DEF Forms
<1>10. ClientInv'
  <2>1. ASSUME opened # None, ~trail'.shed PROVE opened.emails \subseteq form'.emails
    <3>1. editing /\ next \in ClientBearing /\ opened.emails \subseteq form.emails
      BY <1>1, <1>3, <1>8, <2>1 DEF ClientInv
    <3> QED
      BY <1>5, <1>7, <3>1
  <2>2. ASSUME opened # None, Keeping'
        PROVE  /\ ~trail'.shed /\ next \in ClientBearing
               /\ Family(next) = Family(opened.protocol)
               /\ form'.creds[OwnField(next)] = "kept"
               /\ \A x \in Fields : form'.creds[x] # "fresh"
    <3>0. Keeping /\ ~trail'.crossed /\ opened.emails # {}
      BY <1>6, <1>8, <2>2 DEF Keeping
    <3>1. /\ ~trail.shed
          /\ opened.emails \subseteq form.emails
          /\ Family(form.protocol) = Family(opened.protocol)
          /\ Family(form.protocol) = "uuid" => form.uuids
          /\ form.creds[OwnField(form.protocol)] = "kept"
          /\ \A x \in Fields : form.creds[x] # "fresh"
      BY <1>1, <2>2, <3>0 DEF ClientInv
    <3>2. /\ next \in ClientBearing
          /\ Carried(next, form.creds, form.uuids)[OwnField(next)] = "kept"
          /\ \A x \in Fields : Carried(next, form.creds, form.uuids)[x] # "fresh"
      BY <1>1, <1>8, <1>9, <3>0, <3>1, CarriedInFamily
    <3>3. editing /\ form.emails # {}
      BY <1>1, <1>3, <2>2, <3>0, <3>1
    <3> QED
      BY <1>5, <1>7, <1>8, <3>0, <3>1, <3>2, <3>3
  <2>3. form'.emails # {} => next \in ClientBearing /\ ClientsParse(form)'
    <3>1. ASSUME form'.emails # {}
          PROVE  next \in ClientBearing /\ form'.creds[OwnField(next)] # "absent"
      <4>1. next \in ClientBearing /\ form'.creds = Carried(next, form.creds, form.uuids)
        BY <1>5, <1>7, <3>1
      <4> QED
        BY <1>9, <4>1, CarriedFacts
    <3> QED
      BY <1>7, <3>1 DEF ClientsParse
  <2>4. UNCHANGED <<row, opened>> /\ form'.protocol = next /\ form'.uuids
    BY <1>5, <1>6, <1>7
  <2>5. (row # None => Keyed(row))' /\ (opened # None => Keyed(opened)')
    BY <2>4 DEF ClientInv, Keyed
  <2> QED
    BY <1>7, <2>1, <2>2, <2>3, <2>4, <2>5 DEF ClientInv
<1>11. NodeInv'
  BY <1>1, <1>6, <1>7, <1>8, ProtocolFacts DEF NodeInv
<1> QED
  BY <1>10, <1>11

\* A save stores the clients and the strategy of the form.
LEMMA SavedRow ==
  ASSUME Submit
  PROVE  /\ row'.protocol = form.protocol /\ row'.emails = form.emails
         /\ row'.strategy = form.strategy /\ row'.creds \in StoredCreds(form)
BY DEF Submit

\* Once the dialog is closed nothing is open, and a saved row is keyed.
LEMMA SubmitKeeps ==
  ASSUME FitInv, ClientInv, form # None, Submit PROVE ClientInv' /\ NodeInv'
<1>1. form' = None /\ opened' = None
  BY DEF Submit, Shut
<1>2. Keyed(row')
  <2>1. form.emails # {} => form.protocol \in ClientBearing
    BY DEF ClientInv
  <2>2. form.emails # {} /\ form.protocol # "shadowsocks" =>
          row'.creds = {OwnField(form.protocol)}
    BY <2>1, SavedRow DEF Submit, Parses, ClientsParse, StoredCreds
  <2> QED
    BY <2>1, <2>2, SavedRow DEF Keyed
<1> QED
  BY <1>1, <1>2 DEF ClientInv, NodeInv

\* Every step keeps what editing keeps.
LEMMA KeepStep ==
  FitInv /\ ClientInv /\ NodeInv /\ [Next]_vars => ClientInv' /\ NodeInv'
<1> SUFFICES ASSUME FitInv, ClientInv, NodeInv, [Next]_vars PROVE ClientInv' /\ NodeInv'
  OBVIOUS
<1>1. CASE UNCHANGED vars
  BY <1>1 DEF vars, ClientInv, NodeInv, Keyed, Keeping, ClientsParse
<1>2. CASE OpenAdd
  <2>1. opened' = None /\ row' = None
    BY <1>2 DEF OpenAdd, FitInv, TypeOK
  <2>2. form'.emails = {}
    <3> DEFINE f == [protocol |-> "vless", stream |-> EmptyTcp, node |-> FALSE,
                     strategy |-> "node", emails |-> {}, creds |-> NoCreds,
                     uuids |-> TRUE]
    <3>1. form' = Settled(f, fetched) /\ fetched \in Answers
      BY <1>2 DEF OpenAdd, FitInv, TypeOK
    <3>2. f \in Forms /\ f.emails = {}
      BY EmptyTcpFits, ProtocolFacts DEF Forms, NoCreds, Origins
    <3> QED
      BY <3>1, <3>2, SettledFacts
  <2>3. fetched' = "failed" => trail'.blind
    BY <1>2 DEF OpenAdd, NewTrail
  <2> QED
    BY <2>1, <2>2, <2>3 DEF ClientInv, NodeInv
<1>3. CASE Cancel \/ InboundDeleted
  <2>1. opened' = None /\ form' = None /\ (row' = row \/ row' = None)
    BY <1>3 DEF Cancel, Shut, InboundDeleted, FitInv, TypeOK
  <2> QED
    BY <2>1 DEF ClientInv, NodeInv, Keyed
<1>4. CASE SaveAtOnce \/ Confirm
  BY <1>4, SubmitKeeps DEF SaveAtOnce, Confirm, Editing, FitInv, TypeOK
<1>5. ASSUME \/ \E n \in Transports : PickNetwork(n)
             \/ \E n \in Securities : PickSecurity(n)
             \/ \E k \in Masks : EditMask(k)
             \/ \E on \in BOOLEAN : PickNode(on)
      PROVE  ClientInv' /\ NodeInv'
  <2>1. trail'.shed = trail.shed /\ trail'.crossed = trail.crossed /\ trail'.slim = trail.slim
    BY <1>5, FieldsAside
  <2> QED
    BY <1>5, <2>1, FieldsAside, ClientsAside, StrategyAside
<1>6. ASSUME NEW n \in Strategies, PickStrategy(n) PROVE ClientInv' /\ NodeInv'
  <2>1. form \in Forms /\ form # None /\ trail \in Trails
    BY <1>6 DEF PickStrategy, Editing, FitInv, TypeOK, Trails
  <2>2. /\ form'.protocol = form.protocol /\ form'.emails = form.emails
        /\ form'.creds = form.creds /\ form'.uuids = form.uuids
        /\ UNCHANGED <<row, opened, fetched>>
        /\ trail'.shed = trail.shed /\ trail'.crossed = trail.crossed /\ trail'.chose
        /\ trail'.slim = trail.slim /\ trail'.blind = trail.blind
    BY <1>6, <2>1 DEF PickStrategy, Forms, Trails
  <2> QED
    BY <2>1, <2>2, ClientsAside DEF NodeInv
<1>7. CASE Ask \/ Dismiss
  <2>1. form # None
    BY <1>7 DEF Ask, Dismiss, ProtocolChanged, FitInv, TypeOK
  <2> QED
    BY <1>7, <2>1, ClientsAside, StrategyAside DEF Ask, Dismiss
<1>8. CASE NodesArrive \/ NodesFail
  <2>1. PICK a \in Answers : /\ form' = IF form = None THEN None ELSE Settled(form, a)
                             /\ fetched' = a
                             /\ UNCHANGED <<row, hasNode, dialog, opened>>
                             /\ a = "failed" => trail'.blind = (form # None)
    BY <1>8 DEF NodesArrive, NodesFail, Answers, FitInv, TypeOK, Trails
  <2>2. /\ trail'.shed = trail.shed /\ trail'.crossed = trail.crossed
        /\ trail'.slim = trail.slim /\ trail'.chose = trail.chose
        /\ a # "failed" => trail' = trail
    BY <1>8, <2>1 DEF NodesArrive, NodesFail, FitInv, TypeOK, Trails
  <2>3. CASE form = None
    <3>1. opened = None /\ opened' = None /\ form' = None /\ row' = row
      BY <2>1, <2>3 DEF FitInv, TypeOK
    <3> QED
      BY <3>1 DEF ClientInv, NodeInv, Keyed
  <2>4. CASE form # None
    <3>1. form \in Forms /\ form' = Settled(form, a)
      BY <2>1, <2>4 DEF FitInv, TypeOK
    <3>2. /\ form'.protocol = form.protocol /\ form'.emails = form.emails
          /\ form'.creds = form.creds /\ form'.uuids = form.uuids
          /\ hasNode /\ form.protocol \in NodeEligible /\ a # "failed" =>
               form'.strategy = form.strategy
      BY <3>1, SettledFacts
    <3>3. ClientInv'
      BY <2>1, <2>2, <2>4, <3>2, ClientsAside
    <3>4. NodeInv'
      BY <2>1, <2>2, <2>4, <3>2 DEF NodeInv
    <3> QED
      BY <3>3, <3>4
  <2> QED
    BY <2>3, <2>4
<1>9. ASSUME NEW e \in Emails, ClientAdded(e) PROVE ClientInv' /\ NodeInv'
  <2>1. row \in Rows /\ row # None /\ Keyed(row) /\ row.protocol \in ClientBearing
    BY <1>9 DEF ClientAdded, FitInv, TypeOK, ClientInv
  <2>2. PICK all \in {Fields, {OwnField(row.protocol)}} :
          \E uuids \in BOOLEAN :
            row' = [row EXCEPT !.emails = row.emails \cup {e},
                               !.creds = IF row.emails = {} THEN all ELSE row.creds,
                               !.uuids = IF row.emails = {} THEN uuids ELSE row.uuids]
    BY <1>9 DEF ClientAdded
  <2>3. OwnField(row.protocol) \in Fields
    BY <2>1 DEF OwnField, ClientBearing, Fields
  <2>4. row'.protocol = row.protocol /\ row'.creds = IF row.emails = {} THEN all ELSE row.creds
    BY <2>1, <2>2 DEF Rows
  <2>5. Keyed(row')
    BY <2>1, <2>2, <2>3, <2>4 DEF Keyed
  <2>6. UNCHANGED <<form, opened, trail, hasNode, fetched>>
    BY <1>9 DEF ClientAdded
  <2> QED
    BY <2>5, <2>6 DEF ClientInv, NodeInv, Keyed, Keeping, ClientsParse
<1> QED
  BY <1>1, <1>2, <1>3, <1>4, <1>5, <1>6, <1>7, <1>8, <1>9, OpenEditKeeps, ProtocolKeeps
     DEF Next

LEMMA KeepInit == Init => ClientInv /\ NodeInv
BY DEF Init, ClientInv, NodeInv, Keyed

\* In whatever order protocols, transports, securities and masks are picked, the schema
\* accepts the stream settings, and the clients unless the dialog opened without their
\* credentials: no other save is refused for a field no tab shows.
THEOREM NoHiddenRefusal == Spec => []AlwaysParses
<1>1. FitInv /\ ClientInv => AlwaysParses
  <2> SUFFICES ASSUME FitInv, ClientInv, form # None
               PROVE  SlicesParse(form) /\ (ClientsParse(form) \/ trail.slim)
    BY DEF AlwaysParses
  <2>1. SlicesParse(form)
    BY DEF FitInv, FormFits, Sliced, SlicesParse
  <2>2. ClientsParse(form) \/ trail.slim
    BY DEF ClientInv, ClientsParse
  <2> QED
    BY <2>1, <2>2
<1> QED
  BY <1>1, Fitting, KeepInit, KeepStep, PTL DEF Spec

\* Clients survive any walk through protocols that have them, and their credentials
\* survive one within a family, ids as long as they are UUIDs.
THEOREM EditingKeepsClients == Spec => ClientsKept
<1>1. ASSUME FitInv, ClientInv, Saves, opened # None
      PROVE  /\ ~trail.shed => opened.emails \subseteq row'.emails
             /\ /\ opened.emails # {} /\ OwnField(opened.protocol) \in opened.creds
                /\ Family(opened.protocol) = "uuid" => opened.uuids
                /\ ~trail.crossed /\ ~trail.slim
                => form.creds[OwnField(form.protocol)] = "kept"
  <2>1. row'.emails = form.emails
    BY <1>1, SavedRow DEF Saves, SaveAtOnce, Confirm
  <2> QED
    BY <1>1, <2>1 DEF ClientInv, Keeping
<1>2. FitInv /\ ClientInv =>
        [Saves /\ opened # None =>
           /\ ~trail.shed => opened.emails \subseteq row'.emails
           /\ /\ opened.emails # {} /\ OwnField(opened.protocol) \in opened.creds
              /\ Family(opened.protocol) = "uuid" => opened.uuids
              /\ ~trail.crossed /\ ~trail.slim
              => form.creds[OwnField(form.protocol)] = "kept"]_vars
  BY <1>1
<1> QED
  BY <1>2, Fitting, KeepInit, KeepStep, PTL DEF Spec, ClientsKept

\* A list of nodes that comes late, at any moment of an edit, does not clobber the stored
\* share strategy; only a request that failed while the dialog was open may.
THEOREM LateNodesDoNotClobber == Spec => NodeStrategyKept
<1>1. ASSUME FitInv, NodeInv, Saves /\ opened # None /\ opened.protocol \in NodeEligible
               /\ hasNode /\ ~trail.shed /\ ~trail.chose /\ ~trail.blind
      PROVE  row'.strategy = opened.strategy
  <2>1. row'.strategy = form.strategy
    BY <1>1, SavedRow DEF Saves, SaveAtOnce, Confirm
  <2> QED
    BY <1>1, <2>1 DEF NodeInv
<1>2. FitInv /\ NodeInv =>
        [Saves /\ opened # None /\ opened.protocol \in NodeEligible
           /\ hasNode /\ ~trail.shed /\ ~trail.chose /\ ~trail.blind
           => row'.strategy = opened.strategy]_vars
  BY <1>1
<1> QED
  BY <1>2, Fitting, KeepInit, KeepStep, PTL DEF Spec, NodeStrategyKept
=============================================================================
