-------------------------- MODULE ClientsPageProofs --------------------------
(***************************************************************************)
(* For any clients, names and inbounds, any number of edits and mishaps,   *)
(* and any order of clicks, answers, losses and retries: a save that       *)
(* reports success stored what its dialog showed, nobody gets another      *)
(* client's identity, and only a repeated add and attaches that overlap    *)
(* give an inbound two entries of a client.                                *)
(***************************************************************************)
EXTENDS ClientsPage, TLAPS

USE ClientsAssumption, NoneAssumption DEF jobVars

Tables == [Ids -> Clients \cup {None}]

\* No two clients of a table have the same e-mail.
Distinct(table) ==
  \A c, d \in Ids :
    table[c] # None /\ table[d] # None /\ table[c].email = table[d].email => c = d

\* GetRecordByEmail has one answer.
Unique == \A c, d \in Live : rec[c].email = rec[d].email => c = d

\* The dialog, what it was opened for and the kind of save it leads to agree.
Modes ==
  /\ ~dialog.open => dialog = Shut
  /\ dialog.open /\ mode = "add" => dialog.form.cred \in Credentials
  /\ dialog.open /\ mode = "edit" => dialog.client # None
  /\ dialog.client # None => /\ dialog.client.of \in Ids
                             /\ hydrate[dialog.client.of] = None
  /\ \A c \in Ids : hydrate[c] # None => hydrate[c].of = c

SaveModes ==
  save # None =>
    /\ save.pc = "create" => /\ save.form.cred \in Credentials /\ save.target = None
                             /\ save.email = save.form.email
    /\ save.target = None => save.pc \in {"create", "links", "done"} /\ ~save.kept

\* A running attach has still to enter the client where it is not entered, unless
\* another attach of the client has run beside it.
Running(job) ==
  /\ job.client \in Live
  /\ ~job.beside => \A i \in job.todo : rec[job.client].held[i] = 0

JobModes ==
  /\ ours # None => /\ Running(ours) /\ save # None /\ save.pc = "attach"
                    /\ rec[ours.client].email = save.email
                    /\ ours.todo \subseteq save.attach
  /\ stray # None => Running(stray)
  /\ ours # None /\ stray # None /\ ours.client = stray.client =>
       ours.beside /\ stray.beside

\* An answer that has not arrived still tells the truth about an untouched client.
HydrateInv ==
  \A c \in Ids : hydrate[c] # None /\ c \notin touched =>
    /\ c \in Live /\ rec[c].email = hydrate[c].email
    /\ AttachedTo(c) = hydrate[c].ibs
    /\ save # None => save.target # c

\* The inbounds a save under way is changing for client c.
Busy(c) ==
  {i \in Inbounds : save # None /\ save.target = c /\ i \in save.attach \cup save.detach}

\* The inbounds an open dialog compares with are those of the client, but for what
\* a save of it has changed; so is its e-mail, unless that save has renamed it.
Shown(x, c) ==
  /\ c \in Live
  /\ \A i \in Inbounds : i \notin tried /\ i \notin Busy(c) =>
       (i \in AttachedTo(c) <=> i \in x.ibs)
  /\ save # None /\ save.target = c => save.email = x.email /\ mode = "edit"
  /\ \/ rec[c].email = x.email
     \/ /\ Called(x.email) = {} /\ mode = "edit"
        /\ save # None => save.email = x.email /\ save.pc # "create"

DialogInv ==
  dialog.client # None /\ dialog.client.of \notin touched =>
    Shown(dialog.client, dialog.client.of)

\* What a save of an untouched client has got done by the request it has come to.
Written(c) ==
  \/ /\ save.form.email # save.email /\ Called(save.email) = {} /\ save.pc # "done"
  \/ /\ save.form.email = save.email /\ ~Wedged(c)
     /\ rec[c].email = save.email /\ rec[c].sub = save.form.sub
     /\ rec[c].on = save.form.on
     /\ save.pc # "attach" => save.attach \subseteq AttachedTo(c)
     /\ save.pc \in {"links", "done"} => save.detach \cap AttachedTo(c) = {}
     /\ save.pc = "done" => rec[c].links = save.form.links

Going(c) ==
  /\ c \in Live /\ save.pc # "create"
  /\ save.attach \subseteq save.form.ibs /\ save.detach \cap save.form.ibs = {}
  /\ save.clean => \A i \in Inbounds : i \notin save.attach \cup save.detach =>
       (i \in AttachedTo(c) <=> i \in save.form.ibs)
  /\ rec[c].email = save.email \/ Called(save.email) = {}
  /\ save.pc # "update" /\ save.kept => Written(c)

SaveInv ==
  save # None /\ save.target # None /\ save.target \notin touched => Going(save.target)

\* The attach of a save knows an untouched client as it is, and has entered it in all
\* but what it has still to do.
OursInv ==
  ours # None /\ ours.client \notin touched =>
    /\ ours.sub = rec[ours.client].sub /\ ours.on = rec[ours.client].on
    /\ save.attach \subseteq AttachedTo(ours.client) \cup ours.todo

-----------------------------------------------------------------------------
\* The requests.

\* Whom a name finds.
LEMMA HolderFacts ==
  ASSUME Unique, NEW e
  PROVE  /\ Called(e) # {} => Holder(e) \in Called(e)
         /\ Called(e) \subseteq Live /\ Live \subseteq Ids
         /\ \A c \in Called(e) : rec[c].email = e /\ c = Holder(e)
         /\ \A c \in Live : rec[c].email = e => c \in Called(e)
BY DEF Called, Holder, Unique, Live

\* A table gives a client an identity only where the subscription id of the form is
\* nobody else's, and a made password only with the form or for an inbound.
Keeps(table, c, p) ==
  /\ table[c].cred.of # rec[c].cred.of => \A d \in Live \ {c} : rec[d].sub # p.sub
  /\ table[c].cred.pass = "made" /\ rec[c].cred.pass = "own" =>
       \/ p.cred.pass = "made"
       \/ \E i \in Keyed : rec[c].held[i] > 0 \/ table[c].held[i] > 0

LEMMA SameKeeps ==
  ASSUME NEW t, NEW c, NEW p, t[c].cred = rec[c].cred
  PROVE  Keeps(t, c, p)
BY DEF Keeps

\* What becomes of credentials.
LEMMA CredFacts ==
  /\ \A cred \in Credentials : \A ibs \in SUBSET Inbounds :
       /\ Filled(cred, ibs) \in Credentials /\ Filled(cred, ibs).of = cred.of
       /\ Filled(cred, ibs).pass = "made" => cred.pass = "made" \/ ibs \cap Keyed # {}
  /\ \A stored \in Credentials : \A p \in Forms :
       /\ Merged(stored, p.cred) \in Credentials
       /\ Merged(stored, p.cred).pass = "made" =>
            stored.pass = "made" \/ p.cred.pass = "made"
  /\ \A p \in Forms : \A ibs \in SUBSET Inbounds :
       /\ Filled(p.cred, ibs) \in [of : Emails \cup {None}, pass : {"blank", "own", "made"}]
       /\ p.cred \in Credentials => Filled(p.cred, ibs) \in Credentials
<1>1. ASSUME NEW cred \in Credentials, NEW ibs \in SUBSET Inbounds
      PROVE  /\ Filled(cred, ibs) \in Credentials /\ Filled(cred, ibs).of = cred.of
             /\ Filled(cred, ibs).pass = "made" => cred.pass = "made" \/ ibs \cap Keyed # {}
  BY DEF Filled, Credentials
<1>2. ASSUME NEW stored \in Credentials, NEW p \in Forms
      PROVE  /\ Merged(stored, p.cred) \in Credentials
             /\ Merged(stored, p.cred).pass = "made" =>
                  stored.pass = "made" \/ p.cred.pass = "made"
  BY DEF Merged, Credentials, Forms
<1>3. ASSUME NEW p \in Forms, NEW ibs \in SUBSET Inbounds
      PROVE  /\ Filled(p.cred, ibs) \in [of : Emails \cup {None}, pass : {"blank", "own", "made"}]
             /\ p.cred \in Credentials => Filled(p.cred, ibs) \in Credentials
  BY DEF Filled, Credentials, Forms
<1> QED  BY <1>1, <1>2, <1>3

\* The fields of a client that has been overwritten, created once more, or entered in
\* an inbound.
LEMMA OverwrittenFacts ==
  ASSUME NEW r \in Clients, NEW p \in Forms, NEW o, o = Overwritten(r, p)
  PROVE  /\ o \in Clients
         /\ o.email = p.email /\ o.name = p.email /\ o.sub = p.sub /\ o.on = p.on
         /\ o.held = r.held /\ o.links = r.links
         /\ o.cred.pass = "made" /\ r.cred.pass = "own" =>
              p.cred.pass = "made" \/ \E i \in Keyed : r.held[i] > 0
<1>1. PICK ibs \in SUBSET Inbounds : ibs = {i \in Inbounds : r.held[i] > 0}
  OBVIOUS
<1>2. PICK m : m = Merged(r.cred, p.cred)
  OBVIOUS
<1>3. r.cred \in Credentials
  BY DEF Clients
<1>4. m \in Credentials /\ (m.pass = "made" => r.cred.pass = "made" \/ p.cred.pass = "made")
  BY <1>2, <1>3, CredFacts
<1>5. PICK new : new = Filled(m, ibs)
  OBVIOUS
<1>6. new \in Credentials /\ (new.pass = "made" => m.pass = "made" \/ ibs \cap Keyed # {})
  BY <1>4, <1>5, CredFacts
<1>7. o = [r EXCEPT !.email = p.email, !.name = p.email, !.sub = p.sub, !.on = p.on,
                    !.cred = new]
  BY <1>1, <1>2, <1>5 DEF Overwritten, Clients
<1>8. /\ o \in Clients /\ o.cred = new
      /\ o.email = p.email /\ o.name = p.email /\ o.sub = p.sub /\ o.on = p.on
      /\ o.held = r.held /\ o.links = r.links
  BY <1>6, <1>7 DEF Clients, Forms
<1> QED  BY <1>1, <1>4, <1>6, <1>8

LEMMA AgainFacts ==
  ASSUME NEW r \in Clients, NEW new \in Clients, NEW a, a = Again(r, new),
         \A i \in Inbounds : r.held[i] + new.held[i] \in 0 .. 2
  PROVE  /\ a \in Clients /\ a.email = new.email /\ a.cred = new.cred
         /\ \A i \in Inbounds : a.held[i] = r.held[i] + new.held[i]
BY DEF Again, Clients

LEMMA EnteredFacts ==
  ASSUME NEW r \in Clients, NEW job \in Jobs, NEW i \in Inbounds, r.held[i] <= 1,
         NEW n, n = Entered(r, job, i)
  PROVE  /\ n \in Clients
         /\ n.email = r.email /\ n.name = r.name /\ n.links = r.links
         /\ n.sub = job.sub /\ n.on = job.on /\ n.held[i] = r.held[i] + 1
         /\ \A j \in Inbounds : j # i => n.held[j] = r.held[j]
         /\ n.cred.of = job.cred.of
         /\ n.cred.pass = "made" => job.cred.pass = "made" \/ i \in Keyed
<1>1. PICK held : held = [r.held EXCEPT ![i] = r.held[i] + 1]
  OBVIOUS
<1>2. /\ held \in [Inbounds -> 0 .. 2] /\ held[i] = r.held[i] + 1
      /\ \A j \in Inbounds : j # i => held[j] = r.held[j]
  BY <1>1 DEF Clients
<1>3. PICK new : new = Filled(job.cred, {i})
  OBVIOUS
<1>4. job.cred \in Credentials /\ job.sub \in Emails /\ job.on \in BOOLEAN
  BY DEF Jobs
<1>5. /\ new \in Credentials /\ new.of = job.cred.of
      /\ new.pass = "made" => job.cred.pass = "made" \/ i \in Keyed
  BY <1>3, <1>4, CredFacts
<1>6. n = [r EXCEPT !.held = held, !.sub = job.sub, !.on = job.on, !.cred = new]
  BY <1>1, <1>3 DEF Entered
<1>7. /\ n \in Clients /\ n.email = r.email /\ n.name = r.name /\ n.links = r.links
      /\ n.sub = job.sub /\ n.on = job.on /\ n.held = held /\ n.cred = new
  BY <1>2, <1>4, <1>5, <1>6 DEF Clients
<1> QED  BY <1>2, <1>5, <1>7

\* A rename writes the e-mail and perhaps the name of one client.
LEMMA RenamedFacts ==
  ASSUME rec \in Tables, NEW c \in Live, NEW p \in Forms,
         NEW t, t = Renamed(c, p.email)
  PROVE  /\ t \in Tables
         /\ \A d \in Ids : d # c => t[d] = rec[d]
         /\ t[c] \in Clients /\ t[c].email = p.email
         /\ \A f \in {"sub", "cred", "on", "links", "held"} : t[c][f] = rec[c][f]
<1>1. c \in Ids /\ rec[c] \in Clients /\ p.email \in Emails
  BY DEF Live, Tables, Forms
<1> DEFINE one == [rec EXCEPT ![c].email = p.email]
           nm == IF AttachedTo(c) = {} THEN p.email ELSE rec[c].name
<1>2. t = [rec EXCEPT ![c] = [@ EXCEPT !.email = p.email, !.name = nm]]
  BY <1>1 DEF Renamed, Tables, Clients
<1>3. nm \in Emails
  BY <1>1 DEF Clients
<1> HIDE DEF nm
<1>4. t[c] = [rec[c] EXCEPT !.email = p.email, !.name = nm]
  BY <1>1, <1>2 DEF Tables
<1>5. t[c] \in Clients /\ t[c].email = p.email
      /\ \A f \in {"sub", "cred", "on", "links", "held"} : t[c][f] = rec[c][f]
  BY <1>1, <1>3, <1>4 DEF Clients
<1> QED  BY <1>1, <1>2, <1>5 DEF Tables

\* What every request by e-mail has in common: it rewrites the client of that e-mail
\* or nobody, and leaves that client's inbounds and links, or its other fields.
Bounded(U, e) ==
  /\ U.rec \in Tables /\ U.ok \in BOOLEAN
  /\ \A c \in Ids : c \notin Called(e) => U.rec[c] = rec[c]
  /\ \A c \in Called(e) : U.rec[c] \in Clients
  /\ Called(e) = {} => U.rec = rec /\ ~U.ok

\* Update leaves inbounds and links alone, hands out an e-mail nobody else has, and
\* a new credential only where no other client has the subscription id.
Updates(U, e, p) ==
  /\ Bounded(U, e)
  /\ \A c \in Called(e) :
       /\ U.rec[c].held = rec[c].held /\ U.rec[c].links = rec[c].links
       /\ \/ U.rec[c].email = e
          \/ /\ U.rec[c].email = p.email
             /\ \A d \in Live \ {c} : rec[d].email # p.email
       /\ U.ok => U.rec[c].email = p.email
       /\ U.ok /\ AttachedTo(c) # {} =>
            /\ U.rec[c].name = p.email
            /\ U.rec[c].sub = p.sub /\ U.rec[c].on = p.on
       /\ Keeps(U.rec, c, p)

LEMMA UpdateFacts ==
  ASSUME rec \in Tables, Unique, NEW e, NEW p \in Forms, NEW U, U = Update(e, p)
  PROVE  Updates(U, e, p)
<1>1. CASE Called(e) = {}
  BY <1>1 DEF Update, Refused, Updates, Bounded
<1>2. CASE Called(e) # {}
  <2>1. PICK h : h = Holder(e)
    OBVIOUS
  <2>2. h \in Live /\ h \in Ids /\ rec[h] \in Clients /\ rec[h].email = e /\ Called(e) = {h}
    BY <1>2, <2>1, HolderFacts DEF Live, Tables
  <2>3. U = IF TakenByOther("email", p.email, h) THEN Refused
            ELSE IF TakenByOther("sub", p.sub, h) \/ Wedged(h)
              THEN [ok |-> FALSE, rec |-> Renamed(h, p.email)]
            ELSE IF AttachedTo(h) = {} THEN Done(Renamed(h, p.email))
            ELSE Done([rec EXCEPT ![h] = Overwritten(@, p)])
    BY <1>2, <2>1 DEF Update
  <2>4. CASE TakenByOther("email", p.email, h)
    BY <2>2, <2>3, <2>4, SameKeeps DEF Refused, Updates, Bounded
  <2>5. ~TakenByOther("email", p.email, h) => \A d \in Live \ {h} : rec[d].email # p.email
    BY DEF TakenByOther
  <2>6. ASSUME ~TakenByOther("email", p.email, h),
               U.rec = Renamed(h, p.email), U.ok \in BOOLEAN, U.ok => AttachedTo(h) = {}
        PROVE  Updates(U, e, p)
    <3>1. PICK t : t = Renamed(h, p.email)
      OBVIOUS
    <3>2. /\ t \in Tables
          /\ \A d \in Ids : d # h => t[d] = rec[d]
          /\ t[h] \in Clients /\ t[h].email = p.email
          /\ \A f \in {"sub", "cred", "on", "links", "held"} : t[h][f] = rec[h][f]
      BY <2>2, <3>1, RenamedFacts
    <3>3. t[h].cred = rec[h].cred /\ t[h].held = rec[h].held /\ t[h].links = rec[h].links
      BY <3>2
    <3>4. Keeps(U.rec, h, p)
      BY <2>6, <3>1, <3>3, SameKeeps
    <3> QED  BY <2>2, <2>5, <2>6, <3>1, <3>2, <3>3, <3>4 DEF Updates, Bounded
  <2>7. CASE /\ ~TakenByOther("email", p.email, h)
             /\ TakenByOther("sub", p.sub, h) \/ Wedged(h) \/ AttachedTo(h) = {}
    <3>1. U.rec = Renamed(h, p.email) /\ U.ok \in BOOLEAN /\ (U.ok => AttachedTo(h) = {})
      BY <2>3, <2>7 DEF Done
    <3> QED  BY <2>6, <2>7, <3>1
  <2>8. CASE /\ ~TakenByOther("email", p.email, h) /\ ~TakenByOther("sub", p.sub, h)
             /\ ~Wedged(h) /\ AttachedTo(h) # {}
    <3>1. U = Done([rec EXCEPT ![h] = Overwritten(@, p)])
      BY <2>3, <2>8
    <3>2. U.ok = TRUE /\ U.rec = [rec EXCEPT ![h] = Overwritten(rec[h], p)]
      BY <2>2, <3>1 DEF Done, Tables
    <3>3. PICK r : r = Overwritten(rec[h], p)
      OBVIOUS
    <3>4. /\ r \in Clients
          /\ r.email = p.email /\ r.name = p.email /\ r.sub = p.sub /\ r.on = p.on
          /\ r.held = rec[h].held /\ r.links = rec[h].links
          /\ r.cred.pass = "made" /\ rec[h].cred.pass = "own" =>
               p.cred.pass = "made" \/ \E i \in Keyed : rec[h].held[i] > 0
      BY <2>2, <3>3, OverwrittenFacts
    <3>5. U.rec \in Tables /\ U.rec[h] = r /\ \A c \in Ids : c # h => U.rec[c] = rec[c]
      BY <2>2, <3>2, <3>3, <3>4 DEF Tables
    <3>6. \A d \in Live \ {h} : rec[d].sub # p.sub
      BY <2>8 DEF TakenByOther
    <3>7. Keeps(U.rec, h, p)
      BY <3>4, <3>5, <3>6 DEF Keeps
    <3> QED  BY <2>2, <2>5, <2>8, <3>2, <3>4, <3>5, <3>6, <3>7 DEF Updates, Bounded
  <2> QED  BY <2>4, <2>7, <2>8
<1> QED  BY <1>1, <1>2

\* Detach and links: the fields they leave, and what becomes of the inbounds.
LEMMA DetachFacts ==
  ASSUME rec \in Tables, Unique, NEW e, NEW ibs \in SUBSET Inbounds,
         NEW U, U = Detach(e, ibs)
  PROVE  /\ Bounded(U, e)
         /\ \A c \in Called(e) :
              /\ \A f \in {"email", "name", "sub", "cred", "on", "links"} :
                   U.rec[c][f] = rec[c][f]
              /\ U.rec[c].held =
                   [i \in Inbounds |-> IF i \in ibs THEN 0 ELSE rec[c].held[i]]
<1>1. CASE Called(e) = {}
  BY <1>1 DEF Detach, Refused, Bounded
<1>2. CASE Called(e) # {}
  <2>1. PICK h : h = Holder(e)
    OBVIOUS
  <2>2. h \in Live /\ h \in Ids /\ rec[h] \in Clients /\ rec[h].email = e /\ Called(e) = {h}
    BY <1>2, <2>1, HolderFacts DEF Live, Tables
  <2>3. PICK held : held = [i \in Inbounds |-> IF i \in ibs THEN 0 ELSE rec[h].held[i]]
    OBVIOUS
  <2>4. held \in [Inbounds -> 0 .. 2]
    BY <2>2, <2>3 DEF Clients
  <2>5. U.ok = TRUE /\ U.rec = [rec EXCEPT ![h] = [rec[h] EXCEPT !.held = held]]
    BY <1>2, <2>1, <2>2, <2>3 DEF Detach, Done, Tables, Clients
  <2>6. PICK r : r = [rec[h] EXCEPT !.held = held]
    OBVIOUS
  <2>7. /\ r \in Clients /\ r.held = held
        /\ \A f \in {"email", "name", "sub", "cred", "on", "links"} : r[f] = rec[h][f]
    BY <2>2, <2>4, <2>6 DEF Clients
  <2>8. U.rec \in Tables /\ U.rec[h] = r /\ \A c \in Ids : c # h => U.rec[c] = rec[c]
    BY <2>2, <2>5, <2>6, <2>7 DEF Tables
  <2>9. Bounded(U, e)
    BY <2>2, <2>5, <2>7, <2>8 DEF Bounded
  <2> QED  BY <2>2, <2>3, <2>7, <2>8, <2>9
<1> QED  BY <1>1, <1>2

LEMMA LinksFacts ==
  ASSUME rec \in Tables, Unique, NEW e, NEW links \in BOOLEAN,
         NEW U, U = SetExternalLinks(e, links)
  PROVE  /\ Bounded(U, e)
         /\ \A c \in Called(e) :
              /\ \A f \in {"email", "name", "sub", "cred", "on", "held"} :
                   U.rec[c][f] = rec[c][f]
              /\ U.rec[c].links = links
<1>1. CASE Called(e) = {}
  BY <1>1 DEF SetExternalLinks, Refused, Bounded
<1>2. CASE Called(e) # {}
  <2>1. PICK h : h = Holder(e)
    OBVIOUS
  <2>2. h \in Live /\ h \in Ids /\ rec[h] \in Clients /\ rec[h].email = e /\ Called(e) = {h}
    BY <1>2, <2>1, HolderFacts DEF Live, Tables
  <2>3. U.ok = TRUE /\ U.rec = [rec EXCEPT ![h] = [rec[h] EXCEPT !.links = links]]
    BY <1>2, <2>1, <2>2 DEF SetExternalLinks, Done, Tables, Clients
  <2>4. PICK r : r = [rec[h] EXCEPT !.links = links]
    OBVIOUS
  <2>5. /\ r \in Clients /\ r.links = links
        /\ \A f \in {"email", "name", "sub", "cred", "on", "held"} : r[f] = rec[h][f]
    BY <2>2, <2>4 DEF Clients
  <2>6. U.rec \in Tables /\ U.rec[h] = r /\ \A c \in Ids : c # h => U.rec[c] = rec[c]
    BY <2>2, <2>3, <2>4, <2>5 DEF Tables
  <2>7. U.ok \in BOOLEAN
    BY <2>3
  <2>8. Bounded(U, e)
    BY <2>2, <2>5, <2>6, <2>7 DEF Bounded
  <2> QED  BY <2>2, <2>5, <2>6, <2>8
<1> QED  BY <1>1, <1>2

\* Create adds a client under an e-mail nobody has, or its inbounds to the one client
\* that has both the e-mail and the subscription id.
Creates(U, p) ==
  /\ U.rec \in Tables /\ U.ok \in BOOLEAN
  /\ \A c \in Live :
       /\ U.rec[c] \in Clients /\ U.rec[c].email = rec[c].email
       /\ c \notin Called(p.email) => U.rec[c] = rec[c]
       /\ Keeps(U.rec, c, p)
  /\ \A c \in Ids \ Live : U.rec[c] # None =>
       /\ U.rec[c].email = p.email /\ Called(p.email) = {}
       /\ \A d \in Ids \ {c} : U.rec[d] = rec[d]

LEMMA CreateFacts ==
  ASSUME rec \in Tables, Unique, NEW p \in Forms, p.cred \in Credentials,
         OrderlyBut(None), Called(p.email) = {} => Spare # {},
         NEW U, U = Create(p)
  PROVE  Creates(U, p)
<1> DEFINE new == [email |-> p.email, name |-> p.email, sub |-> p.sub,
                   cred |-> Filled(p.cred, p.ibs), on |-> TRUE, links |-> FALSE,
                   held |-> [i \in Inbounds |-> IF i \in p.ibs THEN 1 ELSE 0]]
           refused == \/ \E c \in Called(p.email) : rec[c].sub # p.sub
                      \/ \E c \in Live \ Called(p.email) : rec[c].sub = p.sub
<1>1. U = IF refused THEN Refused
          ELSE IF Called(p.email) = {}
            THEN Done([rec EXCEPT ![CHOOSE c \in Spare : TRUE] = new])
          ELSE Done([rec EXCEPT ![Holder(p.email)] = Again(@, new)])
  BY DEF Create
<1>a. p.ibs \in SUBSET Inbounds
  BY DEF Forms
<1>b. Filled(p.cred, p.ibs) \in Credentials
      /\ (Filled(p.cred, p.ibs).pass = "made" => p.cred.pass = "made" \/ p.ibs \cap Keyed # {})
  BY <1>a, CredFacts
<1>2. /\ new \in Clients /\ new.email = p.email /\ new.cred = Filled(p.cred, p.ibs)
      /\ \A i \in Inbounds : new.held[i] \in 0 .. 1 /\ (i \in p.ibs => new.held[i] = 1)
  BY <1>b DEF Clients, Forms, Emails
<1> HIDE DEF new
<1>c. new.cred.pass = "made" =>
        p.cred.pass = "made" \/ \E i \in Keyed : i \in Inbounds /\ new.held[i] = 1
  BY <1>a, <1>b, <1>2
<1>3. CASE refused
  <2> HIDE DEF refused
  <2>1. U = Refused
    BY <1>1, <1>3
  <2>2. U.rec = rec /\ U.ok \in BOOLEAN
    BY <2>1 DEF Refused
  <2>3. \A c \in Live : c \in Ids /\ rec[c] \in Clients
    BY DEF Live, Tables
  <2> QED  BY <2>2, <2>3, SameKeeps DEF Creates, Live
<1>4. CASE ~refused /\ Called(p.email) = {}
  <2>1. PICK c : c = (CHOOSE d \in Spare : TRUE)
    OBVIOUS
  <2>2. c \in Spare /\ c \in Ids /\ c \notin Live
    BY <1>4, <2>1 DEF Spare
  <2>3. U.ok = TRUE /\ U.rec = [rec EXCEPT ![c] = new]
    BY <1>1, <1>4, <2>1 DEF Done
  <2>4. U.rec \in Tables /\ U.rec[c] = new /\ \A d \in Ids \ {c} : U.rec[d] = rec[d]
    BY <1>2, <2>2, <2>3 DEF Tables
  <2>5. \A d \in Live : d \in Ids \ {c} /\ rec[d] \in Clients
    BY <2>2 DEF Live, Tables
  <2>6. \A d \in Ids \ Live : d # c => U.rec[d] = None
    BY <2>4 DEF Live
  <2>7. U.ok \in BOOLEAN
    BY <2>3
  <2> QED  BY <1>2, <1>4, <2>2, <2>4, <2>5, <2>6, <2>7, SameKeeps DEF Creates
<1>5. CASE ~refused /\ Called(p.email) # {}
  <2>1. PICK h : h = Holder(p.email)
    OBVIOUS
  <2>2. /\ h \in Live /\ h \in Ids /\ rec[h] \in Clients /\ rec[h].email = p.email
        /\ Called(p.email) = {h}
    BY <1>5, <2>1, HolderFacts DEF Live, Tables
  <2>3. PICK r : r = Again(rec[h], new)
    OBVIOUS
  <2>4. \A i \in Inbounds : rec[h].held[i] \in 0 .. 1
    BY <2>2 DEF OrderlyBut, Twin, Clients
  <2>5. \A i \in Inbounds : rec[h].held[i] + new.held[i] \in 0 .. 2
    BY <1>2, <2>4
  <2>6. /\ r \in Clients /\ r.email = p.email /\ r.cred = new.cred
        /\ \A i \in Inbounds : r.held[i] = rec[h].held[i] + new.held[i]
    BY <1>2, <2>2, <2>3, <2>5, AgainFacts
  <2>7. U.ok = TRUE /\ U.rec = [rec EXCEPT ![h] = Again(@, new)]
    BY <1>1, <1>5, <2>1 DEF Done
  <2>8. U.rec = [rec EXCEPT ![h] = r]
    BY <2>2, <2>3, <2>7 DEF Tables
  <2>9. U.rec \in Tables /\ U.rec[h] = r /\ \A d \in Ids \ {h} : U.rec[d] = rec[d]
    BY <2>2, <2>6, <2>8 DEF Tables
  <2>10. \A d \in Live \ {h} : rec[d].sub # p.sub
    BY <1>5, <2>2
  <2>11. U.ok \in BOOLEAN
    BY <2>7
  <2>12. \A d \in Live : d \in Ids /\ rec[d] \in Clients
    BY DEF Live, Tables
  <2>13. \A d \in Ids \ Live : U.rec[d] = None
    BY <2>2, <2>9 DEF Live
  <2>14. Keeps(U.rec, h, p)
    <3>1. \A i \in Inbounds : new.held[i] = 1 => r.held[i] > 0
      BY <2>4, <2>6
    <3> QED  BY <1>c, <2>6, <2>9, <2>10, <3>1 DEF Keeps
  <2> QED  BY <2>2, <2>6, <2>9, <2>10, <2>11, <2>12, <2>13, <2>14, SameKeeps DEF Creates
<1> QED  BY <1>3, <1>4, <1>5

-----------------------------------------------------------------------------
\* The request a save has come to.

Basics == TypeOK /\ Unique /\ Modes /\ SaveModes

Known == Basics /\ JobModes

LEMMA SaveTypes ==
  ASSUME TypeOK, save # None
  PROVE  /\ save \in Saves /\ save.pc \in Requests /\ save.form \in Forms
         /\ save.form # None /\ save.form.links \in BOOLEAN
         /\ save.email \in Emails /\ save.target \in Ids \cup {None}
         /\ save.attach \in SUBSET Inbounds /\ save.detach \in SUBSET Inbounds
         /\ save.clean \in BOOLEAN /\ save.kept \in BOOLEAN /\ rec \in Tables
<1>1. save \in Saves /\ rec \in Tables
  BY DEF TypeOK, Tables
<1> QED  BY <1>1 DEF Saves, Forms

\* The answer to it: the table it leaves, and that one a table in which e-mails are
\* still unique, credentials went only where the subscription id is nobody else's,
\* and nobody but the one addressed has changed.
Answered(U) ==
  /\ U.rec \in Tables /\ U.ok \in BOOLEAN
  /\ Distinct(U.rec)
  /\ \A c \in Live : /\ U.rec[c] \in Clients
                     /\ c \notin Called(save.email) => U.rec[c] = rec[c]
                     /\ Keeps(U.rec, c, save.form)

\* A change of an existing client.
Rewritten(U) ==
  /\ Bounded(U, save.email)
  /\ \A c \in Called(save.email) :
       /\ \A i \in Inbounds : i \notin save.attach \cup save.detach =>
            U.rec[c].held[i] = rec[c].held[i]
       /\ \A i \in Inbounds : U.rec[c].held[i] <= rec[c].held[i]
       /\ save.pc # "update" \/ save.form.email = save.email =>
            U.rec[c].email = rec[c].email

LEMMA CreateAnswer ==
  ASSUME Known, save # None, save.pc = "create", Explored, NEW U, U = Answer
  PROVE  Answered(U)
<1>1. /\ rec \in Tables /\ save.form \in Forms /\ save.form.cred \in Credentials
      /\ save.email = save.form.email /\ Unique
  BY SaveTypes DEF Known, Basics, SaveModes
<1>2. OrderlyBut(None) /\ (Called(save.form.email) = {} => Spare # {})
  BY DEF Explored
<1>3. U = Create(save.form)
  BY DEF Answer
<1>4. PICK p : p = save.form
  OBVIOUS
<1>5. Creates(U, p)
  BY <1>1, <1>2, <1>3, <1>4, CreateFacts
<1>6. ASSUME NEW c \in Ids, NEW d \in Ids, U.rec[c] # None, U.rec[d] # None,
             U.rec[c].email = U.rec[d].email
      PROVE  c = d
  <2>1. CASE c \in Live /\ d \in Live
    BY <1>1, <1>5, <1>6, <2>1 DEF Creates, Unique
  <2>2. CASE c \in Live /\ d \notin Live
    BY <1>5, <1>6, <2>2 DEF Creates, Called
  <2>3. CASE c \notin Live /\ d \in Live
    BY <1>5, <1>6, <2>3 DEF Creates, Called
  <2>4. CASE c \notin Live /\ d \notin Live
    BY <1>5, <1>6, <2>4 DEF Creates, Live
  <2> QED  BY <2>1, <2>2, <2>3, <2>4
<1>7. Distinct(U.rec)
  BY <1>6 DEF Distinct
<1>8. U.rec \in Tables /\ U.ok \in BOOLEAN
  BY <1>5 DEF Creates
<1>9. save.email = p.email /\ save.form.sub = p.sub
  BY <1>1, <1>4
<1>10. \A c \in Live :
         /\ U.rec[c] \in Clients
         /\ c \notin Called(save.email) => U.rec[c] = rec[c]
         /\ Keeps(U.rec, c, save.form)
  BY <1>4, <1>5, <1>9 DEF Creates
<1> QED  BY <1>7, <1>8, <1>10 DEF Answered

\* Where a request changes one client's e-mail into one nobody else has, e-mails stay
\* unique.
LEMMA BoundedUnique ==
  ASSUME rec \in Tables, Unique, NEW e, NEW U, Bounded(U, e),
         \A c \in Called(e) : \A d \in Live \ {c} : U.rec[c].email # rec[d].email
  PROVE  /\ Distinct(U.rec)
         /\ \A c \in Live : U.rec[c] \in Clients
         /\ \A c \in Ids : U.rec[c] = None <=> c \notin Live
<1>1. /\ \A c \in Called(e) : c = Holder(e)
      /\ Called(e) \subseteq Live
  BY HolderFacts
<1>2. \A c \in Live : U.rec[c] \in Clients
  BY DEF Bounded, Live, Tables
<1>3. \A c \in Ids : U.rec[c] = None <=> c \notin Live
  BY <1>1, <1>2 DEF Bounded, Live
<1>4. ASSUME NEW c \in Ids, NEW d \in Ids, U.rec[c] # None, U.rec[d] # None,
             U.rec[c].email = U.rec[d].email
      PROVE  c = d
  <2>1. c \in Live /\ d \in Live
    BY <1>3, <1>4
  <2>2. CASE c \in Called(e) \/ d \in Called(e)
    BY <1>1, <1>4, <2>1, <2>2 DEF Bounded
  <2>3. CASE c \notin Called(e) /\ d \notin Called(e)
    BY <1>4, <2>1, <2>3 DEF Bounded, Unique
  <2> QED  BY <2>2, <2>3
<1> QED  BY <1>2, <1>3, <1>4 DEF Distinct

LEMMA UpdateAnswer ==
  ASSUME rec \in Tables, Unique, NEW e, NEW p \in Forms, NEW U, Updates(U, e, p)
  PROVE  /\ Distinct(U.rec)
         /\ \A c \in Live : U.rec[c] \in Clients
         /\ \A c \in Live : Keeps(U.rec, c, p)
<1>1. Bounded(U, e)
  BY DEF Updates
<1>2. \A c \in Called(e) : \A d \in Live \ {c} : U.rec[c].email # rec[d].email
  BY DEF Updates, Called, Unique
<1>3. \A c \in Live : c \in Ids /\ (c \notin Called(e) => U.rec[c] = rec[c])
  BY <1>1 DEF Bounded, Live
<1>4. \A c \in Live : Keeps(U.rec, c, p)
  BY <1>3, SameKeeps DEF Updates
<1> QED  BY <1>1, <1>2, <1>4, BoundedUnique

LEMMA RewriteAnswer ==
  ASSUME Known, save # None, save.pc \notin {"create", "done"}, NEW U, U = Answer
  PROVE  Answered(U) /\ Rewritten(U)
<1>1. /\ rec \in Tables /\ save.form \in Forms /\ save.form.links \in BOOLEAN /\ Unique
      /\ save.attach \in SUBSET Inbounds /\ save.detach \in SUBSET Inbounds
      /\ save.pc \in {"update", "attach", "detach", "links"}
  BY SaveTypes DEF Known, Basics, Requests
<1>2. PICK e : e = save.email
  OBVIOUS
<1>3. \A c \in Called(e) : /\ c \in Live /\ rec[c] \in Clients /\ rec[c].email = e
                           /\ \A i \in Inbounds : rec[c].held[i] \in 0 .. 2
  BY <1>1 DEF Called, Live, Tables, Clients
\* Those that change neither e-mail nor credential.
<1>4. ASSUME Bounded(U, e),
             \A c \in Called(e) : U.rec[c].email = rec[c].email /\ U.rec[c].cred = rec[c].cred
      PROVE  Answered(U)
  <2>1. \A c \in Called(e) : \A d \in Live \ {c} : U.rec[c].email # rec[d].email
    BY <1>1, <1>4 DEF Called, Unique
  <2>2. Distinct(U.rec) /\ \A c \in Live : U.rec[c] \in Clients
    BY <1>1, <1>4, <2>1, BoundedUnique
  <2>3. U.rec \in Tables /\ U.ok \in BOOLEAN
        /\ \A c \in Ids : c \notin Called(e) => U.rec[c] = rec[c]
    BY <1>4 DEF Bounded
  <2>4. \A c \in Live : c \in Ids /\ U.rec[c].cred = rec[c].cred
    BY <1>4, <2>3 DEF Live
  <2>5. \A c \in Live : Keeps(U.rec, c, save.form)
    BY <2>4, SameKeeps
  <2> QED  BY <1>2, <2>2, <2>3, <2>4, <2>5 DEF Answered
<1>5. CASE save.pc = "update"
  <2>1. PICK p : p = save.form
    OBVIOUS
  <2>2. U = Update(e, p)
    BY <1>2, <1>5, <2>1 DEF Answer
  <2>3. Updates(U, e, p)
    BY <1>1, <2>1, <2>2, UpdateFacts
  <2>4. p \in Forms
    BY <1>1, <2>1
  <2>5. Distinct(U.rec)
    BY <1>1, <2>3, <2>4, UpdateAnswer
  <2>6. \A c \in Live : U.rec[c] \in Clients
    BY <1>1, <2>3, <2>4, UpdateAnswer
  <2>7. \A c \in Live : Keeps(U.rec, c, p)
    BY <1>1, <2>3, <2>4, UpdateAnswer
  <2>8. /\ Bounded(U, e)
        /\ \A c \in Called(e) : /\ U.rec[c].held = rec[c].held
                                /\ U.rec[c].email = e \/ U.rec[c].email = p.email
    BY <2>3 DEF Updates
  <2>9. Answered(U)
    BY <1>2, <2>1, <2>5, <2>6, <2>7, <2>8 DEF Answered, Bounded, Live
  <2>10. \A c \in Called(e) : \A i \in Inbounds : U.rec[c].held[i] <= rec[c].held[i]
    BY <1>3, <2>8
  <2>11. Rewritten(U)
    BY <1>2, <1>3, <1>5, <2>1, <2>8, <2>10 DEF Rewritten
  <2> QED  BY <2>9, <2>11
<1>6. CASE save.pc = "attach"
  <2>1. U = Attached(e)
    BY <1>2, <1>6 DEF Answer
  <2>2. U.rec = rec /\ U.ok \in BOOLEAN /\ (Called(e) = {} => ~U.ok)
    BY <2>1 DEF Attached, Refused, Done
  <2>3. Bounded(U, e)
    BY <1>1, <1>3, <2>2 DEF Bounded
  <2>4. \A c \in Called(e) : \A i \in Inbounds : U.rec[c].held[i] <= rec[c].held[i]
    BY <1>3, <2>2
  <2>5. Rewritten(U)
    BY <1>2, <2>2, <2>3, <2>4 DEF Rewritten
  <2> QED  BY <1>4, <2>2, <2>3, <2>5
<1>7. CASE save.pc = "detach"
  <2>1. U = Detach(e, save.detach)
    BY <1>2, <1>7 DEF Answer
  <2>2. /\ Bounded(U, e)
        /\ \A c \in Called(e) :
             /\ \A f \in {"email", "name", "sub", "cred", "on", "links"} :
                  U.rec[c][f] = rec[c][f]
             /\ U.rec[c].held = [i \in Inbounds |->
                  IF i \in save.detach THEN 0 ELSE rec[c].held[i]]
    BY <1>1, <2>1, DetachFacts
  <2>3. \A c \in Called(e) : U.rec[c].email = rec[c].email /\ U.rec[c].cred = rec[c].cred
    BY <2>2
  <2>4. ASSUME NEW c \in Called(e)
        PROVE  /\ \A i \in Inbounds : i \notin save.attach \cup save.detach =>
                    U.rec[c].held[i] = rec[c].held[i]
               /\ \A i \in Inbounds : U.rec[c].held[i] <= rec[c].held[i]
    <3>1. U.rec[c].held = [i \in Inbounds |->
            IF i \in save.detach THEN 0 ELSE rec[c].held[i]]
      BY <2>2
    <3>2. \A i \in Inbounds : rec[c].held[i] \in 0 .. 2
      BY <1>3
    <3> QED  BY <3>1, <3>2
  <2>5. Rewritten(U)
    BY <1>2, <2>2, <2>3, <2>4 DEF Rewritten
  <2> QED  BY <1>4, <2>2, <2>3, <2>5
<1>8. CASE save.pc = "links"
  <2>1. U = SetExternalLinks(e, save.form.links)
    BY <1>2, <1>8 DEF Answer
  <2>2. /\ Bounded(U, e)
        /\ \A c \in Called(e) : \A f \in {"email", "name", "sub", "cred", "on", "held"} :
             U.rec[c][f] = rec[c][f]
    BY <1>1, <2>1, LinksFacts
  <2>3. \A c \in Called(e) : /\ U.rec[c].email = rec[c].email /\ U.rec[c].cred = rec[c].cred
                             /\ U.rec[c].held = rec[c].held
    BY <2>2
  <2>4. \A c \in Called(e) : \A i \in Inbounds : U.rec[c].held[i] <= rec[c].held[i]
    BY <1>3, <2>3
  <2>5. Rewritten(U)
    BY <1>2, <2>2, <2>3, <2>4 DEF Rewritten
  <2> QED  BY <1>4, <2>2, <2>3, <2>5
<1> QED  BY <1>1, <1>5, <1>6, <1>7, <1>8

\* Which requests can follow which.
LEMMA FollowingFacts ==
  ASSUME TypeOK, save # None, save.pc # "done"
  PROVE  /\ Following \in Requests \ {"create", "update"}
         /\ save.pc = "create" => Following \in {"links", "done"}
         /\ save.pc = "links" => Following = "done"
         /\ save.pc = "detach" => Following = "links"
         /\ save.pc = "attach" =>
              Following \in {"detach", "links"} /\ (Following = "links" => save.detach = {})
         /\ save.pc = "update" =>
              /\ Following \in {"attach", "detach", "links"}
              /\ Following # "attach" => save.attach = {}
              /\ Following = "links" => save.detach = {}
<1>1. save.pc \in Requests
  BY SaveTypes
<1>2. CASE save.pc \in {"create", "links"}
  BY <1>2 DEF Following, Requests
<1>3. CASE save.pc \in {"attach", "detach"}
  BY <1>3 DEF Following, Requests
<1>4. CASE save.pc = "update"
  <2>1. Following = IF save.attach # {} THEN "attach"
                    ELSE IF save.detach # {} THEN "detach" ELSE "links"
    BY <1>4 DEF Following
  <2> QED  BY <1>4, <2>1 DEF Requests
<1> QED  BY <1>1, <1>2, <1>3, <1>4 DEF Requests

\* A client that keeps its e-mail and gets no entries.
Spared(c) ==
  /\ c \in Live' /\ rec'[c].email = rec[c].email
  /\ \A i \in Inbounds : rec'[c].held[i] <= rec[c].held[i]

LEMMA SameSpared ==
  ASSUME rec \in Tables, NEW c \in Live, rec'[c] = rec[c]
  PROVE  Spared(c)
<1>1. rec[c] \in Clients /\ c \in Ids /\ rec[c] # None
  BY DEF Live, Tables
<1>2. \A i \in Inbounds : rec[c].held[i] \in 0 .. 2
  BY <1>1 DEF Clients
<1> QED  BY <1>1, <1>2 DEF Spared, Live

\* What a request may leave behind, whether or not its answer arrives.
Wrote ==
  /\ rec' \in Tables /\ Distinct(rec')
  /\ \A c \in Live : /\ rec'[c] \in Clients
                     /\ c \notin Called(save.email) => rec'[c] = rec[c]
                     /\ Keeps(rec', c, save.form)
                     /\ c \in Attaching => Spared(c)
  /\ save.pc # "create" =>
       /\ \A c \in Ids : c \notin Called(save.email) => rec'[c] = rec[c]
       /\ Called(save.email) = {} => rec' = rec
       /\ \A c \in Called(save.email) :
            /\ \A i \in Inbounds : i \notin save.attach \cup save.detach =>
                 rec'[c].held[i] = rec[c].held[i]
            /\ \A i \in Inbounds : rec'[c].held[i] <= rec[c].held[i]

LEMMA RequestWrites ==
  ASSUME Known, Request \/ RequestLost
  PROVE  Wrote /\ save # None /\ save.pc # "done" /\ rec \in Tables /\ Unique
<1>1. save # None /\ save.pc # "done" /\ Explored /\ (rec' = Answer.rec \/ rec' = rec)
  BY DEF Request, RequestLost
<1>2. PICK U : U = Answer
  OBVIOUS
<1>3. Answered(U) /\ (save.pc # "create" => Rewritten(U))
  BY <1>1, <1>2, CreateAnswer, RewriteAnswer
<1>4. rec \in Tables /\ Unique
  BY <1>1, SaveTypes DEF Known, Basics
<1>5. CASE rec' = U.rec
  <2>1. save.pc # "create" =>
          /\ \A c \in Ids : c \notin Called(save.email) => U.rec[c] = rec[c]
          /\ Called(save.email) = {} => U.rec = rec
          /\ \A c \in Called(save.email) :
               /\ \A i \in Inbounds : i \notin save.attach \cup save.detach =>
                    U.rec[c].held[i] = rec[c].held[i]
               /\ \A i \in Inbounds : U.rec[c].held[i] <= rec[c].held[i]
    BY <1>3 DEF Rewritten, Bounded
  <2>2. /\ U.rec \in Tables /\ Distinct(U.rec)
        /\ \A c \in Live : /\ U.rec[c] \in Clients
                           /\ c \notin Called(save.email) => U.rec[c] = rec[c]
                           /\ Keeps(U.rec, c, save.form)
    BY <1>3 DEF Answered
  <2>3. ASSUME NEW c \in Live, c \in Attaching PROVE Spared(c)
    <3>1. CASE c \notin Called(save.email)
      BY <1>4, <1>5, <2>2, <3>1, SameSpared
    <3>2. CASE c \in Called(save.email)
      <4>1. save.pc # "create"
        BY <1>1, <2>3, <3>2 DEF Explored, Known, Basics, SaveModes
      <4>2. save.pc # "update" \/ save.form.email = save.email
        BY <1>1, <2>3, <3>2 DEF Explored
      <4>3. U.rec[c].email = rec[c].email
        BY <1>3, <3>2, <4>1, <4>2 DEF Rewritten
      <4>4. c \in Live'
        BY <1>5, <2>2 DEF Live
      <4> QED  BY <1>5, <2>1, <3>2, <4>1, <4>3, <4>4 DEF Spared
    <3> QED  BY <3>1, <3>2
  <2>4. Wrote
    BY <1>5, <2>1, <2>2, <2>3 DEF Wrote
  <2> QED  BY <1>1, <1>4, <2>4
<1>6. CASE rec' = rec
  <2>1. Distinct(rec) /\ \A c \in Live : rec[c] \in Clients
    BY <1>4 DEF Distinct, Unique, Live, Tables
  <2>2. \A c \in Live : Keeps(rec', c, save.form) /\ Spared(c)
    BY <1>4, <1>6, SameKeeps, SameSpared
  <2>3. \A c \in Called(save.email) : \A i \in Inbounds : rec'[c].held[i] <= rec[c].held[i]
    BY <2>2 DEF Spared, Called
  <2>4. Wrote
    BY <1>4, <1>6, <2>1, <2>2, <2>3 DEF Wrote
  <2> QED  BY <1>1, <1>4, <2>4
<1> QED  BY <1>1, <1>2, <1>5, <1>6

\* A switch is written back under the e-mail the client has.
Switched ==
  /\ rec' \in Tables /\ Distinct(rec')
  /\ \A c \in Ids : c \notin Called(toggle.email) => rec'[c] = rec[c]
  /\ \A c \in Called(toggle.email) :
       /\ rec'[c] \in Clients /\ rec'[c].email = rec[c].email
       /\ rec'[c].held = rec[c].held
       /\ Keeps(rec', c, toggle)

LEMMA ToggleFacts ==
  ASSUME Known, ToggleWrites
  PROVE  Switched /\ toggle \in Forms /\ rec \in Tables /\ Unique
<1>1. toggle \in Forms /\ rec \in Tables /\ Unique
  BY DEF Known, Basics, TypeOK, ToggleWrites, Tables
<1>2. PICK U, e, p : U = Update(toggle.email, toggle) /\ e = toggle.email /\ p = toggle
  OBVIOUS
<1>3. p \in Forms /\ U = Update(e, p)
  BY <1>1, <1>2
<1>4. Updates(U, e, p)
  BY <1>1, <1>3, UpdateFacts
<1>5. Distinct(U.rec)
  BY <1>1, <1>3, <1>4, UpdateAnswer
<1>6. /\ U.rec \in Tables
      /\ \A c \in Ids : c \notin Called(e) => U.rec[c] = rec[c]
      /\ \A c \in Called(e) : U.rec[c] \in Clients
  BY <1>4 DEF Updates, Bounded
<1>7. \A c \in Called(e) :
        /\ U.rec[c].email = rec[c].email /\ U.rec[c].held = rec[c].held
        /\ Keeps(U.rec, c, p)
  BY <1>2, <1>4 DEF Updates, Called
<1>8. rec' = U.rec
  BY <1>2 DEF ToggleWrites
<1> QED  BY <1>1, <1>2, <1>5, <1>6, <1>7, <1>8 DEF Switched

\* An attach enters its client in one inbound, or is refused.
Enters(job, i) ==
  /\ job \in Jobs /\ i \in job.todo /\ i \in Inbounds /\ job.client \in Live
  /\ rec' \in Tables
  /\ \A d \in Ids : d # job.client => rec'[d] = rec[d]
  /\ ~AddInboundClient(job, i).ok => rec' = rec
  /\ AddInboundClient(job, i).ok =>
       /\ rec'[job.client] \in Clients
       /\ \A f \in {"email", "name", "links"} : rec'[job.client][f] = rec[job.client][f]
       /\ rec'[job.client].sub = job.sub /\ rec'[job.client].on = job.on
       /\ rec'[job.client].held[i] = rec[job.client].held[i] + 1
       /\ \A j \in Inbounds : j # i => rec'[job.client].held[j] = rec[job.client].held[j]
       /\ rec'[job.client].cred.of = job.cred.of
       /\ rec'[job.client].cred.pass = "made" => job.cred.pass = "made" \/ i \in Keyed

LEMMA EnterFacts ==
  ASSUME rec \in Tables, NEW job \in Jobs, Running(job), OrderlyBut(None),
         NEW i \in job.todo, rec' = AddInboundClient(job, i).rec
  PROVE  Enters(job, i)
<1>1. PICK c : c = job.client
  OBVIOUS
<1>2. c \in Live /\ c \in Ids /\ rec[c] \in Clients /\ i \in Inbounds
  BY <1>1 DEF Running, Live, Tables, Jobs
<1>3. PICK A : A = AddInboundClient(job, i)
  OBVIOUS
<1>4. A = Refused \/ A = Done([rec EXCEPT ![c] = Entered(@, job, i)])
  BY <1>1, <1>3 DEF AddInboundClient
<1>5. CASE A = Refused
  <2>1. rec' = rec /\ A.ok = FALSE
    BY <1>3, <1>5 DEF Refused
  <2> QED  BY <1>1, <1>2, <1>3, <2>1 DEF Enters
<1>6. CASE A = Done([rec EXCEPT ![c] = Entered(@, job, i)])
  <2>1. PICK n : n = Entered(rec[c], job, i)
    OBVIOUS
  <2>2. rec[c].held[i] <= 1
    BY <1>2 DEF OrderlyBut, Twin, Clients
  <2>3. /\ n \in Clients
        /\ n.email = rec[c].email /\ n.name = rec[c].name /\ n.links = rec[c].links
        /\ n.sub = job.sub /\ n.on = job.on /\ n.held[i] = rec[c].held[i] + 1
        /\ \A j \in Inbounds : j # i => n.held[j] = rec[c].held[j]
        /\ n.cred.of = job.cred.of
        /\ n.cred.pass = "made" => job.cred.pass = "made" \/ i \in Keyed
    BY <1>2, <2>1, <2>2, EnteredFacts
  <2>4. rec' = [rec EXCEPT ![c] = n] /\ A.ok = TRUE
    BY <1>2, <1>3, <1>6, <2>1 DEF Done, Tables
  <2>5. rec' \in Tables /\ rec'[c] = n /\ \A d \in Ids : d # c => rec'[d] = rec[d]
    BY <1>2, <2>3, <2>4 DEF Tables
  <2>6. \A f \in {"email", "name", "links"} : n[f] = rec[c][f]
    BY <2>3
  <2> QED  BY <1>1, <1>2, <1>3, <2>3, <2>4, <2>5, <2>6 DEF Enters
<1> QED  BY <1>4, <1>5, <1>6

\* The attach of a save, and one that nobody waits for.
LEMMA AppendFacts ==
  ASSUME Known, AttachAppends
  PROVE  \E i \in ours.todo :
           /\ Enters(ours, i)
           /\ IF AddInboundClient(ours, i).ok
              THEN ours' = [ours EXCEPT !.todo = @ \ {i}] /\ save' = save /\ tried' = tried
              ELSE ours' = None /\ save' = None /\ tried' = Attempted
<1>1. /\ rec \in Tables /\ ours \in Jobs /\ Running(ours) /\ OrderlyBut(None)
  BY DEF AttachAppends, Known, Basics, JobModes, TypeOK, Tables
<1>2. PICK i \in ours.todo :
        /\ rec' = AddInboundClient(ours, i).rec
        /\ IF AddInboundClient(ours, i).ok
           THEN ours' = [ours EXCEPT !.todo = @ \ {i}] /\ save' = save /\ tried' = tried
           ELSE ours' = None /\ save' = None /\ tried' = Attempted
  BY DEF AttachAppends
<1>3. Enters(ours, i)
  BY <1>1, <1>2, EnterFacts
<1> QED  BY <1>2, <1>3

LEMMA StrayFacts ==
  ASSUME Known, StrayAppends
  PROVE  \E i \in stray.todo :
           /\ Enters(stray, i)
           /\ stray' = [stray EXCEPT !.todo = @ \ {i}] \/ stray' = None
<1>1. /\ rec \in Tables /\ stray \in Jobs /\ Running(stray) /\ OrderlyBut(None)
  BY DEF StrayAppends, Known, Basics, JobModes, TypeOK, Tables
<1>2. PICK i \in stray.todo :
        /\ rec' = AddInboundClient(stray, i).rec
        /\ stray' = [stray EXCEPT !.todo = @ \ {i}] \/ stray' = None
  BY DEF StrayAppends
<1>3. Enters(stray, i)
  BY <1>1, <1>2, EnterFacts
<1> QED  BY <1>2, <1>3

-----------------------------------------------------------------------------
\* Types, unique e-mails and the modes of the dialog.

LEMMA FormFacts ==
  /\ \A c \in Live : rec \in Tables =>
       /\ Full(c) \in Forms /\ Slim(c) \in Forms
       /\ Full(c).of = c /\ Slim(c).of = c
       /\ Full(c).email = rec[c].email /\ Slim(c).email = rec[c].email
       /\ Full(c).ibs = AttachedTo(c) /\ Slim(c).ibs = AttachedTo(c)
  /\ NewClient \in Forms /\ NewClient.cred \in Credentials
<1>1. ASSUME NEW c \in Live, rec \in Tables
      PROVE  /\ Full(c) \in Forms /\ Full(c).of = c /\ Full(c).email = rec[c].email
             /\ Full(c).ibs = AttachedTo(c)
  <2>1. c \in Ids /\ rec[c] \in Clients
    BY <1>1 DEF Live, Tables
  <2> QED  BY <2>1 DEF Full, Forms, Clients, Credentials, AttachedTo
<1>2. ASSUME NEW c \in Live, Full(c) \in Forms
      PROVE  /\ Slim(c) \in Forms /\ Slim(c).of = Full(c).of
             /\ Slim(c).email = Full(c).email /\ Slim(c).ibs = Full(c).ibs
  BY <1>2 DEF Slim, Forms
<1>3. NewClient \in Forms /\ NewClient.cred \in Credentials
  BY DEF NewClient, Forms, Emails, Credentials
<1> QED  BY <1>1, <1>2, <1>3

\* A form with another password, or with other inbounds.
LEMMA PasswordFacts ==
  ASSUME NEW form \in Forms
  PROVE  /\ \A f \in Opened(form) :
              f \in Forms /\ (form.cred \in Credentials => f.cred \in Credentials)
         /\ \A ibs \in SUBSET Inbounds :
              /\ Chosen(form, ibs) \in Forms
              /\ form.cred \in Credentials => Chosen(form, ibs).cred \in Credentials
<1> DEFINE Creds == [of : Emails \cup {None}, pass : {"blank", "own", "made"}]
<1>1. form.ibs \in SUBSET Inbounds /\ form.cred \in Creds
  BY DEF Forms
<1>2. ASSUME NEW cred \in Creds, NEW ibs \in SUBSET Inbounds
      PROVE  [form EXCEPT !.cred = cred] \in Forms
             /\ [form EXCEPT !.ibs = ibs, !.cred = cred] \in Forms
             /\ [form EXCEPT !.cred = cred].cred = cred
             /\ [form EXCEPT !.ibs = ibs, !.cred = cred].cred = cred
  BY DEF Forms
<1>3. ASSUME NEW f \in Opened(form)
      PROVE  f \in Forms /\ (form.cred \in Credentials => f.cred \in Credentials)
  <2>1. CASE f = form
    BY <2>1
  <2>2. CASE f = [form EXCEPT !.cred = Filled(@, form.ibs)]
    <3>1. PICK cred : cred = Filled(form.cred, form.ibs)
      OBVIOUS
    <3>2. cred \in Creds /\ (form.cred \in Credentials => cred \in Credentials)
      BY <1>1, <3>1, CredFacts
    <3>3. f = [form EXCEPT !.cred = cred]
      BY <2>2, <3>1 DEF Forms
    <3> QED  BY <1>1, <1>2, <3>2, <3>3
  <2> QED  BY <2>1, <2>2 DEF Opened
<1>4. ASSUME NEW ibs \in SUBSET Inbounds
      PROVE  /\ Chosen(form, ibs) \in Forms
             /\ form.cred \in Credentials => Chosen(form, ibs).cred \in Credentials
  <2>1. PICK cred : cred = IF form.ibs \cap Keyed = {} THEN Filled(form.cred, ibs)
                           ELSE form.cred
    OBVIOUS
  <2>2. cred \in Creds /\ (form.cred \in Credentials => cred \in Credentials)
    BY <1>1, <2>1, CredFacts
  <2>3. Chosen(form, ibs) = [form EXCEPT !.ibs = ibs, !.cred = cred]
    BY <2>1 DEF Chosen, Forms
  <2>4. PICK f : f = [form EXCEPT !.ibs = ibs, !.cred = cred]
    OBVIOUS
  <2>5. f \in Forms /\ f.cred = cred
    BY <1>2, <2>2, <2>4
  <2> QED  BY <2>2, <2>3, <2>4, <2>5
<1> QED  BY <1>3, <1>4

LEMMA KnownInit == Init => Known
<1> SUFFICES ASSUME Init PROVE Known
  OBVIOUS
<1>1. PICK home \in Inbounds : rec = [c \in Ids |-> IF c \notin Names THEN None ELSE
               [email |-> c, name |-> c, sub |-> c,
                cred |-> Filled([of |-> c, pass |-> "own"], {home}),
                on |-> TRUE, links |-> TRUE,
                held |-> [i \in Inbounds |-> IF i = home THEN 1 ELSE 0]]]
  BY DEF Init
<1>2. \A c \in Names : Filled([of |-> c, pass |-> "own"], {home}) \in Credentials
  <2>1. \A c \in Names : [of |-> c, pass |-> "own"] \in Credentials
    BY DEF Credentials, Emails
  <2> QED  BY <2>1, CredFacts
<1>3. rec \in Tables
  BY <1>1, <1>2 DEF Tables, Clients, Emails
<1>4. \A c \in Live : c \in Ids /\ rec[c].email = c
  BY <1>1 DEF Live
<1>5. TypeOK
  BY <1>3 DEF Init, TypeOK, Shut, Tables
<1>6. JobModes
  BY DEF Init, JobModes
<1> QED  BY <1>4, <1>5, <1>6 DEF Known, Basics, Unique, Modes, SaveModes, Init, Shut

LEMMA UniqueAfter ==
  ASSUME Distinct(rec')
  PROVE  Unique'
BY DEF Distinct, Unique, Live

\* Another session turns a switch or detaches one inbound.
LEMMA ElsewhereFacts ==
  ASSUME Known, NEW c \in Ids, EditedElsewhere(c)
  PROVE  /\ rec' \in Tables
         /\ \A d \in Ids : /\ d # c => rec'[d] = rec[d]
                           /\ rec'[d] # None => rec[d] # None
                           /\ rec'[d] # None => rec'[d].email = rec[d].email
                           /\ rec'[d] # None => rec'[d].cred = rec[d].cred
         /\ \A i \in Inbounds : rec'[c].held[i] <= 1
         /\ \A d \in Live : Spared(d)
<1>1. c \in Live /\ rec[c] \in Clients /\ OrderlyBut(None) /\ rec \in Tables
  BY DEF EditedElsewhere, Live, Tables, Known, Basics, TypeOK
<1>2. \A i \in Inbounds : rec[c].held[i] \in 0 .. 1
  BY <1>1 DEF OrderlyBut, Twin, Clients
<1>3. PICK r : /\ rec' = [rec EXCEPT ![c] = r]
               /\ r \in Clients /\ r.email = rec[c].email /\ r.cred = rec[c].cred
               /\ \A i \in Inbounds : r.held[i] <= 1 /\ r.held[i] <= rec[c].held[i]
  <2>1. CASE rec' = [rec EXCEPT ![c].on = ~@]
    <3>1. PICK r : r = [rec[c] EXCEPT !.on = ~@]
      OBVIOUS
    <3>2. /\ r \in Clients /\ r.email = rec[c].email /\ r.cred = rec[c].cred
          /\ r.held = rec[c].held
      BY <1>1, <3>1 DEF Clients
    <3>3. rec' = [rec EXCEPT ![c] = r]
      BY <1>1, <2>1, <3>1 DEF Tables, Clients
    <3>4. \A i \in Inbounds : r.held[i] <= 1 /\ r.held[i] <= rec[c].held[i]
      BY <1>2, <3>2
    <3> QED  BY <3>2, <3>3, <3>4
  <2>2. CASE \E i \in AttachedTo(c) : rec' = [rec EXCEPT ![c].held[i] = 0]
    <3>1. PICK i \in Inbounds : rec' = [rec EXCEPT ![c].held[i] = 0]
      BY <2>2 DEF AttachedTo
    <3>2. PICK held : held = [rec[c].held EXCEPT ![i] = 0]
      OBVIOUS
    <3>3. /\ held \in [Inbounds -> 0 .. 2]
          /\ \A j \in Inbounds : held[j] <= 1 /\ held[j] <= rec[c].held[j]
      BY <1>1, <1>2, <3>2 DEF Clients
    <3>4. PICK r : r = [rec[c] EXCEPT !.held = held]
      OBVIOUS
    <3>5. /\ r \in Clients /\ r.email = rec[c].email /\ r.cred = rec[c].cred
          /\ r.held = held
      BY <1>1, <3>3, <3>4 DEF Clients
    <3>6. rec' = [rec EXCEPT ![c] = r]
      BY <1>1, <3>1, <3>2, <3>4 DEF Tables, Clients
    <3> QED  BY <3>3, <3>5, <3>6
  <2> QED  BY <2>1, <2>2 DEF EditedElsewhere
<1>4. rec' \in Tables /\ rec'[c] = r /\ \A d \in Ids : d # c => rec'[d] = rec[d]
  BY <1>1, <1>3 DEF Tables
<1>5. Spared(c)
  BY <1>1, <1>3, <1>4 DEF Spared, Live
<1>6. \A d \in Live : d # c => Spared(d)
  BY <1>1, <1>4, SameSpared DEF Live
<1> QED  BY <1>1, <1>3, <1>4, <1>5, <1>6 DEF Live

\* onSubmit: a row of requests for the client of the dialog, or for a new one.
LEMMA SubmitFacts ==
  ASSUME Known, Submit
  PROVE  /\ save = None /\ dialog.open /\ dialog.form \in Forms /\ mode \in {"add", "edit"}
         /\ save' \in Saves /\ save' # None /\ ~save'.kept /\ save'.form = dialog.form
         /\ mode = "add" =>
              /\ save'.target = None /\ save'.pc = "create"
              /\ save'.email = save'.form.email /\ save'.form.cred \in Credentials
         /\ mode = "edit" =>
              /\ dialog.client \in Forms /\ dialog.client # None
              /\ save'.target = dialog.client.of /\ save'.target \in Ids
              /\ save'.email = dialog.client.email /\ save'.pc = "update"
              /\ save'.attach = dialog.form.ibs \ dialog.client.ibs
              /\ save'.detach = dialog.client.ibs \ dialog.form.ibs
              /\ save'.clean => tried \subseteq save'.attach \cup save'.detach
<1> USE DEF Known, Basics
<1>1. PICK had : had = IF dialog.client = None THEN {} ELSE dialog.client.ibs
  OBVIOUS
<1>2. PICK adds \in BOOLEAN : adds = (mode = "add" \/ dialog.client = None)
  OBVIOUS
<1>3. save' = [pc |-> IF adds THEN "create" ELSE "update", form |-> dialog.form,
               email |-> IF adds THEN dialog.form.email ELSE dialog.client.email,
               target |-> IF adds THEN None ELSE dialog.client.of,
               attach |-> dialog.form.ibs \ had, detach |-> had \ dialog.form.ibs,
               clean |-> tried \subseteq (dialog.form.ibs \ had) \cup (had \ dialog.form.ibs),
               kept |-> FALSE]
  BY <1>1, <1>2 DEF Submit
<1>4. /\ dialog.open /\ dialog.form \in Forms /\ dialog.client \in Forms \cup {None}
      /\ had \in SUBSET Inbounds /\ adds = (mode = "add") /\ mode \in {"add", "edit"}
      /\ save = None
  BY <1>1, <1>2 DEF Submit, TypeOK, Modes, Forms
<1>5. ~adds => /\ dialog.client \in Forms /\ dialog.client # None
               /\ dialog.client.of \in Ids /\ had = dialog.client.ibs
  BY <1>1, <1>2, <1>4 DEF Modes
<1>6. save' \in Saves
  BY <1>3, <1>4, <1>5 DEF Saves, Forms, Requests
<1>7. adds => dialog.form.cred \in Credentials
  BY <1>4 DEF Modes
<1>8. save' # None
  BY <1>6
<1> QED  BY <1>3, <1>4, <1>5, <1>6, <1>7, <1>8

\* onSave after an answer: it ends, or comes to its next request.
Refusal ==
  /\ ~Answer.ok /\ save' = None /\ tried' = Attempted

Success ==
  /\ Answer.ok /\ save' # None /\ tried' = tried
  /\ save'.form = save.form /\ save'.email = save.email /\ save'.target = save.target
  /\ save'.attach = save.attach /\ save'.detach = save.detach /\ save'.clean = save.clean
  /\ save'.pc = Following
  /\ save'.kept = IF save.pc = "update" THEN AttachedTo(Holder(save.email)) # {}
                  ELSE save.kept

LEMMA RequestFacts ==
  ASSUME Known, Request
  PROVE  (Refusal \/ Success) /\ (Success => save' \in Saves)
<1>1. save # None /\ save.pc # "done" /\ TypeOK
  BY DEF Request, Known, Basics
<1>2. save \in Saves /\ save.kept \in BOOLEAN
  BY <1>1, SaveTypes
<1>3. PICK k \in BOOLEAN : k = IF save.pc = "update" THEN AttachedTo(Holder(save.email)) # {}
                               ELSE save.kept
  BY <1>2
<1>4. PICK pc : pc = Following
  OBVIOUS
<1>5. pc \in Requests
  BY <1>1, <1>4, FollowingFacts
<1>6. CASE Answer.ok
  <2>1. tried' = tried /\ save' = [save EXCEPT !.pc = pc,
           !.kept = IF save.pc = "update" THEN AttachedTo(Holder(save.email)) # {} ELSE @]
    BY <1>4, <1>6 DEF Request
  <2>2. save' = [save EXCEPT !.pc = pc, !.kept = k]
    BY <1>2, <1>3, <2>1 DEF Saves
  <2>3. /\ save' \in Saves /\ save'.pc = pc /\ save'.kept = k
        /\ save'.form = save.form /\ save'.email = save.email /\ save'.target = save.target
        /\ save'.attach = save.attach /\ save'.detach = save.detach /\ save'.clean = save.clean
    BY <1>2, <1>3, <1>5, <2>2 DEF Saves
  <2>4. save' # None
    BY <2>3
  <2> QED  BY <1>3, <1>4, <1>6, <2>1, <2>3, <2>4 DEF Success
<1>7. CASE ~Answer.ok
  <2>1. Refusal
    BY <1>7 DEF Refusal, Request
  <2> QED  BY <1>7, <2>1 DEF Success
<1> QED  BY <1>6, <1>7

\* What an attach reads, and a running one beside which it begins.
LEMMA JobTypes ==
  ASSUME rec \in Tables, NEW c \in Live, NEW ibs \in SUBSET Inbounds
  PROVE  /\ Reads(c, ibs) \in Jobs
         /\ Reads(c, ibs).client = c /\ Reads(c, ibs).todo = ibs \ AttachedTo(c)
         /\ Reads(c, ibs).sub = rec[c].sub /\ Reads(c, ibs).on = rec[c].on
         /\ Reads(c, ibs).beside <=> c \in Attaching
         /\ \A job \in Jobs \cup {None} :
              /\ Beside(job, c) \in Jobs \cup {None} /\ (Beside(job, c) = None <=> job = None)
              /\ job # None =>
                   /\ Beside(job, c).client = job.client /\ Beside(job, c).todo = job.todo
                   /\ Beside(job, c).sub = job.sub /\ Beside(job, c).on = job.on
                   /\ Beside(job, c).beside <=> job.beside \/ job.client = c
<1>1. c \in Ids /\ rec[c] \in Clients
  BY DEF Live, Tables
<1>2. /\ Reads(c, ibs) \in Jobs
      /\ Reads(c, ibs).client = c /\ Reads(c, ibs).todo = ibs \ AttachedTo(c)
      /\ Reads(c, ibs).sub = rec[c].sub /\ Reads(c, ibs).on = rec[c].on
      /\ Reads(c, ibs).beside <=> c \in Attaching
  <2>1. PICK b : b = (c \in Attaching)
    OBVIOUS
  <2>2. PICK todo : todo = ibs \ AttachedTo(c)
    OBVIOUS
  <2>3. b \in BOOLEAN /\ todo \in SUBSET Inbounds
    BY <2>1, <2>2
  <2>4. Reads(c, ibs) = [client |-> c, sub |-> rec[c].sub, on |-> rec[c].on,
                         cred |-> rec[c].cred, todo |-> todo, beside |-> b]
    BY <2>1, <2>2 DEF Reads
  <2>5. Reads(c, ibs) \in Jobs
    BY <1>1, <2>3, <2>4 DEF Jobs, Clients
  <2>6. Reads(c, ibs).beside = b
    BY <2>4
  <2>7. Reads(c, ibs).beside <=> c \in Attaching
    BY <2>1, <2>6, Zenon
  <2> QED  BY <2>2, <2>4, <2>5, <2>7
<1>3. ASSUME NEW job \in Jobs \cup {None}
      PROVE  /\ Beside(job, c) \in Jobs \cup {None} /\ (Beside(job, c) = None <=> job = None)
             /\ job # None =>
                  /\ Beside(job, c).client = job.client /\ Beside(job, c).todo = job.todo
                  /\ Beside(job, c).sub = job.sub /\ Beside(job, c).on = job.on
                  /\ Beside(job, c).beside <=> job.beside \/ job.client = c
  <2>1. CASE job = None \/ job.client # c
    BY <2>1 DEF Beside
  <2>2. CASE job # None /\ job.client = c
    <3>1. Beside(job, c) = [job EXCEPT !.beside = TRUE]
      BY <2>2 DEF Beside
    <3> QED  BY <2>2, <3>1 DEF Jobs
  <2> QED  BY <2>1, <2>2
<1> QED  BY <1>2, <1>3

\* An append leaves the clients there are and their e-mails.
LEMMA EnterEmails ==
  ASSUME NEW job, NEW i, Enters(job, i)
  PROVE  /\ rec' \in Tables /\ job.client \in Live /\ job \in Jobs
         /\ \A d \in Ids : /\ rec'[d] # None => rec[d] # None
                           /\ rec'[d] # None => rec'[d].email = rec[d].email
<1>1. ASSUME NEW d \in Ids, rec'[d] # None
      PROVE  rec[d] # None /\ rec'[d].email = rec[d].email
  <2>1. CASE d = job.client
    BY <1>1, <2>1 DEF Enters, Live
  <2>2. CASE d # job.client
    BY <1>1, <2>2 DEF Enters
  <2> QED  BY <2>1, <2>2
<1> QED  BY <1>1 DEF Enters

LEMMA BasicsNext == Known /\ [Next]_vars => Basics'
<1> SUFFICES ASSUME Known, [Next]_vars PROVE Basics'
  OBVIOUS
<1> USE DEF Known, Basics
<1>r. rec \in Tables
  BY DEF TypeOK, Tables
<1>1. CASE AddClick
  <2>1. TypeOK'
    BY <1>1, FormFacts DEF AddClick, TypeOK
  <2>2. Unique' /\ SaveModes'
    BY <1>1 DEF AddClick, Unique, Live, SaveModes
  <2>3. Modes'
    BY <1>1, FormFacts DEF AddClick, Modes
  <2> QED  BY <2>1, <2>2, <2>3
<1>2. ASSUME NEW c \in Ids, EditClick(c) PROVE Basics'
  <2>1. Full(c) \in Forms /\ Slim(c) \in Forms /\ mode' = "edit" /\ ~dialog.open
    BY <1>2, <1>r, FormFacts DEF EditClick
  <2>2. TypeOK'
    BY <1>2, <2>1 DEF EditClick, TypeOK
  <2>3. Unique' /\ SaveModes'
    BY <1>2 DEF EditClick, Unique, Live, SaveModes
  <2>4. dialog' = dialog /\ dialog.client = None
    BY <1>2 DEF EditClick, Modes, Shut
  <2>5. PICK x : hydrate' = [hydrate EXCEPT ![c] = x] /\ x.of = c
    BY <1>2, <1>r, FormFacts DEF EditClick
  <2>6. \A d \in Ids : hydrate'[d] # None => hydrate'[d].of = d
    BY <2>5 DEF Modes, TypeOK
  <2>7. Modes'
    BY <2>1, <2>4, <2>6 DEF Modes
  <2> QED  BY <2>2, <2>3, <2>7
<1>3. ASSUME NEW c \in Ids, Hydrated(c) PROVE Basics'
  <2>1. hydrate[c] \in Forms /\ hydrate' = [hydrate EXCEPT ![c] = None]
    BY <1>3 DEF Hydrated, TypeOK
  <2>2. PICK x : x = hydrate[c]
    OBVIOUS
  <2>3. x \in Forms /\ x.of = c
    BY <1>3, <2>1, <2>2 DEF Hydrated, Modes, TypeOK
  <2>4. /\ hydrate' \in [Ids -> Forms \cup {None}] /\ hydrate'[c] = None
        /\ \A d \in Ids : hydrate'[d] # None => hydrate[d] # None /\ hydrate'[d] = hydrate[d]
    BY <2>1 DEF TypeOK
  <2>5. /\ dialog' \in [open : BOOLEAN, client : Forms \cup {None}, form : Forms \cup {None}]
        /\ dialog'.open /\ dialog'.form # None /\ dialog'.client = x
        /\ mode = "add" => dialog'.form.cred \in Credentials
        /\ tried' \subseteq Inbounds
    <3>1. CASE dialog.open
      <4>1. dialog' = [dialog EXCEPT !.client = x] /\ tried' = tried
        BY <1>3, <2>2, <3>1 DEF Hydrated
      <4> QED  BY <2>3, <3>1, <4>1 DEF TypeOK, Modes
    <3>2. CASE ~dialog.open
      <4>1. PICK g : g = IF mode = "edit" THEN x ELSE NewClient
        OBVIOUS
      <4>2. g \in Forms /\ (mode = "add" => g.cred \in Credentials)
        BY <2>3, <4>1, FormFacts
      <4>3. PICK f \in Opened(g) : dialog' = [open |-> TRUE, client |-> x, form |-> f]
        BY <1>3, <2>2, <3>2, <4>1 DEF Hydrated
      <4>4. f \in Forms /\ (mode = "add" => f.cred \in Credentials)
        BY <4>2, PasswordFacts
      <4>5. tried' = {}
        BY <1>3, <3>2 DEF Hydrated
      <4> QED  BY <2>3, <4>3, <4>4, <4>5
    <3> QED  BY <3>1, <3>2
  <2>6. UNCHANGED <<rec, mode, save, toggle, ours, stray, edits, mishaps, touched>>
    BY <1>3 DEF Hydrated
  <2>7. TypeOK'
    BY <2>4, <2>5, <2>6 DEF TypeOK
  <2>8. Unique' /\ SaveModes'
    BY <2>6 DEF Unique, Live, SaveModes
  <2>9. Modes'
    BY <2>3, <2>4, <2>5, <2>6 DEF Modes
  <2> QED  BY <2>7, <2>8, <2>9
<1>4. CASE TypeField
  <2>1. PICK f : Type(f) /\ f \in Forms
                 /\ (dialog.form.cred \in Credentials => f.cred \in Credentials)
    <3>1. dialog.form \in Forms
      BY <1>4 DEF TypeField, TypeOK
    <3>2. CASE \E n \in Names \ {dialog.form.email} : Type([dialog.form EXCEPT !.email = n])
      <4>1. PICK n \in Names : Type([dialog.form EXCEPT !.email = n])
        BY <3>2
      <4>2. /\ [dialog.form EXCEPT !.email = n] \in Forms
            /\ [dialog.form EXCEPT !.email = n].cred = dialog.form.cred
        BY <3>1 DEF Forms, Emails
      <4> QED  BY <4>1, <4>2
    <3>3. CASE \E n \in Names \ {dialog.form.sub} : Type([dialog.form EXCEPT !.sub = n])
      <4>1. PICK n \in Names : Type([dialog.form EXCEPT !.sub = n])
        BY <3>3
      <4>2. /\ [dialog.form EXCEPT !.sub = n] \in Forms
            /\ [dialog.form EXCEPT !.sub = n].cred = dialog.form.cred
        BY <3>1 DEF Forms, Emails
      <4> QED  BY <4>1, <4>2
    <3>4. CASE Type([dialog.form EXCEPT !.on = ~@])
      <4>1. /\ [dialog.form EXCEPT !.on = ~@] \in Forms
            /\ [dialog.form EXCEPT !.on = ~@].cred = dialog.form.cred
        BY <3>1 DEF Forms
      <4> QED  BY <3>4, <4>1
    <3>5. CASE Type([dialog.form EXCEPT !.links = ~@])
      <4>1. /\ [dialog.form EXCEPT !.links = ~@] \in Forms
            /\ [dialog.form EXCEPT !.links = ~@].cred = dialog.form.cred
        BY <3>1 DEF Forms
      <4> QED  BY <3>5, <4>1
    <3>6. CASE \E ibs \in SUBSET Inbounds \ {dialog.form.ibs} :
                 Type(Chosen(dialog.form, ibs))
      <4>0. PICK ibs \in SUBSET Inbounds : Type(Chosen(dialog.form, ibs))
        BY <3>6
      <4>1. PICK f : Type(f) /\ f = Chosen(dialog.form, ibs)
        BY <4>0
      <4>2. PICK form : form = dialog.form
        OBVIOUS
      <4>3. f \in Forms /\ (form.cred \in Credentials => f.cred \in Credentials)
        BY <3>1, <4>1, <4>2, PasswordFacts
      <4> QED  BY <4>1, <4>2, <4>3
    <3> QED  BY <1>4, <3>2, <3>3, <3>4, <3>5, <3>6 DEF TypeField
  <2>2. /\ dialog.open /\ dialog' = [dialog EXCEPT !.form = f]
        /\ edits < MaxEdits /\ edits' = edits + 1
        /\ UNCHANGED <<rec, hydrate, mode, save, toggle, ours, stray, mishaps, touched, tried>>
    BY <1>4, <2>1 DEF Type, TypeField
  <2>3. /\ dialog' \in [open : BOOLEAN, client : Forms \cup {None}, form : Forms \cup {None}]
        /\ dialog'.open /\ dialog'.form = f /\ dialog'.client = dialog.client
    BY <2>1, <2>2 DEF TypeOK
  <2>4. TypeOK'
    BY <2>1, <2>2, <2>3 DEF TypeOK
  <2>5. Unique' /\ SaveModes'
    BY <2>2 DEF Unique, Live, SaveModes
  <2>6. Modes'
    BY <2>1, <2>2, <2>3 DEF Modes
  <2> QED  BY <2>4, <2>5, <2>6
<1>5. CASE Cancel
  <2>1. TypeOK'
    BY <1>5 DEF Cancel, TypeOK, Shut
  <2>2. Unique' /\ SaveModes'
    BY <1>5 DEF Cancel, Unique, Live, SaveModes
  <2>3. Modes'
    BY <1>5 DEF Cancel, Modes, Shut
  <2> QED  BY <2>1, <2>2, <2>3
<1>6. CASE Submit
  <2>1. /\ save' \in Saves
        /\ UNCHANGED <<rec, hydrate, mode, dialog, toggle, ours, stray, edits, mishaps,
                       touched, tried>>
    BY <1>6, SubmitFacts DEF Submit
  <2>2. TypeOK'
    BY <2>1 DEF TypeOK
  <2>3. Unique' /\ Modes'
    BY <2>1 DEF Unique, Live, Modes
  <2>4. SaveModes'
    BY <1>6, SubmitFacts DEF SaveModes
  <2> QED  BY <2>2, <2>3, <2>4
<1>7. CASE Request
  <2>1. Wrote /\ save # None /\ save.pc # "done"
    BY <1>7, RequestWrites
  <2>2. Unique'
    BY <2>1, UniqueAfter DEF Wrote
  <2>3. save' \in Saves \cup {None} /\ tried' \subseteq Inbounds
    <3>1. save.attach \in SUBSET Inbounds /\ save.detach \in SUBSET Inbounds
      BY <2>1, SaveTypes
    <3> QED  BY <1>7, <3>1, RequestFacts DEF Refusal, Success, Attempted, TypeOK
  <2>4. /\ UNCHANGED <<hydrate, mode, dialog, toggle, stray, edits, mishaps>> /\ ours' = None
        /\ touched' = touched \cup (Called(save.email) \ {save.target})
    BY <1>7 DEF Request
  <2>5. TypeOK'
    <3>1. touched' \subseteq Ids
      BY <2>4 DEF TypeOK, Called, Live
    <3>2. rec' \in Tables
      BY <2>1 DEF Wrote
    <3> QED  BY <2>3, <2>4, <3>1, <3>2 DEF TypeOK, Tables
  <2>6. Modes'
    BY <2>4 DEF Modes
  <2>7. SaveModes'
    <3>1. SUFFICES ASSUME save' # None PROVE SaveModes'
      BY DEF SaveModes
    <3>2. Success
      BY <1>7, <3>1, RequestFacts DEF Refusal
    <3>3. /\ Following \in Requests \ {"create", "update"}
          /\ save.pc = "create" => Following \in {"links", "done"}
          /\ save.pc = "links" => Following = "done"
      BY <2>1, FollowingFacts
    <3>4. save.target = None => save.pc \in {"create", "links", "done"} /\ ~save.kept
      BY <2>1 DEF SaveModes
    <3> QED  BY <2>1, <3>2, <3>3, <3>4 DEF SaveModes, Success
  <2> QED  BY <2>2, <2>5, <2>6, <2>7
<1>8. CASE RequestLost
  <2>1. Wrote /\ save # None
    BY <1>8, RequestWrites
  <2>2. Unique'
    BY <2>1, UniqueAfter DEF Wrote
  <2>3. save.attach \in SUBSET Inbounds /\ save.detach \in SUBSET Inbounds
    BY <2>1, SaveTypes
  <2>4. touched' \subseteq Ids /\ tried' \subseteq Inbounds /\ rec' \in Tables
    BY <1>8, <2>1, <2>3 DEF RequestLost, Attempted, TypeOK, Called, Live, Wrote
  <2>5. TypeOK'
    BY <1>8, <2>4 DEF RequestLost, TypeOK, Tables
  <2>6. Modes' /\ SaveModes'
    BY <1>8 DEF RequestLost, Modes, SaveModes
  <2> QED  BY <2>2, <2>5, <2>6
<1>9. CASE Saved
  <2>1. TypeOK'
    BY <1>9 DEF Saved, TypeOK, Shut
  <2>2. Unique' /\ SaveModes'
    BY <1>9 DEF Saved, Unique, Live, SaveModes
  <2>3. Modes'
    BY <1>9 DEF Saved, Modes, Shut
  <2> QED  BY <2>1, <2>2, <2>3
<1>10. CASE ToggleWrites
  <2>1. Switched
    BY <1>10, ToggleFacts
  <2>2. Unique'
    BY <2>1, UniqueAfter DEF Switched
  <2>3. touched' \subseteq Ids /\ rec' \in Tables
    BY <1>10, <2>1 DEF ToggleWrites, TypeOK, Called, Live, Switched
  <2>4. TypeOK'
    BY <1>10, <2>3 DEF ToggleWrites, TypeOK, Tables
  <2>5. Modes' /\ SaveModes'
    BY <1>10 DEF ToggleWrites, Modes, SaveModes
  <2> QED  BY <2>2, <2>4, <2>5
<1>11. ASSUME NEW c \in Ids, ToggleClick(c) PROVE Basics'
  <2>1. Full(c) \in Forms
    BY <1>11, <1>r, FormFacts DEF ToggleClick
  <2>2. toggle' \in Forms
    BY <1>11, <2>1 DEF ToggleClick, Forms
  <2>3. TypeOK'
    BY <1>11, <2>2 DEF ToggleClick, TypeOK
  <2>4. Unique' /\ SaveModes' /\ Modes'
    BY <1>11 DEF ToggleClick, Unique, Live, SaveModes, Modes
  <2> QED  BY <2>3, <2>4
<1>12. ASSUME NEW c \in Ids, Deleted(c) PROVE Basics'
  <2>1. /\ rec' \in Tables
        /\ \A d \in Ids : rec'[d] # None => rec[d] # None /\ rec'[d] = rec[d]
    BY <1>r, <1>12 DEF Deleted, Tables
  <2>2. TypeOK'
    BY <1>12, <2>1 DEF Deleted, TypeOK, Tables, pageVars
  <2>3. Unique'
    BY <2>1 DEF Unique, Live
  <2>4. Modes' /\ SaveModes'
    BY <1>12 DEF Deleted, Modes, SaveModes, pageVars
  <2> QED  BY <2>2, <2>3, <2>4
<1>13. ASSUME NEW c \in Ids, EditedElsewhere(c) PROVE Basics'
  <2>1. /\ rec' \in Tables
        /\ \A d \in Ids : /\ rec'[d] # None => rec[d] # None
                          /\ rec'[d] # None => rec'[d].email = rec[d].email
    BY <1>13, ElsewhereFacts
  <2>2. TypeOK'
    BY <1>13, <2>1 DEF EditedElsewhere, TypeOK, Tables, pageVars
  <2>3. Unique'
    BY <2>1 DEF Unique, Live
  <2>4. Modes' /\ SaveModes'
    BY <1>13 DEF EditedElsewhere, Modes, SaveModes, pageVars
  <2> QED  BY <2>2, <2>3, <2>4
<1>14. CASE AttachReads
  <2>1. ours' \in Jobs /\ stray' \in Jobs \cup {None}
    <3>1. PICK h : h = Holder(save.email)
      OBVIOUS
    <3>2. h \in Live
      BY <1>14, <3>1, HolderFacts DEF AttachReads
    <3>3. ours' = Reads(h, save.attach) /\ stray' = Beside(stray, h)
      BY <1>14, <3>1 DEF AttachReads
    <3>4. save.attach \in SUBSET Inbounds
      BY <1>14, SaveTypes DEF AttachReads
    <3> QED  BY <1>r, <3>2, <3>3, <3>4, JobTypes DEF TypeOK
  <2>2. UNCHANGED <<rec, hydrate, mode, dialog, save, toggle, edits, mishaps, touched, tried>>
    BY <1>14 DEF AttachReads, pageVars
  <2>3. TypeOK'
    BY <2>1, <2>2 DEF TypeOK
  <2>4. Unique' /\ Modes' /\ SaveModes'
    BY <2>2 DEF Unique, Live, Modes, SaveModes
  <2> QED  BY <2>3, <2>4
<1>15. CASE AttachAppends
  <2>1. PICK i \in ours.todo :
          /\ Enters(ours, i)
          /\ IF AddInboundClient(ours, i).ok
             THEN ours' = [ours EXCEPT !.todo = @ \ {i}] /\ save' = save /\ tried' = tried
             ELSE ours' = None /\ save' = None /\ tried' = Attempted
    BY <1>15, AppendFacts
  <2>2. /\ rec' \in Tables /\ ours.client \in Live /\ ours \in Jobs
        /\ \A d \in Ids : /\ rec'[d] # None => rec[d] # None
                          /\ rec'[d] # None => rec'[d].email = rec[d].email
    BY <2>1, EnterEmails
  <2>3. /\ UNCHANGED <<hydrate, mode, dialog, toggle, stray, edits, mishaps>>
        /\ touched' = touched \cup ({ours.client} \ {save.target})
        /\ ours # None
    BY <1>15 DEF AttachAppends
  <2>4. save # None /\ save.attach \in SUBSET Inbounds /\ save.detach \in SUBSET Inbounds
    BY <2>3, SaveTypes DEF JobModes
  <2>5. ours' \in Jobs \cup {None} /\ save' \in {save, None} /\ tried' \subseteq Inbounds
    BY <2>1, <2>2, <2>4 DEF Jobs, Attempted, TypeOK
  <2>6. touched' \subseteq Ids
    BY <2>2, <2>3 DEF TypeOK, Live
  <2>7. TypeOK'
    BY <2>2, <2>3, <2>5, <2>6 DEF TypeOK, Tables
  <2>8. Unique'
    BY <2>2 DEF Unique, Live
  <2>9. Modes' /\ SaveModes'
    BY <2>3, <2>5 DEF Modes, SaveModes
  <2> QED  BY <2>7, <2>8, <2>9
<1>16. CASE StrayAppends
  <2>1. PICK i \in stray.todo :
          /\ Enters(stray, i)
          /\ stray' = [stray EXCEPT !.todo = @ \ {i}] \/ stray' = None
    BY <1>16, StrayFacts
  <2>2. /\ rec' \in Tables /\ stray.client \in Live /\ stray \in Jobs
        /\ \A d \in Ids : /\ rec'[d] # None => rec[d] # None
                          /\ rec'[d] # None => rec'[d].email = rec[d].email
    BY <2>1, EnterEmails
  <2>3. /\ UNCHANGED <<hydrate, mode, dialog, save, toggle, ours, edits, mishaps, tried>>
        /\ touched' = touched \cup {stray.client}
    BY <1>16 DEF StrayAppends, pageVars
  <2>4. stray' \in Jobs \cup {None}
    BY <2>1, <2>2 DEF Jobs
  <2>5. touched' \subseteq Ids
    BY <2>2, <2>3 DEF TypeOK, Live
  <2>6. TypeOK'
    BY <2>2, <2>3, <2>4, <2>5 DEF TypeOK, Tables
  <2>7. Unique'
    BY <2>2 DEF Unique, Live
  <2>8. Modes' /\ SaveModes'
    BY <2>3 DEF Modes, SaveModes
  <2> QED  BY <2>6, <2>7, <2>8
<1>17. ASSUME NEW c \in Ids, AttachedElsewhere(c) PROVE Basics'
  <2>1. PICK i \in Inbounds : stray' = Reads(c, {i})
    BY <1>17 DEF AttachedElsewhere
  <2>2. c \in Live /\ ours' = Beside(ours, c)
    BY <1>17 DEF AttachedElsewhere
  <2>3. stray' \in Jobs /\ ours' \in Jobs \cup {None}
    BY <1>r, <2>1, <2>2, JobTypes DEF TypeOK
  <2>4. UNCHANGED <<rec, hydrate, mode, dialog, save, toggle, edits, touched, tried>>
        /\ mishaps' \in 0 .. MaxMishaps
    BY <1>17 DEF AttachedElsewhere, pageVars, TypeOK
  <2>5. TypeOK'
    BY <2>3, <2>4 DEF TypeOK
  <2>6. Unique' /\ Modes' /\ SaveModes'
    BY <2>4 DEF Unique, Live, Modes, SaveModes
  <2> QED  BY <2>5, <2>6
<1>18. CASE UNCHANGED vars
  BY <1>18 DEF vars, pageVars, TypeOK, Unique, Live, Modes, SaveModes
<1>19. CASE \E c \in Ids : \/ EditClick(c) \/ Hydrated(c) \/ ToggleClick(c)
                          \/ Deleted(c) \/ EditedElsewhere(c) \/ AttachedElsewhere(c)
  BY <1>2, <1>3, <1>11, <1>12, <1>13, <1>17, <1>19
<1> QED
  BY <1>1, <1>4, <1>5, <1>6, <1>7, <1>8, <1>9, <1>10, <1>14, <1>15, <1>16, <1>18, <1>19
     DEF Next

-----------------------------------------------------------------------------
\* Which actions leave the table and the attaches as they are.
Reading ==
  \/ AddClick \/ TypeField \/ Cancel \/ Submit \/ Saved
  \/ \E c \in Ids : EditClick(c) \/ Hydrated(c) \/ ToggleClick(c)

LEMMA ReadingFacts ==
  ASSUME Reading \/ UNCHANGED vars
  PROVE  rec' = rec /\ UNCHANGED jobVars
BY DEF Reading, AddClick, TypeField, Type, Cancel, Submit, Saved, EditClick, Hydrated,
       ToggleClick, vars

LEMMA NextCases ==
  ASSUME [Next]_vars
  PROVE  \/ Reading \/ UNCHANGED vars
         \/ Request \/ RequestLost \/ ToggleWrites
         \/ AttachReads \/ AttachAppends \/ StrayAppends
         \/ \E c \in Ids : Deleted(c) \/ EditedElsewhere(c) \/ AttachedElsewhere(c)
BY DEF Next, Reading

\* Running attaches.

\* What Running says of an attach after a step.
After(job) ==
  /\ job.client \in Live'
  /\ ~job.beside => \A i \in job.todo : rec'[job.client].held[i] = 0

LEMMA SparedRuns ==
  ASSUME rec' \in Tables, NEW job \in Jobs, Running(job), Spared(job.client)
  PROVE  After(job)
<1>1. PICK c : c = job.client
  OBVIOUS
<1>2. c \in Ids /\ c \in Live' /\ rec'[c] \in Clients /\ job.todo \subseteq Inbounds
  BY <1>1 DEF Spared, Live, Tables, Jobs
<1>3. ASSUME ~job.beside, NEW i \in job.todo PROVE rec'[c].held[i] = 0
  <2>1. rec[c].held[i] = 0 /\ rec'[c].held[i] <= rec[c].held[i]
    BY <1>1, <1>2, <1>3 DEF Running, Spared
  <2>2. rec'[c].held[i] \in 0 .. 2
    BY <1>2 DEF Clients
  <2> QED  BY <2>1, <2>2
<1> QED  BY <1>1, <1>2, <1>3 DEF After

\* Both attaches after a step, put together.
LEMMA JobsTogether ==
  ASSUME ours' # None =>
           /\ After(ours') /\ save' # None /\ save'.pc = "attach"
           /\ rec'[ours'.client].email = save'.email /\ ours'.todo \subseteq save'.attach,
         stray' # None => After(stray'),
         ours' # None /\ stray' # None /\ ours'.client = stray'.client =>
           ours'.beside /\ stray'.beside
  PROVE  JobModes'
BY DEF JobModes, Running, After

LEMMA JobsStay ==
  ASSUME Known, rec' \in Tables, UNCHANGED jobVars,
         ours # None => save' = save /\ Spared(ours.client),
         stray # None => Spared(stray.client)
  PROVE  JobModes'
<1>1. ours \in Jobs \cup {None} /\ stray \in Jobs \cup {None} /\ JobModes
  BY DEF Known, Basics, TypeOK
<1>2. ours # None => After(ours) /\ rec'[ours.client].email = rec[ours.client].email
  BY <1>1, SparedRuns DEF JobModes, Spared
<1>3. stray # None => After(stray)
  BY <1>1, SparedRuns DEF JobModes
<1> QED  BY <1>1, <1>2, <1>3, JobsTogether DEF JobModes

\* Once a client has been entered where an attach was to enter it, the attach itself is
\* still right, and so is one of another client or one that runs beside it.
LEMMA EnterRuns ==
  ASSUME rec \in Tables, NEW job \in Jobs, NEW i, Running(job), Enters(job, i)
  PROVE  /\ After([job EXCEPT !.todo = @ \ {i}])
         /\ rec'[job.client].email = rec[job.client].email
         /\ \A other \in Jobs :
              Running(other) /\ (other.client = job.client => other.beside) => After(other)
<1>1. PICK c : c = job.client
  OBVIOUS
<1>2. /\ c \in Live /\ c \in Ids /\ rec' \in Tables
      /\ \A d \in Ids : d # c => rec'[d] = rec[d]
  BY <1>1 DEF Enters, Live
<1>3. /\ rec'[c] # None /\ rec'[c].email = rec[c].email
      /\ \A j \in Inbounds : j # i => rec'[c].held[j] = rec[c].held[j]
  <2>1. CASE rec' = rec
    BY <1>2, <2>1 DEF Live
  <2>2. CASE AddInboundClient(job, i).ok
    <3>1. /\ rec'[c] \in Clients
          /\ \A f \in {"email", "name", "links"} : rec'[c][f] = rec[c][f]
          /\ \A j \in Inbounds : j # i => rec'[c].held[j] = rec[c].held[j]
      BY <1>1, <2>2 DEF Enters
    <3>2. rec'[c].email = rec[c].email
      BY <3>1
    <3> QED  BY <3>1, <3>2
  <2> QED  BY <2>1, <2>2 DEF Enters
<1>4. PICK rest : rest = [job EXCEPT !.todo = @ \ {i}]
  OBVIOUS
<1>5. rest.client = c /\ rest.todo = job.todo \ {i} /\ rest.beside = job.beside
      /\ job.todo \subseteq Inbounds
  BY <1>1, <1>4 DEF Jobs
<1>6. After(rest)
  BY <1>1, <1>2, <1>3, <1>5 DEF After, Running, Live
<1>7. ASSUME NEW other \in Jobs, Running(other), other.client = c => other.beside
      PROVE  After(other)
  <2>1. CASE other.client = c
    BY <1>2, <1>3, <1>7, <2>1 DEF After, Live
  <2>2. CASE other.client # c
    BY <1>2, <1>7, <2>2 DEF After, Running, Live, Jobs
  <2> QED  BY <2>1, <2>2
<1> QED  BY <1>1, <1>3, <1>4, <1>6, <1>7

\* An attach that begins: it has nothing to do where the client is entered.
LEMMA ReadRuns ==
  ASSUME rec \in Tables, UNCHANGED rec, NEW c \in Live, NEW ibs \in SUBSET Inbounds
  PROVE  /\ After(Reads(c, ibs))
         /\ \A other \in Jobs : Running(other) => After(Beside(other, c))
<1>1. c \in Live' /\ c \in Ids /\ rec[c] \in Clients /\ rec' = rec
  BY DEF Live, Tables
<1>2. PICK job : job = Reads(c, ibs)
  OBVIOUS
<1>3. job.client = c /\ job.todo = ibs \ AttachedTo(c)
  BY <1>2, JobTypes
<1>4. \A i \in job.todo : rec'[c].held[i] = 0
  BY <1>1, <1>3 DEF AttachedTo, Clients
<1>5. After(job)
  BY <1>1, <1>3, <1>4 DEF After
<1>6. ASSUME NEW other \in Jobs, Running(other) PROVE After(Beside(other, c))
  <2>1. PICK b : b = Beside(other, c)
    OBVIOUS
  <2>2. /\ b.client = other.client /\ b.todo = other.todo
        /\ b.beside <=> other.beside \/ other.client = c
    BY <2>1, JobTypes
  <2>3. After(b)
    BY <1>1, <1>6, <2>2 DEF After, Running, Live
  <2> QED  BY <2>1, <2>3
<1> QED  BY <1>2, <1>5, <1>6

LEMMA JobsNext == Known /\ [Next]_vars => JobModes'
<1> SUFFICES ASSUME Known, [Next]_vars PROVE JobModes'
  OBVIOUS
<1> USE DEF Known, Basics
<1>r. /\ rec \in Tables /\ JobModes
      /\ ours \in Jobs \cup {None} /\ stray \in Jobs \cup {None}
  BY DEF TypeOK, Tables
<1>l. /\ ours # None => ours.client \in Live /\ ours.client \in Attaching
      /\ stray # None => stray.client \in Live /\ stray.client \in Attaching
  BY <1>r DEF JobModes, Running, Attaching
<1>s. ours # None => save # None /\ save.pc = "attach"
  BY <1>r DEF JobModes
<1>1. CASE Reading \/ UNCHANGED vars
  <2>1. rec' = rec /\ UNCHANGED jobVars
    BY <1>1, ReadingFacts
  <2>2. ours # None => save' = save
    BY <1>1, <1>s DEF Reading, AddClick, TypeField, Type, Cancel, Submit, Saved, EditClick,
         Hydrated, ToggleClick, vars, pageVars
  <2>3. \A c \in Live : Spared(c)
    BY <1>r, <2>1, SameSpared DEF Live
  <2> QED  BY <1>r, <1>l, <2>1, <2>2, <2>3, JobsStay
<1>2. CASE Request \/ RequestLost
  <2>1. Wrote
    BY <1>2, RequestWrites
  <2>2. ours' = None /\ (stray' = stray \/ (ours # None /\ stray' = ours))
    <3>1. ASSUME Request PROVE ours' = None /\ UNCHANGED stray
      BY <3>1 DEF Request
    <3>2. ASSUME RequestLost
          PROVE  ours' = None /\ (UNCHANGED stray \/ (ours # None /\ stray' = ours))
      BY <3>2 DEF RequestLost
    <3> QED  BY <1>2, <3>1, <3>2
  <2>3. /\ ours # None => After(ours)
        /\ stray # None => After(stray)
    BY <1>r, <1>l, <2>1, SparedRuns DEF JobModes, Wrote
  <2>4. stray' # None => After(stray')
    BY <2>2, <2>3
  <2> QED  BY <2>2, <2>4, JobsTogether
<1>3. CASE ToggleWrites
  <2>1. Switched /\ UNCHANGED jobVars /\ save' = save
    BY <1>3, ToggleFacts DEF ToggleWrites
  <2>2. ASSUME NEW c \in Live PROVE Spared(c)
    <3>1. CASE c \in Called(toggle.email)
      <4>1. rec'[c] \in Clients /\ rec'[c].email = rec[c].email /\ rec'[c].held = rec[c].held
        BY <2>1, <3>1 DEF Switched
      <4>2. c \in Ids /\ \A i \in Inbounds : rec[c].held[i] \in 0 .. 2
        BY <1>r DEF Live, Tables, Clients
      <4> QED  BY <4>1, <4>2 DEF Spared, Live
    <3>2. CASE c \notin Called(toggle.email)
      BY <1>r, <2>1, <3>2, SameSpared DEF Switched, Live
    <3> QED  BY <3>1, <3>2
  <2>3. rec' \in Tables
    BY <2>1 DEF Switched
  <2> QED  BY <1>l, <2>1, <2>2, <2>3, JobsStay
<1>4. ASSUME NEW d \in Ids, Deleted(d) PROVE JobModes'
  <2>1. UNCHANGED jobVars /\ save' = save /\ d \notin Attaching /\ rec' \in Tables
    BY <1>r, <1>4 DEF Deleted, pageVars, Tables
  <2>2. \A c \in Live : c # d => rec'[c] = rec[c]
    BY <1>r, <1>4 DEF Deleted, Live, Tables
  <2>3. \A c \in Live : c # d => Spared(c)
    BY <1>r, <2>2, SameSpared
  <2> QED  BY <1>l, <2>1, <2>3, JobsStay
<1>5. ASSUME NEW d \in Ids, EditedElsewhere(d) PROVE JobModes'
  <2>1. UNCHANGED jobVars /\ save' = save
    BY <1>5 DEF EditedElsewhere, pageVars
  <2>2. rec' \in Tables /\ \A c \in Live : Spared(c)
    BY <1>5, ElsewhereFacts
  <2> QED  BY <1>l, <2>1, <2>2, JobsStay
<1>6. CASE AttachReads
  <2>1. PICK h : h = Holder(save.email)
    OBVIOUS
  <2>2. h \in Live /\ rec[h].email = save.email
    BY <1>6, <2>1, HolderFacts DEF AttachReads
  <2>3. PICK ibs : ibs = save.attach
    OBVIOUS
  <2>4. ibs \in SUBSET Inbounds
    BY <1>6, <2>3, SaveTypes DEF AttachReads
  <2>5. /\ ours' = Reads(h, ibs) /\ stray' = Beside(stray, h)
        /\ rec' = rec /\ save' = save /\ save # None /\ save.pc = "attach" /\ ours = None
    BY <1>6, <2>1, <2>3 DEF AttachReads, pageVars
  <2>6. /\ Reads(h, ibs).client = h /\ Reads(h, ibs).todo \subseteq ibs
        /\ Reads(h, ibs).beside <=> h \in Attaching
    BY <1>r, <2>2, <2>4, JobTypes
  <2>7. After(Reads(h, ibs)) /\ (stray # None => After(Beside(stray, h)))
    BY <1>r, <2>2, <2>4, <2>5, ReadRuns DEF JobModes
  <2>8. PICK b : b = Beside(stray, h)
    OBVIOUS
  <2>9. /\ b = None <=> stray = None
        /\ stray # None =>
             b.client = stray.client /\ (b.beside <=> stray.beside \/ stray.client = h)
    <3>1. PICK job : job = stray
      OBVIOUS
    <3>2. job \in Jobs \cup {None}
      BY <1>r, <3>1
    <3>3. /\ Beside(job, h) = None <=> job = None
          /\ job # None =>
               /\ Beside(job, h).client = job.client
               /\ Beside(job, h).beside <=> job.beside \/ job.client = h
      BY <1>r, <2>2, <2>4, <3>2, JobTypes
    <3> QED  BY <2>8, <3>1, <3>3
  <2>10. stray # None /\ stray.client = h => h \in Attaching
    BY <1>l
  <2>11. ours' # None => /\ After(ours') /\ save' # None /\ save'.pc = "attach"
                         /\ rec'[ours'.client].email = save'.email
                         /\ ours'.todo \subseteq save'.attach
    BY <2>2, <2>3, <2>5, <2>6, <2>7
  <2>12. stray' # None => After(stray')
    BY <2>5, <2>7, <2>8, <2>9
  <2>13. ours' # None /\ stray' # None /\ ours'.client = stray'.client =>
           ours'.beside /\ stray'.beside
    BY <2>5, <2>6, <2>8, <2>9, <2>10
  <2> QED  BY <2>11, <2>12, <2>13, JobsTogether
<1>7. CASE AttachAppends
  <2>1. PICK i \in ours.todo :
          /\ Enters(ours, i)
          /\ IF AddInboundClient(ours, i).ok
             THEN ours' = [ours EXCEPT !.todo = @ \ {i}] /\ save' = save /\ tried' = tried
             ELSE ours' = None /\ save' = None /\ tried' = Attempted
    BY <1>7, AppendFacts
  <2>2. ours # None /\ stray' = stray
    BY <1>7 DEF AttachAppends
  <2>3. PICK job, rest : job = ours /\ rest = [job EXCEPT !.todo = @ \ {i}]
    OBVIOUS
  <2>4. /\ job \in Jobs /\ Running(job) /\ Enters(job, i)
        /\ rec[job.client].email = save.email /\ job.todo \subseteq save.attach
    BY <1>r, <2>1, <2>2, <2>3 DEF JobModes
  <2>5. After(rest) /\ rec'[job.client].email = rec[job.client].email
    BY <1>r, <2>3, <2>4, EnterRuns
  <2>6. stray # None => After(stray)
    BY <1>r, <2>2, <2>3, <2>4, EnterRuns DEF JobModes
  <2>7. rest.client = job.client /\ rest.todo \subseteq job.todo /\ rest.beside = job.beside
    BY <2>3, <2>4 DEF Jobs
  <2>8. ours' # None => ours' = rest /\ save' = save
    BY <2>1, <2>3
  <2>9. ours' # None => /\ After(ours') /\ save' # None /\ save'.pc = "attach"
                        /\ rec'[ours'.client].email = save'.email
                        /\ ours'.todo \subseteq save'.attach
    BY <1>s, <2>2, <2>4, <2>5, <2>7, <2>8
  <2>10. ours' # None /\ stray' # None /\ ours'.client = stray'.client =>
           ours'.beside /\ stray'.beside
    BY <1>r, <2>2, <2>3, <2>7, <2>8 DEF JobModes
  <2> QED  BY <2>2, <2>6, <2>9, <2>10, JobsTogether
<1>8. CASE StrayAppends
  <2>1. PICK i \in stray.todo :
          /\ Enters(stray, i)
          /\ stray' = [stray EXCEPT !.todo = @ \ {i}] \/ stray' = None
    BY <1>8, StrayFacts
  <2>2. stray # None /\ ours' = ours /\ save' = save
    BY <1>8 DEF StrayAppends, pageVars
  <2>3. PICK job, rest : job = stray /\ rest = [job EXCEPT !.todo = @ \ {i}]
    OBVIOUS
  <2>4. job \in Jobs /\ Running(job) /\ Enters(job, i)
    BY <1>r, <2>1, <2>2, <2>3 DEF JobModes
  <2>5. After(rest)
    BY <1>r, <2>3, <2>4, EnterRuns
  <2>6. ours # None => After(ours)
    BY <1>r, <2>2, <2>3, <2>4, EnterRuns DEF JobModes
  <2>7. rest.client = job.client /\ rest.todo \subseteq job.todo /\ rest.beside = job.beside
    BY <2>3, <2>4 DEF Jobs
  <2>8. stray' # None => stray' = rest
    BY <2>1, <2>3
  <2>9. ours # None => rec'[ours.client].email = rec[ours.client].email
    <3>1. CASE ours # None /\ ours.client = job.client
      BY <1>r, <2>4, <3>1, EnterRuns
    <3>2. CASE ours # None /\ ours.client # job.client
      BY <1>l, <2>4, <3>2 DEF Enters, Live
    <3> QED  BY <3>1, <3>2
  <2>10. ours' # None => /\ After(ours') /\ save' # None /\ save'.pc = "attach"
                         /\ rec'[ours'.client].email = save'.email
                         /\ ours'.todo \subseteq save'.attach
    BY <1>r, <2>2, <2>6, <2>9 DEF JobModes
  <2>11. ours' # None /\ stray' # None /\ ours'.client = stray'.client =>
           ours'.beside /\ stray'.beside
    BY <1>r, <2>2, <2>3, <2>7, <2>8 DEF JobModes
  <2>12. stray' # None => After(stray')
    BY <2>5, <2>8
  <2> QED  BY <2>10, <2>11, <2>12, JobsTogether
<1>9. ASSUME NEW c \in Ids, AttachedElsewhere(c) PROVE JobModes'
  <2>1. PICK i \in Inbounds : stray' = Reads(c, {i})
    BY <1>9 DEF AttachedElsewhere
  <2>2. c \in Live /\ stray = None /\ ours' = Beside(ours, c) /\ rec' = rec /\ save' = save
    BY <1>9 DEF AttachedElsewhere, pageVars
  <2>3. Reads(c, {i}).client = c /\ (Reads(c, {i}).beside <=> c \in Attaching)
    BY <1>r, <2>2, JobTypes
  <2>4. After(Reads(c, {i})) /\ (ours # None => After(Beside(ours, c)))
    BY <1>r, <2>2, ReadRuns DEF JobModes
  <2>5. PICK b : b = Beside(ours, c)
    OBVIOUS
  <2>6. /\ b = None <=> ours = None
        /\ ours # None => /\ b.client = ours.client /\ b.todo = ours.todo
                          /\ b.beside <=> ours.beside \/ ours.client = c
    BY <1>r, <2>2, <2>5, JobTypes
  <2>7. ours # None /\ ours.client = c => c \in Attaching
    BY <1>l
  <2>8. ours' # None => /\ After(ours') /\ save' # None /\ save'.pc = "attach"
                        /\ rec'[ours'.client].email = save'.email
                        /\ ours'.todo \subseteq save'.attach
    BY <1>r, <2>2, <2>4, <2>5, <2>6 DEF JobModes
  <2>9. ours' # None /\ stray' # None /\ ours'.client = stray'.client =>
           ours'.beside /\ stray'.beside
    BY <2>1, <2>2, <2>3, <2>5, <2>6, <2>7
  <2>10. stray' # None => After(stray')
    BY <2>1, <2>4
  <2> QED  BY <2>8, <2>9, <2>10, JobsTogether
<1> QED  BY <1>1, <1>2, <1>3, <1>4, <1>5, <1>6, <1>7, <1>8, <1>9, NextCases

LEMMA KnownNext == Known /\ [Next]_vars => Known'
BY BasicsNext, JobsNext DEF Known

THEOREM KnownAlways == Spec => []Known
<1>1. Init => Known
  BY KnownInit
<1>2. Known /\ [Next]_vars => Known'
  BY KnownNext
<1> QED
  BY <1>1, <1>2, PTL DEF Spec

\* Every variable keeps its type, through requests that are refused half way, lost or
\* repeated.
THEOREM Typed == Spec => []TypeOK
<1>1. Known => TypeOK
  BY DEF Known, Basics
<1> QED
  BY <1>1, KnownAlways, PTL

-----------------------------------------------------------------------------
\* Credentials and second entries.

\* What a written form does to a client's credentials, in the words of CredentialsStay.
LEMMA KeepsStay ==
  ASSUME NEW c \in Live, Writer # None, Keeps(rec', c, Writer)
  PROVE  /\ rec'[c].cred.of # rec[c].cred.of =>
              (Writer.of \in Live \ {c} => rec[Writer.of].sub # Writer.sub)
         /\ rec'[c].cred.pass = "made" /\ rec[c].cred.pass = "own" =>
              \/ Writer.cred.pass = "made"
              \/ Keyed \cap (AttachedTo(c) \cup AttachedTo(c)') # {}
<1>1. ASSUME NEW i \in Keyed, rec[c].held[i] > 0 \/ rec'[c].held[i] > 0
      PROVE  Keyed \cap (AttachedTo(c) \cup AttachedTo(c)') # {}
  <2>1. i \in Inbounds
    OBVIOUS
  <2>2. i \in AttachedTo(c) \/ i \in AttachedTo(c)'
    BY <1>1, <2>1 DEF AttachedTo
  <2> QED  BY <2>2
<1> QED  BY <1>1 DEF Keeps

\* ... and what an attach that enters a client does to it.
LEMMA EnterStay ==
  ASSUME Known, NEW job, NEW i, Enters(job, i), job = ours \/ job = stray, NEW c \in Live
  PROVE  /\ rec'[c].cred.of # rec[c].cred.of => \E cred \in HadRead(c) : cred.of = rec'[c].cred.of
         /\ rec'[c].cred.pass = "made" /\ rec[c].cred.pass = "own" =>
              \/ \E cred \in HadRead(c) : cred.pass = "made"
              \/ Keyed \cap (AttachedTo(c) \cup AttachedTo(c)') # {}
<1>1. CASE rec'[c] = rec[c]
  <2>1. rec[c].cred.pass # "own" \/ rec[c].cred.pass # "made"
    OBVIOUS
  <2> QED  BY <1>1, <2>1
<1>2. CASE rec'[c] # rec[c]
  <2>1. c = job.client /\ AddInboundClient(job, i).ok /\ c \in Ids
    BY <1>2 DEF Enters, Live
  <2>2. /\ rec'[c].cred.of = job.cred.of
        /\ rec'[c].cred.pass = "made" => job.cred.pass = "made" \/ i \in Keyed
        /\ rec'[c].held[i] = rec[c].held[i] + 1 /\ i \in Inbounds
    BY <2>1 DEF Enters
  <2>3. job # None /\ job \in Jobs
    BY DEF Enters
  <2>4. job.cred \in HadRead(c)
    BY <2>1, <2>3 DEF HadRead
  <2>5. rec[c].held[i] \in 0 .. 2
    BY <2>1, <2>2 DEF Known, Basics, TypeOK, Live, Clients
  <2>6. i \in AttachedTo(c)'
    BY <2>2, <2>5 DEF AttachedTo
  <2> QED  BY <2>2, <2>4, <2>6
<1> QED  BY <1>1, <1>2

\* No order of clicks, answers, retries, switches and attaches gives a client the
\* identity of another: onSave and setEnable only write one where the subscription id of
\* the form is nobody else's, and the form has that of the client it is of; an attach
\* writes back what it has read of the client.  A password is replaced by a made one
\* where a Shadowsocks-2022 inbound is, or was in the form, and by what was read.
THEOREM CredentialsAreKept == Spec => CredentialsStay
<1> DEFINE Kept == \A c \in Live : rec'[c] # None =>
       /\ rec'[c].cred.of # rec[c].cred.of =>
            \/ \E cred \in HadRead(c) : cred.of = rec'[c].cred.of
            \/ /\ Writer # None
               /\ Writer.of \in Live \ {c} => rec[Writer.of].sub # Writer.sub
       /\ rec'[c].cred.pass = "made" /\ rec[c].cred.pass = "own" =>
            \/ \E cred \in HadRead(c) : cred.pass = "made"
            \/ Writer # None /\ Writer.cred.pass = "made"
            \/ Keyed \cap (AttachedTo(c) \cup AttachedTo(c)') # {}
<1>1. ASSUME Known, [Next]_vars PROVE Kept
  <2>1. ASSUME \A c \in Live : rec'[c] # None => rec'[c].cred = rec[c].cred PROVE Kept
    <3>1. ASSUME NEW c \in Live, rec'[c] # None
          PROVE  /\ rec'[c].cred.of = rec[c].cred.of
                 /\ ~(rec'[c].cred.pass = "made" /\ rec[c].cred.pass = "own")
      <4>1. rec'[c].cred = rec[c].cred
        BY <2>1, <3>1
      <4> QED  BY <4>1
    <3> QED  BY <3>1
  <2>2. CASE Reading \/ UNCHANGED vars \/ AttachReads \/ \E c \in Ids : AttachedElsewhere(c)
    <3>1. rec' = rec
      BY <2>2, ReadingFacts DEF AttachReads, AttachedElsewhere
    <3> QED  BY <2>1, <3>1
  <2>3. CASE Request \/ RequestLost
    <3>1. Wrote /\ save # None
      BY <1>1, <2>3, RequestWrites
    <3>2. save.form # None
      BY <1>1, <3>1, SaveTypes DEF Known, Basics
    <3>3. Writer = save.form
      BY <2>3, <3>1 DEF Writer, Request, RequestLost
    <3>4. \A c \in Live : Keeps(rec', c, Writer)
      BY <3>1, <3>3 DEF Wrote
    <3>5. Writer # None
      BY <3>2, <3>3
    <3> QED  BY <3>4, <3>5, KeepsStay
  <2>4. CASE ToggleWrites
    <3>1. Switched /\ toggle \in Forms
      BY <1>1, <2>4, ToggleFacts
    <3>2. Writer = toggle /\ toggle # None
      BY <2>4 DEF Writer, ToggleWrites
    <3>3. \A c \in Live : Keeps(rec', c, Writer)
      BY <3>1, <3>2, SameKeeps DEF Switched, Live
    <3> QED  BY <3>2, <3>3, KeepsStay
  <2>5. ASSUME NEW d \in Ids, Deleted(d) PROVE Kept
    <3>1. \A c \in Live : rec'[c] # None => rec'[c] = rec[c]
      BY <1>1, <2>5 DEF Deleted, Known, Basics, TypeOK, Live
    <3> QED  BY <2>1, <3>1
  <2>6. ASSUME NEW d \in Ids, EditedElsewhere(d) PROVE Kept
    <3>1. \A c \in Live : rec'[c] # None => rec'[c].cred = rec[c].cred
      BY <1>1, <2>6, ElsewhereFacts DEF Live
    <3> QED  BY <2>1, <3>1
  <2>7. CASE AttachAppends
    <3>1. PICK i : Enters(ours, i)
      BY <1>1, <2>7, AppendFacts
    <3> QED  BY <1>1, <3>1, EnterStay
  <2>8. CASE StrayAppends
    <3>1. PICK i : Enters(stray, i)
      BY <1>1, <2>8, StrayFacts
    <3> QED  BY <1>1, <3>1, EnterStay
  <2> QED  BY <1>1, <2>2, <2>3, <2>4, <2>5, <2>6, <2>7, <2>8, NextCases
<1> QED
  BY <1>1, KnownAlways, PTL DEF Spec, CredentialsStay

\* No inbound gets a second entry of a client but by an add that is repeated and by an
\* attach that runs beside another one of the client: else attach skips the inbounds it
\* is in, and nobody puts it there before the attach does.
THEOREM NoSecondEntries == Spec => NoTwins
<1> DEFINE Single == \A c \in Live : rec'[c] # None /\ ~Twin(c) /\ Twin(c)' =>
       \/ save # None /\ save.pc = "create"
       \/ \E job \in {ours, stray} \ {None} : job.client = c /\ job.beside
<1>1. ASSUME Known, [Next]_vars PROVE Single
  <2> SUFFICES ASSUME NEW c \in Live, rec'[c] # None, ~Twin(c), Twin(c)',
                      save # None => save.pc # "create",
                      \A job \in {ours, stray} \ {None} : job.client = c => ~job.beside
               PROVE  FALSE
    OBVIOUS
  <2>1. c \in Ids /\ rec[c] \in Clients /\ \A i \in Inbounds : rec[c].held[i] \in 0 .. 1
    BY <1>1 DEF Known, Basics, TypeOK, Live, Twin, Clients
  <2>2. PICK i \in Inbounds : rec'[c].held[i] > 1
    BY DEF Twin
  <2>3. rec'[c] # rec[c] /\ (rec'[c] \in Clients => ~(rec'[c].held[i] <= rec[c].held[i]))
    <3>1. rec'[c] \in Clients => rec'[c].held[i] \in Nat
      BY DEF Clients
    <3> QED  BY <2>1, <2>2, <3>1
  <2>4. CASE Reading \/ UNCHANGED vars \/ AttachReads \/ \E d \in Ids : AttachedElsewhere(d)
    <3>1. rec' = rec
      BY <2>4, ReadingFacts DEF AttachReads, AttachedElsewhere
    <3> QED  BY <2>3, <3>1
  <2>5. CASE Request \/ RequestLost
    <3>1. Wrote /\ save # None
      BY <1>1, <2>5, RequestWrites
    <3>2. c \in Called(save.email) /\ rec'[c] \in Clients
      BY <2>1, <2>3, <3>1 DEF Wrote
    <3>3. rec'[c].held[i] <= rec[c].held[i]
      BY <3>1, <3>2 DEF Wrote
    <3> QED  BY <2>3, <3>2, <3>3
  <2>6. CASE ToggleWrites
    BY <1>1, <2>1, <2>2, <2>3, <2>6, ToggleFacts DEF Switched
  <2>7. ASSUME NEW d \in Ids, Deleted(d) PROVE FALSE
    BY <1>1, <2>1, <2>3, <2>7 DEF Deleted, Known, Basics, TypeOK
  <2>8. ASSUME NEW d \in Ids, EditedElsewhere(d) PROVE FALSE
    <3>1. Spared(c) /\ rec'[c] \in Clients
      BY <1>1, <2>1, <2>8, ElsewhereFacts DEF Tables
    <3> QED  BY <2>3, <3>1 DEF Spared
  <2>9. ASSUME NEW job, NEW j, Enters(job, j), Running(job), job = ours \/ job = stray
        PROVE  FALSE
    <3>1. c = job.client /\ AddInboundClient(job, j).ok
      BY <2>1, <2>3, <2>9 DEF Enters
    <3>2. /\ rec'[c].held[j] = rec[c].held[j] + 1 /\ j \in job.todo
          /\ \A k \in Inbounds : k # j => rec'[c].held[k] = rec[c].held[k]
      BY <2>9, <3>1 DEF Enters
    <3>3. i = j
      BY <2>1, <2>2, <3>2
    <3>4. job # None
      BY <2>9 DEF Enters
    <3>5. ~job.beside
      BY <2>9, <3>1, <3>4
    <3>6. rec[c].held[j] = 0
      BY <2>9, <3>1, <3>2, <3>5 DEF Running
    <3> QED  BY <2>2, <3>2, <3>3, <3>6
  <2>10. CASE AttachAppends
    <3>1. PICK j : Enters(ours, j)
      BY <1>1, <2>10, AppendFacts
    <3>2. Running(ours)
      BY <1>1, <2>10 DEF AttachAppends, Known, JobModes
    <3> QED  BY <2>9, <3>1, <3>2
  <2>11. CASE StrayAppends
    <3>1. PICK j : Enters(stray, j)
      BY <1>1, <2>11, StrayFacts
    <3>2. Running(stray)
      BY <1>1, <2>11 DEF StrayAppends, Known, JobModes
    <3> QED  BY <2>9, <3>1, <3>2
  <2> QED  BY <1>1, <2>4, <2>5, <2>6, <2>7, <2>8, <2>10, <2>11, NextCases
<1> QED
  BY <1>1, KnownAlways, PTL DEF Spec, NoTwins

-----------------------------------------------------------------------------
\* What the page knows of clients nobody else writes.

\* A client nobody else has written since it was fetched is changed by requests and
\* the attach of its own save only.
LEMMA OthersStayAway ==
  ASSUME Known, [Next]_vars, NEW c \in Live, c \notin touched'
  PROVE  \/ rec'[c] = rec[c]
         \/ (Request \/ RequestLost) /\ save.target = c /\ c \in Called(save.email)
         \/ AttachAppends /\ save.target = c /\ ours.client = c
<1>1. CASE Reading \/ UNCHANGED vars \/ AttachReads \/ \E d \in Ids : AttachedElsewhere(d)
  BY <1>1, ReadingFacts DEF AttachReads, AttachedElsewhere
<1>2. CASE Request \/ RequestLost
  <2>1. Wrote
    BY <1>2, RequestWrites
  <2>2. c \notin Called(save.email) \/ c = save.target
    BY <1>2 DEF Request, RequestLost
  <2> QED  BY <1>2, <2>1, <2>2 DEF Wrote
<1>3. CASE ToggleWrites
  <2>1. Switched
    BY <1>3, ToggleFacts
  <2>2. c \in Ids /\ c \notin Called(toggle.email)
    BY <1>3 DEF ToggleWrites, Live
  <2> QED  BY <2>1, <2>2 DEF Switched
<1>4. ASSUME NEW d \in Ids, Deleted(d) PROVE rec'[c] = rec[c]
  BY <1>4 DEF Deleted, Known, Basics, TypeOK, Live
<1>5. ASSUME NEW d \in Ids, EditedElsewhere(d) PROVE rec'[c] = rec[c]
  <2>1. c # d /\ c \in Ids
    BY <1>5 DEF EditedElsewhere, Live
  <2> QED  BY <1>5, <2>1, ElsewhereFacts
<1>6. CASE AttachAppends
  <2>1. PICK i : Enters(ours, i)
    BY <1>6, AppendFacts
  <2>2. ours.client # c \/ save.target = c
    BY <1>6 DEF AttachAppends
  <2>3. ours.client # c => rec'[c] = rec[c]
    BY <2>1 DEF Enters, Live
  <2> QED  BY <1>6, <2>2, <2>3
<1>7. CASE StrayAppends
  <2>1. PICK i : Enters(stray, i)
    BY <1>7, StrayFacts
  <2>2. stray.client # c
    BY <1>7 DEF StrayAppends
  <2> QED  BY <2>1, <2>2 DEF Enters, Live
<1> QED  BY <1>1, <1>2, <1>3, <1>4, <1>5, <1>6, <1>7, NextCases

\* What the attach of a save does to its client as long as that is untouched.
LEMMA OwnAppend ==
  ASSUME Known, OursInv, AttachAppends, NEW c, c = ours.client, c \notin touched
  PROVE  /\ c \in Live /\ c \in Live' /\ Wedged(c)' = Wedged(c)
         /\ rec'[c].email = rec[c].email /\ rec'[c].sub = rec[c].sub
         /\ rec'[c].on = rec[c].on
         /\ \A i \in Inbounds :
              /\ i \in AttachedTo(c) => i \in AttachedTo(c)'
              /\ i \notin save.attach => (i \in AttachedTo(c)' <=> i \in AttachedTo(c))
              /\ ours' # None /\ i \in AttachedTo(c) \cup ours.todo =>
                   i \in AttachedTo(c)' \cup ours'.todo
         /\ ours' # None => ours'.client = c /\ ours'.sub = ours.sub /\ ours'.on = ours.on
<1>1. PICK i \in ours.todo :
        /\ Enters(ours, i)
        /\ IF AddInboundClient(ours, i).ok
           THEN ours' = [ours EXCEPT !.todo = @ \ {i}] /\ save' = save /\ tried' = tried
           ELSE ours' = None /\ save' = None /\ tried' = Attempted
  BY AppendFacts
<1>2. /\ c \in Live /\ c \in Ids /\ rec[c] \in Clients /\ i \in Inbounds /\ ours \in Jobs
      /\ ours # None /\ i \in save.attach /\ ours.todo \subseteq Inbounds
      /\ ours.sub = rec[c].sub /\ ours.on = rec[c].on
  BY <1>1 DEF Enters, Live, OursInv, Known, Basics, TypeOK, JobModes, Jobs
<1>3. CASE AddInboundClient(ours, i).ok
  <2>1. /\ rec'[c] \in Clients
        /\ \A f \in {"email", "name", "links"} : rec'[c][f] = rec[c][f]
        /\ rec'[c].sub = ours.sub /\ rec'[c].on = ours.on
        /\ rec'[c].held[i] = rec[c].held[i] + 1
        /\ \A j \in Inbounds : j # i => rec'[c].held[j] = rec[c].held[j]
    BY <1>1, <1>3 DEF Enters
  <2>2. rec'[c].email = rec[c].email /\ rec'[c].name = rec[c].name /\ c \in Live'
    BY <1>2, <2>1 DEF Live
  <2>3. rec[c].held[i] \in 0 .. 2
    BY <1>2 DEF Clients
  <2>4. \A j \in Inbounds : j \in AttachedTo(c)' <=> j \in AttachedTo(c) \/ j = i
    BY <2>1, <2>3 DEF AttachedTo
  <2>5. /\ ours'.client = c /\ ours'.todo = ours.todo \ {i}
        /\ ours'.sub = ours.sub /\ ours'.on = ours.on
    BY <1>1, <1>2, <1>3 DEF Jobs
  <2>6. Wedged(c)' = Wedged(c)
    BY <2>2 DEF Wedged
  <2> QED  BY <1>2, <2>1, <2>2, <2>4, <2>5, <2>6
<1>4. CASE ~AddInboundClient(ours, i).ok
  <2>1. rec' = rec /\ ours' = None
    BY <1>1, <1>4 DEF Enters
  <2>2. rec'[c] = rec[c]
    BY <2>1
  <2> QED  BY <1>2, <2>1, <2>2 DEF Live, AttachedTo, Wedged
<1> QED  BY <1>3, <1>4

\* What depends on the row of a client only.
LEMMA SameRow ==
  ASSUME NEW c \in Live, rec'[c] = rec[c]
  PROVE  c \in Live' /\ AttachedTo(c)' = AttachedTo(c) /\ Wedged(c)' = Wedged(c)
BY DEF Live, AttachedTo, Wedged

\* An e-mail nobody has stays so unless the save under way can give it to somebody.
LEMMA NobodyCalled ==
  ASSUME Known, [Next]_vars, NEW e, Called(e) = {},
         save # None => save.email = e /\ save.pc # "create"
  PROVE  Called(e)' = {}
<1>1. CASE Reading \/ UNCHANGED vars \/ AttachReads \/ \E d \in Ids : AttachedElsewhere(d)
  <2>1. rec' = rec
    BY <1>1, ReadingFacts DEF AttachReads, AttachedElsewhere
  <2> QED  BY <2>1 DEF Called, Live
<1>2. CASE Request \/ RequestLost
  <2>1. Wrote /\ save # None
    BY <1>2, RequestWrites
  <2>2. rec' = rec
    BY <2>1 DEF Wrote
  <2> QED  BY <2>2 DEF Called, Live
<1>3. CASE ToggleWrites
  <2>1. Switched
    BY <1>3, ToggleFacts
  <2>2. \A c \in Ids : rec'[c] # None => rec[c] # None /\ rec'[c].email = rec[c].email
    BY <2>1 DEF Switched, Called, Live
  <2> QED  BY <2>2 DEF Called, Live
<1>4. ASSUME NEW d \in Ids, Deleted(d) PROVE Called(e)' = {}
  <2>1. \A c \in Ids : rec'[c] # None => rec'[c] = rec[c]
    BY <1>4 DEF Deleted, Known, Basics, TypeOK
  <2> QED  BY <2>1 DEF Called, Live
<1>5. ASSUME NEW d \in Ids, EditedElsewhere(d) PROVE Called(e)' = {}
  <2>1. \A c \in Ids : rec'[c] # None => rec[c] # None /\ rec'[c].email = rec[c].email
    BY <1>5, ElsewhereFacts
  <2> QED  BY <2>1 DEF Called, Live
<1>6. CASE AttachAppends \/ StrayAppends
  <2>1. PICK job, i : Enters(job, i)
    BY <1>6, AppendFacts, StrayFacts
  <2>2. \A c \in Ids : rec'[c] # None => rec[c] # None /\ rec'[c].email = rec[c].email
    BY <2>1, EnterEmails
  <2> QED  BY <2>2 DEF Called, Live
<1> QED  BY <1>1, <1>2, <1>3, <1>4, <1>5, <1>6, NextCases

\* Clients are only forgotten to be touched by a click on edit.
LEMMA TouchedGrows ==
  ASSUME [Next]_vars
  PROVE  \/ touched \subseteq touched'
         \/ \E c \in Ids : EditClick(c)
BY DEF Next, vars, pageVars, AddClick, TypeField, Type, Cancel, Submit, Request, RequestLost,
       Saved, ToggleWrites, Hydrated, ToggleClick, Deleted, EditedElsewhere,
       AttachReads, AttachAppends, StrayAppends, AttachedElsewhere

\* Where the answers that have not arrived come from, and the target of the save.
LEMMA PageSteps ==
  ASSUME Known, [Next]_vars
  PROVE  /\ \A c \in Ids : hydrate'[c] # None => hydrate'[c] = hydrate[c] \/ EditClick(c)
         /\ save' # None => \/ save # None /\ save'.target = save.target
                            \/ Submit
<1>1. ASSUME NEW c \in Ids, hydrate'[c] # None
      PROVE  hydrate'[c] = hydrate[c] \/ EditClick(c)
  <2>1. ASSUME NEW d \in Ids, EditClick(d) PROVE hydrate'[c] = hydrate[c] \/ EditClick(c)
    BY <2>1 DEF EditClick, Known, Basics, TypeOK
  <2>2. ASSUME NEW d \in Ids, Hydrated(d) PROVE hydrate'[c] = hydrate[c]
    BY <1>1, <2>2 DEF Hydrated, Known, Basics, TypeOK
  <2>3. CASE hydrate' = hydrate
    BY <2>3
  <2>4. \/ hydrate' = hydrate
        \/ \E d \in Ids : EditClick(d) \/ Hydrated(d)
    BY DEF Next, vars, pageVars, AddClick, TypeField, Type, Cancel, Submit, Request,
           RequestLost, Saved, ToggleWrites, ToggleClick, Deleted, EditedElsewhere,
           AttachReads, AttachAppends, StrayAppends, AttachedElsewhere
  <2> QED  BY <2>1, <2>2, <2>3, <2>4
<1>2. ASSUME save' # None
      PROVE  \/ save # None /\ save'.target = save.target
             \/ Submit
  <2>1. CASE Request
    BY <1>2, <2>1, RequestFacts DEF Refusal, Success, Request
  <2>2. save' = save \/ save' = None \/ Submit \/ Request
    BY DEF Next, vars, pageVars, AddClick, TypeField, Type, Cancel, EditClick, Hydrated,
           RequestLost, Saved, ToggleWrites, ToggleClick, Deleted, EditedElsewhere,
           AttachReads, AttachAppends, StrayAppends, AttachedElsewhere
  <2> QED  BY <1>2, <2>1, <2>2
<1> QED  BY <1>1, <1>2

LEMMA HydrateNext == Known /\ HydrateInv /\ [Next]_vars => HydrateInv'
<1> SUFFICES ASSUME Known, HydrateInv, [Next]_vars,
                    NEW c \in Ids, hydrate'[c] # None, c \notin touched'
             PROVE  /\ c \in Live' /\ rec'[c].email = hydrate'[c].email
                    /\ AttachedTo(c)' = hydrate'[c].ibs
                    /\ save' # None => save'.target # c
  BY DEF HydrateInv
<1>1. CASE EditClick(c)
  <2>1. /\ c \in Live /\ rec' = rec /\ save' = save /\ rec \in Tables
        /\ hydrate \in [Ids -> Forms \cup {None}]
    BY <1>1 DEF EditClick, Known, Basics, TypeOK, Tables
  <2>2. hydrate'[c].email = rec[c].email /\ hydrate'[c].ibs = AttachedTo(c)
    BY <1>1, <2>1, FormFacts DEF EditClick
  <2>3. save # None => save.target # c
    BY <1>1 DEF EditClick
  <2> QED  BY <2>1, <2>2, <2>3, SameRow
<1>2. CASE ~EditClick(c)
  <2>1. hydrate'[c] = hydrate[c] /\ hydrate[c] # None
    BY <1>2, PageSteps
  <2>2. c \notin touched
    BY <1>2, TouchedGrows DEF EditClick
  <2>3. /\ c \in Live /\ rec[c].email = hydrate[c].email /\ AttachedTo(c) = hydrate[c].ibs
        /\ save # None => save.target # c
    BY <2>1, <2>2 DEF HydrateInv
  <2>4. rec'[c] = rec[c]
    BY <2>3, OthersStayAway DEF Request, RequestLost, AttachAppends, Known, JobModes
  <2>5. save' # None => save'.target # c
    <3>1. CASE Submit
      <4>1. mode = "edit" => hydrate[dialog.client.of] = None
        BY <3>1, SubmitFacts DEF Known, Basics, Modes
      <4> QED  BY <2>1, <3>1, <4>1, SubmitFacts
    <3> QED  BY <2>3, <3>1, PageSteps
  <2> QED  BY <2>1, <2>3, <2>4, <2>5, SameRow
<1> QED  BY <1>1, <1>2

\* What a request of a client's own save can do to it.
LEMMA OwnRequest ==
  ASSUME Known, SaveInv, Request \/ RequestLost,
         NEW c \in Ids, save.target = c, c \notin touched, NEW e, e = save.email
  PROVE  /\ c \in Live /\ c \in Live' /\ save.pc # "create"
         /\ \A i \in Inbounds : i \notin save.attach \cup save.detach =>
              (i \in AttachedTo(c)' <=> i \in AttachedTo(c))
         /\ Called(e) = {} => rec' = rec
         /\ rec[c].email = e => c \in Called(e) /\ c = Holder(e)
         /\ rec[c].email = e => rec'[c].email = e \/ Called(e)' = {}
<1>1. Wrote /\ save # None /\ rec \in Tables /\ Unique
  BY RequestWrites
<1>2. c \in Live /\ save.pc # "create"
  BY <1>1 DEF SaveInv, Going
<1>3. rec'[c] \in Clients /\ rec'[c] # None /\ c \in Live'
  BY <1>1, <1>2 DEF Wrote, Live
<1>4. ASSUME NEW i \in Inbounds, i \notin save.attach \cup save.detach
      PROVE  i \in AttachedTo(c)' <=> i \in AttachedTo(c)
  <2>1. rec'[c].held[i] = rec[c].held[i]
    BY <1>1, <1>2, <1>4 DEF Wrote
  <2> QED  BY <2>1 DEF AttachedTo
<1>5. Called(e) = {} => rec' = rec
  BY <1>1, <1>2 DEF Wrote
<1>6. ASSUME rec[c].email = e
      PROVE  /\ c \in Called(e) /\ c = Holder(e)
             /\ rec'[c].email = e \/ Called(e)' = {}
  <2>1. c \in Called(e)
    BY <1>2, <1>6 DEF Called
  <2>2. c = Holder(e) /\ \A d \in Called(e) : d = c
    BY <1>1, <2>1, HolderFacts
  <2>3. \A d \in Ids : d # c => rec'[d] = rec[d] /\ d \notin Called(e)
    BY <1>1, <1>2, <2>2 DEF Wrote
  <2>4. ASSUME rec'[c].email # e PROVE Called(e)' = {}
    <3>1. \A d \in Ids : rec'[d] # None => rec'[d].email # e
      BY <2>3, <2>4 DEF Called, Live
    <3> QED  BY <3>1 DEF Called, Live
  <2> QED  BY <2>1, <2>2, <2>4
<1> QED  BY <1>2, <1>3, <1>4, <1>5, <1>6

\* The client behind the dialog is the one there was, or one whose answer arrives.
LEMMA DialogSteps ==
  ASSUME Known, [Next]_vars, dialog'.client # None
  PROVE  \/ /\ dialog'.client = dialog.client /\ mode' = mode
            /\ ~\E c \in Ids : EditClick(c)
            /\ \/ Submit \/ Request \/ RequestLost \/ AttachAppends
               \/ save' = save /\ tried' = tried
         \/ \E c \in Ids : Hydrated(c) /\ dialog'.client = hydrate[c]
<1>1. CASE AddClick
  BY <1>1 DEF AddClick
<1>2. ASSUME NEW c \in Ids, EditClick(c) \/ ToggleClick(c) PROVE FALSE
  BY <1>2 DEF EditClick, ToggleClick, Known, Basics, Modes, Shut
<1>3. ASSUME NEW c \in Ids, Hydrated(c) PROVE dialog'.client = hydrate[c]
  BY <1>3 DEF Hydrated, Known, Basics, TypeOK
<1>4. CASE TypeField
  <2>1. PICK f : Type(f)
    BY <1>4 DEF TypeField
  <2> QED  BY <1>2, <2>1 DEF Type, Known, Basics, TypeOK
<1>5. CASE Cancel \/ Saved
  BY <1>5 DEF Cancel, Saved, Shut
<1>6. CASE Submit
  BY <1>2, <1>6 DEF Submit
<1>7. CASE Request \/ RequestLost
  BY <1>2, <1>7 DEF Request, RequestLost
<1>8. CASE ToggleWrites
  BY <1>2, <1>8 DEF ToggleWrites
<1>9. ASSUME NEW c \in Ids, Deleted(c) \/ EditedElsewhere(c)
      PROVE  dialog' = dialog /\ mode' = mode /\ save' = save /\ tried' = tried
  BY <1>9 DEF Deleted, EditedElsewhere, pageVars
<1>10. CASE UNCHANGED vars
  BY <1>2, <1>10 DEF vars, pageVars
<1>11. CASE AttachAppends
  BY <1>2, <1>11 DEF AttachAppends
<1>12. CASE AttachReads \/ StrayAppends \/ \E c \in Ids : AttachedElsewhere(c)
  BY <1>2, <1>12 DEF AttachReads, StrayAppends, AttachedElsewhere, pageVars
<1> QED
  BY <1>1, <1>2, <1>3, <1>4, <1>5, <1>6, <1>7, <1>8, <1>9, <1>10, <1>11, <1>12 DEF Next

\* While it runs, an attach and the client it is of stay in step.
LEMMA OursNext == Known /\ OursInv /\ [Next]_vars => OursInv'
<1> SUFFICES ASSUME Known, OursInv, [Next]_vars,
                    ours' # None, NEW k, k = ours'.client, k \notin touched'
             PROVE  /\ ours'.sub = rec'[k].sub /\ ours'.on = rec'[k].on
                    /\ save'.attach \subseteq AttachedTo(k)' \cup ours'.todo
  BY DEF OursInv, AttachedTo
<1>1. CASE AttachReads
  <2>1. PICK c : c = Holder(save.email)
    OBVIOUS
  <2>2. c \in Live /\ rec \in Tables /\ save.attach \in SUBSET Inbounds
    BY <1>1, <2>1, HolderFacts, SaveTypes DEF AttachReads, Known, Basics
  <2>3. rec' = rec /\ save' = save /\ ours' = Reads(c, save.attach)
    BY <1>1, <2>1 DEF AttachReads, pageVars
  <2>4. /\ ours'.client = c /\ ours'.todo = save.attach \ AttachedTo(c)
        /\ ours'.sub = rec[c].sub /\ ours'.on = rec[c].on
    BY <2>2, <2>3, JobTypes
  <2>5. AttachedTo(c)' = AttachedTo(c)
    BY <2>3 DEF AttachedTo
  <2> QED  BY <2>3, <2>4, <2>5
<1>2. CASE ~AttachReads
  <2>1. PICK c : c = ours.client
    OBVIOUS
  <2>2. ours # None
    BY <1>2 DEF Next, vars, pageVars, AddClick, TypeField, Type, Cancel, Submit, Request,
           RequestLost, Saved, ToggleWrites, EditClick, Hydrated, ToggleClick, Deleted,
           EditedElsewhere, AttachAppends, StrayAppends, AttachedElsewhere, Beside
  <2>3. /\ c \in Live /\ ours \in Jobs /\ save # None /\ save.email = rec[c].email
        /\ rec \in Tables
    BY <2>1, <2>2 DEF Known, Basics, TypeOK, JobModes, Running, Tables
  <2>4. CASE AttachAppends
    <3>2. save' = save /\ ours'.client = c /\ k = c
      BY <2>1, <2>3, <2>4, AppendFacts DEF Jobs
    <3>1. c \notin touched
      BY <2>4, <3>2 DEF AttachAppends
    <3>3. /\ rec'[c].sub = rec[c].sub /\ rec'[c].on = rec[c].on
          /\ \A i \in Inbounds : i \in AttachedTo(c) \cup ours.todo =>
               i \in AttachedTo(c)' \cup ours'.todo
          /\ ours'.sub = ours.sub /\ ours'.on = ours.on
      BY <2>1, <2>4, <3>1, OwnAppend
    <3>4. /\ ours.sub = rec[c].sub /\ ours.on = rec[c].on
          /\ save.attach \subseteq AttachedTo(c) \cup ours.todo
      BY <2>1, <2>2, <3>1 DEF OursInv
    <3>5. save.attach \subseteq Inbounds
      BY <2>3, SaveTypes DEF Known, Basics
    <3> QED  BY <3>2, <3>3, <3>4, <3>5
  <2>5. CASE ~AttachAppends
    <3>1. /\ ours'.client = c /\ ours'.todo = ours.todo /\ k = c
          /\ ours'.sub = ours.sub /\ ours'.on = ours.on
      <4>1. ASSUME NEW d \in Ids, AttachedElsewhere(d)
            PROVE  /\ ours'.client = ours.client /\ ours'.todo = ours.todo
                   /\ ours'.sub = ours.sub /\ ours'.on = ours.on
        <5>1. d \in Live /\ ours' = Beside(ours, d)
          BY <4>1 DEF AttachedElsewhere
        <5>2. CASE ours.client # d
          BY <2>2, <5>1, <5>2 DEF Beside
        <5>3. CASE ours.client = d
          <6>1. ours' = [ours EXCEPT !.beside = TRUE]
            BY <2>2, <5>1, <5>3 DEF Beside
          <6> QED  BY <2>3, <6>1 DEF Jobs
        <5> QED  BY <5>2, <5>3
      <4>2. \/ ours' = ours
            \/ \E d \in Ids : AttachedElsewhere(d)
        BY <1>2, <2>5 DEF Next, vars, pageVars, jobVars, AddClick, TypeField, Type, Cancel,
           Submit, Request, RequestLost, Saved, ToggleWrites, EditClick, Hydrated,
           ToggleClick, Deleted, EditedElsewhere, StrayAppends
      <4> QED  BY <2>1, <4>1, <4>2
    <3>2. save' = save
      BY <1>2, <2>2, <2>3, <2>5 DEF Next, vars, pageVars, AddClick, TypeField, Type, Cancel,
           Submit, Request, RequestLost, Saved, ToggleWrites, EditClick, Hydrated, ToggleClick,
           Deleted, EditedElsewhere, StrayAppends, AttachedElsewhere, Known, JobModes
    <3>3. c \notin touched
      <4>1. ASSUME NEW d \in Ids, EditClick(d) PROVE c \notin touched
        BY <2>3, <3>1, <4>1 DEF EditClick
      <4> QED  BY <3>1, <4>1, TouchedGrows
    <3>4. rec'[c] = rec[c]
      BY <2>3, <2>5, <3>1, OthersStayAway DEF Request, RequestLost
    <3>5. AttachedTo(c)' = AttachedTo(c)
      BY <2>3, <3>4, SameRow
    <3> QED  BY <2>1, <2>2, <3>1, <3>2, <3>3, <3>4, <3>5 DEF OursInv
  <2> QED  BY <2>4, <2>5
<1> QED  BY <1>1, <1>2

LEMMA DialogNext ==
  Known /\ HydrateInv /\ DialogInv /\ OursInv /\ SaveInv /\ [Next]_vars => DialogInv'
<1> SUFFICES ASSUME Known, HydrateInv, DialogInv, OursInv, SaveInv, [Next]_vars,
                    dialog'.client # None, dialog'.client.of \notin touched'
             PROVE  DialogInv'
  BY DEF DialogInv
<1>1. PICK x, c : x = dialog'.client /\ c = x.of
  OBVIOUS
<1>2. SUFFICES Shown(x, c)'
  BY <1>1 DEF DialogInv
<1>3. ASSUME NEW d \in Ids, Hydrated(d), x = hydrate[d]
      PROVE  Shown(x, c)'
  <2>1. hydrate[d] # None /\ c = d /\ d \notin touched
    BY <1>1, <1>3 DEF Hydrated, Known, Basics, Modes
  <2>2. /\ c \in Live /\ rec[c].email = x.email /\ AttachedTo(c) = x.ibs
        /\ save # None => save.target # c
    BY <1>3, <2>1 DEF HydrateInv
  <2>3. rec' = rec /\ save' = save
    BY <1>3 DEF Hydrated
  <2> QED  BY <2>2, <2>3 DEF Shown, Live, AttachedTo
<1>4. CASE /\ x = dialog.client /\ mode' = mode /\ ~\E d \in Ids : EditClick(d)
           /\ \/ Submit \/ Request \/ RequestLost \/ AttachAppends
              \/ save' = save /\ tried' = tried
  <2>1. c \notin touched /\ c \in Ids /\ x \in Forms
    BY <1>1, <1>4, TouchedGrows DEF Known, Basics, Modes, TypeOK
  <2>2. Shown(x, c)
    BY <1>1, <1>4, <2>1 DEF DialogInv
  <2>3. c \in Live /\ c # None
    BY <2>1, <2>2 DEF Shown
  <2>4. CASE Submit
    <3>1. rec' = rec /\ tried' = tried /\ save = None
      BY <2>4 DEF Submit
    <3>2. AttachedTo(c)' = AttachedTo(c) /\ Called(x.email)' = Called(x.email) /\ c \in Live'
      BY <2>3, <3>1 DEF AttachedTo, Called, Live
    <3>3. Busy(c) = {}
      BY <3>1 DEF Busy
    <3>4. /\ mode = "add" => save'.target = None
          /\ mode = "edit" => save'.email = x.email /\ save'.pc # "create"
          /\ mode \in {"add", "edit"}
      BY <1>4, <2>4, SubmitFacts
    <3> QED  BY <1>4, <2>2, <2>3, <3>1, <3>2, <3>3, <3>4 DEF Shown
  <2>5. CASE (Request \/ RequestLost) /\ save.target = c
    <3>1. /\ c \in Live' /\ save.pc # "create" /\ save # None /\ save.pc # "done"
          /\ \A i \in Inbounds : i \notin save.attach \cup save.detach =>
               (i \in AttachedTo(c)' <=> i \in AttachedTo(c))
          /\ Called(x.email) = {} => rec' = rec
          /\ rec[c].email = x.email => rec'[c].email = x.email \/ Called(x.email)' = {}
      <4>1. save # None /\ save.pc # "done" /\ save.email = x.email
        BY <2>2, <2>5, RequestWrites DEF Shown
      <4> QED  BY <2>1, <2>5, <4>1, OwnRequest
    <3>2. save.email = x.email /\ mode = "edit"
      BY <2>2, <2>5, <3>1 DEF Shown
    <3>3. \/ save' = None /\ tried' = tried \cup save.attach \cup save.detach
          \/ /\ save' # None /\ tried' = tried /\ save'.target = c /\ save'.email = save.email
             /\ save'.attach = save.attach /\ save'.detach = save.detach
             /\ save'.pc # "create"
      <4>1. Following # "create"
        BY <3>1, FollowingFacts DEF Known, Basics
      <4> QED  BY <2>5, <4>1, RequestFacts DEF Refusal, Success, RequestLost, Attempted
    <3>4. \A i \in Inbounds : i \notin tried' /\ i \notin Busy(c)' =>
            i \notin tried /\ i \notin save.attach \cup save.detach
      BY <3>3 DEF Busy
    <3>5. \A i \in Inbounds : i \notin tried' /\ i \notin Busy(c)' =>
            (i \in AttachedTo(c)' <=> i \in x.ibs)
      BY <2>2, <3>1, <3>4 DEF Shown, Busy
    <3>6. rec'[c].email = x.email \/ Called(x.email)' = {}
      <4>1. CASE rec[c].email = x.email
        BY <3>1, <4>1
      <4>2. CASE rec[c].email # x.email
        <5>1. rec' = rec /\ Called(x.email) = {}
          BY <2>2, <3>1, <3>2, <4>2 DEF Shown
        <5> QED  BY <5>1 DEF Called, Live
      <4> QED  BY <4>1, <4>2
    <3> QED  BY <1>4, <3>1, <3>2, <3>3, <3>5, <3>6 DEF Shown
  <2>6. CASE (Request \/ RequestLost) /\ save.target # c
    <3>1. rec'[c] = rec[c]
      BY <1>1, <2>3, <2>6, OthersStayAway DEF Request, RequestLost, AttachAppends, Known,
         JobModes
    <3>2. AttachedTo(c)' = AttachedTo(c) /\ c \in Live'
      BY <2>3, <3>1, SameRow
    <3>3. \/ save' = None /\ tried \subseteq tried'
          \/ /\ save' # None /\ tried' = tried /\ save'.target = save.target
             /\ save'.email = save.email /\ save'.pc # "create" /\ save # None
      <4>1. save # None /\ save.pc # "done"
        BY <2>6 DEF Request, RequestLost
      <4>2. Following # "create"
        BY <4>1, FollowingFacts DEF Known, Basics
      <4> QED  BY <2>6, <4>1, <4>2, RequestFacts DEF Refusal, Success, RequestLost, Attempted
    <3>4. Busy(c) = {}
      BY <2>6 DEF Busy
    <3>5. rec[c].email # x.email => Called(x.email)' = {}
      BY <2>2, NobodyCalled DEF Shown
    <3> QED  BY <1>4, <2>2, <2>6, <3>1, <3>2, <3>3, <3>4, <3>5 DEF Shown
  <2>7. CASE save' = save /\ tried' = tried /\ ~(Request \/ RequestLost \/ AttachAppends)
    <3>1. rec'[c] = rec[c]
      BY <1>1, <2>3, <2>7, OthersStayAway
    <3>2. AttachedTo(c)' = AttachedTo(c) /\ c \in Live'
      BY <2>3, <3>1, SameRow
    <3>3. rec[c].email # x.email => Called(x.email)' = {}
      BY <2>2, NobodyCalled DEF Shown
    <3>4. Busy(c)' = Busy(c)
      BY <2>7 DEF Busy
    <3> QED  BY <1>4, <2>2, <2>7, <3>1, <3>2, <3>3, <3>4 DEF Shown
  <2>8. CASE AttachAppends /\ ~(Request \/ RequestLost)
    <3>1. /\ save # None /\ save.pc = "attach"
          /\ \/ save' = None /\ tried' = tried \cup save.attach \cup save.detach
             \/ save' = save /\ tried' = tried
      BY <2>8, AppendFacts DEF AttachAppends, Known, JobModes, Attempted
    <3>2. /\ c \in Live' /\ rec'[c].email = rec[c].email
          /\ \A i \in Inbounds : i \notin Busy(c) =>
               (i \in AttachedTo(c)' <=> i \in AttachedTo(c))
      <4>1. CASE ours.client = c /\ save.target = c
        <5>1. /\ c \in Live' /\ rec'[c].email = rec[c].email
              /\ \A i \in Inbounds : i \notin save.attach =>
                   (i \in AttachedTo(c)' <=> i \in AttachedTo(c))
          BY <2>1, <2>8, <4>1, OwnAppend
        <5>2. \A i \in Inbounds : i \in save.attach => i \in Busy(c)
          BY <3>1, <4>1 DEF Busy
        <5> QED  BY <5>1, <5>2
      <4>2. CASE ~(ours.client = c /\ save.target = c)
        <5>1. rec'[c] = rec[c]
          BY <1>1, <2>3, <2>8, <4>2, OthersStayAway
        <5> QED  BY <2>3, <5>1, SameRow
      <4> QED  BY <4>1, <4>2
    <3>3. rec[c].email # x.email => Called(x.email)' = {}
      BY <2>2, NobodyCalled DEF Shown
    <3>4. \A i \in Inbounds : i \notin tried' /\ i \notin Busy(c)' =>
            i \notin tried /\ i \notin Busy(c)
      BY <3>1 DEF Busy
    <3>5. \A i \in Inbounds : i \notin tried' /\ i \notin Busy(c)' =>
            (i \in AttachedTo(c)' <=> i \in x.ibs)
      BY <2>2, <3>2, <3>4 DEF Shown
    <3> QED  BY <1>4, <2>2, <3>1, <3>2, <3>3, <3>5 DEF Shown
  <2> QED  BY <1>4, <2>4, <2>5, <2>6, <2>7, <2>8
<1> QED  BY <1>1, <1>3, <1>4, DialogSteps

\* What a request of an untouched client's own save has done to it when its answer
\* is that it was carried out.
LEMMA SuccessFacts ==
  ASSUME Known, OursInv, SaveInv, Request, Success, NEW c \in Ids, save.target = c,
         c \notin touched, NEW e, e = save.email
  PROVE  /\ c \in Called(e) /\ c = Holder(e) /\ rec[c].email = e /\ c \in Live'
         /\ save.pc = "update" =>
              /\ rec'[c].email = save.form.email
              /\ AttachedTo(c)' = AttachedTo(c)
              /\ AttachedTo(c) # {} =>
                   /\ ~Wedged(c)' /\ rec'[c].sub = save.form.sub /\ rec'[c].on = save.form.on
         /\ save.pc # "update" =>
              /\ rec'[c].email = e /\ Wedged(c)' = Wedged(c)
              /\ rec'[c].sub = rec[c].sub /\ rec'[c].on = rec[c].on
         /\ save.pc = "attach" => /\ AttachedTo(c)' = AttachedTo(c)
                                  /\ save.attach \subseteq AttachedTo(c)
         /\ save.pc = "detach" => AttachedTo(c)' = AttachedTo(c) \ save.detach
         /\ save.pc = "links" => /\ AttachedTo(c)' = AttachedTo(c)
                                 /\ rec'[c].links = save.form.links
<1>1. /\ save # None /\ save.pc \notin {"create", "done"} /\ c \in Live /\ c \in Live'
      /\ rec \in Tables /\ Unique
  BY OwnRequest, RequestWrites
<1>2. PICK U : U = Answer
  OBVIOUS
<1>3. Rewritten(U) /\ U.ok /\ rec' = U.rec
  BY <1>1, <1>2, RewriteAnswer DEF Success, Request
<1>4. Called(e) # {}
  BY <1>3 DEF Rewritten, Bounded
<1>5. PICK p : p = save.form
  OBVIOUS
<1>6. /\ p \in Forms /\ p.links \in BOOLEAN /\ save.attach \in SUBSET Inbounds
      /\ save.detach \in SUBSET Inbounds
      /\ save.pc \in {"update", "attach", "detach", "links"}
  BY <1>1, <1>5, SaveTypes DEF Known, Basics, Requests
<1>7. rec[c].email = e
  BY <1>1, <1>4 DEF SaveInv, Going
<1>8. c \in Called(e) /\ c = Holder(e)
  BY <1>1, <1>7, HolderFacts
<1>9. c \in Ids /\ rec[c] \in Clients
  BY <1>1 DEF Tables, Live
<1>10. CASE save.pc = "update"
  <2>1. U = Update(e, p)
    BY <1>2, <1>5, <1>10 DEF Answer
  <2>2. Updates(U, e, p)
    BY <1>1, <1>6, <2>1, UpdateFacts
  <2>3. /\ rec'[c].held = rec[c].held /\ rec'[c].email = p.email
        /\ AttachedTo(c) # {} =>
             rec'[c].name = p.email /\ rec'[c].sub = p.sub /\ rec'[c].on = p.on
    BY <1>3, <1>8, <2>2 DEF Updates
  <2>4. AttachedTo(c)' = AttachedTo(c)
    BY <2>3 DEF AttachedTo
  <2>5. AttachedTo(c) # {} => ~Wedged(c)'
    BY <2>3 DEF Wedged
  <2> QED  BY <1>1, <1>5, <1>7, <1>8, <1>10, <2>3, <2>4, <2>5
<1>11. CASE save.pc = "attach"
  <2>1. rec' = rec
    BY <1>2, <1>3, <1>4, <1>11 DEF Answer, Attached, Done
  <2>2. AttachedTo(c)' = AttachedTo(c) /\ Wedged(c)' = Wedged(c) /\ rec'[c] = rec[c]
    BY <2>1 DEF AttachedTo, Wedged
  <2>3. ours # None /\ ours.todo = {}
    BY <1>4, <1>11 DEF Request
  <2>4. ours.client \in Live /\ rec[ours.client].email = e
    BY <2>3 DEF Known, JobModes, Running
  <2>5. ours.client = c
    BY <1>1, <1>7, <2>4 DEF Unique
  <2>6. save.attach \subseteq AttachedTo(c)
    BY <2>3, <2>5 DEF OursInv
  <2> QED  BY <1>1, <1>7, <1>8, <1>11, <2>2, <2>6
<1>12. CASE save.pc = "detach"
  <2>1. U = Detach(e, save.detach)
    BY <1>2, <1>12 DEF Answer
  <2>2. /\ \A f \in {"email", "name", "sub", "cred", "on", "links"} : rec'[c][f] = rec[c][f]
        /\ rec'[c].held = [i \in Inbounds |-> IF i \in save.detach THEN 0 ELSE rec[c].held[i]]
    BY <1>1, <1>3, <1>6, <1>8, <2>1, DetachFacts
  <2>3. /\ rec'[c].email = rec[c].email /\ rec'[c].name = rec[c].name
        /\ rec'[c].sub = rec[c].sub /\ rec'[c].on = rec[c].on
    BY <2>2
  <2>4. \A i \in Inbounds : rec'[c].held[i] > 0 <=> rec[c].held[i] > 0 /\ i \notin save.detach
    <3>1. \A i \in Inbounds : rec[c].held[i] \in 0 .. 2
      BY <1>9 DEF Clients
    <3> QED  BY <2>2, <3>1
  <2>5. AttachedTo(c)' = AttachedTo(c) \ save.detach
    BY <2>4 DEF AttachedTo
  <2>6. Wedged(c)' = Wedged(c)
    BY <2>3 DEF Wedged
  <2> QED  BY <1>1, <1>7, <1>8, <1>12, <2>3, <2>5, <2>6
<1>13. CASE save.pc = "links"
  <2>1. U = SetExternalLinks(e, p.links)
    BY <1>2, <1>5, <1>13 DEF Answer
  <2>2. /\ \A f \in {"email", "name", "sub", "cred", "on", "held"} : rec'[c][f] = rec[c][f]
        /\ rec'[c].links = p.links
    BY <1>1, <1>3, <1>6, <1>8, <2>1, LinksFacts
  <2>3. /\ rec'[c].email = rec[c].email /\ rec'[c].name = rec[c].name
        /\ rec'[c].sub = rec[c].sub /\ rec'[c].on = rec[c].on /\ rec'[c].held = rec[c].held
    BY <2>2
  <2>4. Wedged(c)' = Wedged(c) /\ AttachedTo(c)' = AttachedTo(c)
    BY <2>3 DEF Wedged, AttachedTo
  <2> QED  BY <1>1, <1>5, <1>7, <1>8, <1>13, <2>2, <2>3, <2>4
<1> QED  BY <1>6, <1>10, <1>11, <1>12, <1>13

LEMMA SaveNext ==
  Known /\ DialogInv /\ OursInv /\ SaveInv /\ [Next]_vars => SaveInv'
<1> SUFFICES ASSUME Known, DialogInv, OursInv, SaveInv, [Next]_vars,
                    save' # None, save'.target # None, save'.target \notin touched'
             PROVE  SaveInv'
  BY DEF SaveInv
<1>1. PICK c : c = save'.target
  OBVIOUS
<1>2. SUFFICES Going(c)'
  BY <1>1 DEF SaveInv
<1>3. CASE Submit
  <2>1. /\ save = None /\ rec' = rec /\ tried' = tried /\ touched' = touched
        /\ mode = "edit" /\ dialog.client \in Forms /\ dialog.client # None
        /\ c = dialog.client.of /\ c \in Ids
        /\ save'.email = dialog.client.email /\ save'.pc = "update"
        /\ save'.form = dialog.form
        /\ save'.attach = dialog.form.ibs \ dialog.client.ibs
        /\ save'.detach = dialog.client.ibs \ dialog.form.ibs
        /\ save'.clean => tried \subseteq save'.attach \cup save'.detach
    BY <1>1, <1>3, SubmitFacts DEF Submit
  <2>2. Shown(dialog.client, c) /\ Busy(c) = {}
    BY <1>1, <2>1 DEF DialogInv, Busy
  <2>3. /\ c \in Live
        /\ \A i \in Inbounds : i \notin tried => (i \in AttachedTo(c) <=> i \in dialog.client.ibs)
        /\ rec[c].email = dialog.client.email \/ Called(dialog.client.email) = {}
    BY <2>2 DEF Shown
  <2>4. c \in Live' /\ AttachedTo(c)' = AttachedTo(c)
    BY <2>1, <2>3, SameRow
  <2>5. rec'[c].email = save'.email \/ Called(save.email)' = {}
    BY <2>1, <2>3 DEF Called, Live
  <2>6. save'.clean => \A i \in Inbounds : i \notin save'.attach \cup save'.detach =>
          (i \in AttachedTo(c)' <=> i \in save'.form.ibs)
    BY <2>1, <2>3, <2>4
  <2>7. save'.attach \subseteq save'.form.ibs /\ save'.detach \cap save'.form.ibs = {}
    BY <2>1
  <2> QED  BY <2>1, <2>4, <2>5, <2>6, <2>7 DEF Going
<1>4. CASE Request
  <2>1. Success /\ save # None /\ save.pc # "done" /\ touched \subseteq touched'
    BY <1>4, RequestFacts DEF Refusal, Request
  <2>2. save.target = c /\ c \notin touched /\ c \in Ids
    BY <1>1, <2>1, SaveTypes DEF Success, Known, Basics
  <2>3. Going(c)
    BY <1>1, <2>1, <2>2 DEF SaveInv, Success
  <2>4. PICK e : e = save.email
    OBVIOUS
  <2>5. /\ save'.email = e /\ save'.form = save.form /\ save'.pc = Following
        /\ save'.attach = save.attach /\ save'.detach = save.detach /\ save'.clean = save.clean
        /\ save.pc # "update" => save'.kept = save.kept
    BY <2>1, <2>4 DEF Success
  <2>6. save.pc = "update" => save'.kept = (AttachedTo(c) # {})
    BY <1>4, <2>1, <2>2, <2>4, SuccessFacts DEF Success
  <2>7. /\ c \in Called(e) /\ rec[c].email = e /\ c \in Live'
        /\ save.pc = "update" =>
             /\ rec'[c].email = save.form.email
             /\ AttachedTo(c)' = AttachedTo(c)
             /\ AttachedTo(c) # {} =>
                  /\ ~Wedged(c)' /\ rec'[c].sub = save.form.sub /\ rec'[c].on = save.form.on
        /\ save.pc # "update" =>
             /\ rec'[c].email = e /\ Wedged(c)' = Wedged(c)
             /\ rec'[c].sub = rec[c].sub /\ rec'[c].on = rec[c].on
        /\ save.pc = "attach" => /\ AttachedTo(c)' = AttachedTo(c)
                                 /\ save.attach \subseteq AttachedTo(c)
        /\ save.pc = "detach" => AttachedTo(c)' = AttachedTo(c) \ save.detach
        /\ save.pc = "links" => /\ AttachedTo(c)' = AttachedTo(c)
                                /\ rec'[c].links = save.form.links
    BY <1>4, <2>1, <2>2, <2>4, SuccessFacts
  <2>8. /\ \A i \in Inbounds : i \notin save.attach \cup save.detach =>
             (i \in AttachedTo(c)' <=> i \in AttachedTo(c))
        /\ rec'[c].email = e \/ Called(e)' = {}
    BY <1>4, <2>2, <2>4, <2>7, OwnRequest
  <2>9. Called(save.email)' = Called(e)'
    BY <2>5 DEF Called, Live
  <2>10. /\ save.attach \subseteq save.form.ibs /\ save.detach \cap save.form.ibs = {}
         /\ save.pc \in {"update", "attach", "detach", "links"}
         /\ save.pc # "update" /\ save.kept => Written(c)
    BY <2>1, <2>3, SaveTypes DEF Going, Known, Basics, Requests
  <2>11. Following \notin {"create", "update"}
    BY <2>1, FollowingFacts DEF Known, Basics
  <2>12. ASSUME save'.kept PROVE Written(c)'
    <3>1. CASE save.pc = "update" /\ save.form.email # e
      <4>1. Called(e)' = {} /\ Following # "done"
        BY <2>1, <2>7, <2>8, <3>1, FollowingFacts DEF Known, Basics
      <4> QED  BY <2>5, <2>9, <3>1, <4>1 DEF Written
    <3>2. CASE save.pc = "update" /\ save.form.email = e
      <4>1. /\ Following \in {"attach", "detach", "links"}
            /\ Following # "attach" => save.attach = {}
            /\ Following = "links" => save.detach = {}
        BY <2>1, <3>2, FollowingFacts DEF Known, Basics
      <4>2. AttachedTo(c) # {}
        BY <2>6, <2>12, <3>2
      <4> QED  BY <2>5, <2>7, <3>2, <4>1, <4>2 DEF Written
    <3>3. CASE save.pc # "update"
      <4>1. Written(c)
        BY <2>5, <2>10, <2>12, <3>3
      <4>2. /\ save.form.email = e /\ ~Wedged(c)
            /\ rec[c].email = e /\ rec[c].sub = save.form.sub /\ rec[c].on = save.form.on
            /\ save.pc # "attach" => save.attach \subseteq AttachedTo(c)
            /\ save.pc \in {"links", "done"} => save.detach \cap AttachedTo(c) = {}
        BY <2>4, <2>7, <4>1 DEF Written
      <4>3. CASE save.pc = "attach"
        <5>1. Following \in {"detach", "links"} /\ (Following = "links" => save.detach = {})
          BY <2>1, <4>3, FollowingFacts DEF Known, Basics
        <5> QED  BY <2>5, <2>7, <4>2, <4>3, <5>1 DEF Written
      <4>4. CASE save.pc = "detach"
        <5>1. Following = "links"
          BY <2>1, <4>4, FollowingFacts DEF Known, Basics
        <5> QED  BY <2>5, <2>7, <2>10, <4>2, <4>4, <5>1 DEF Written
      <4>5. CASE save.pc = "links"
        <5>1. Following = "done"
          BY <2>1, <4>5, FollowingFacts DEF Known, Basics
        <5> QED  BY <2>5, <2>7, <4>2, <4>5, <5>1 DEF Written
      <4> QED  BY <2>10, <3>3, <4>3, <4>4, <4>5
    <3> QED  BY <3>1, <3>2, <3>3
  <2>13. save'.clean => \A i \in Inbounds : i \notin save'.attach \cup save'.detach =>
           (i \in AttachedTo(c)' <=> i \in save'.form.ibs)
    BY <2>3, <2>5, <2>8 DEF Going
  <2> QED  BY <2>5, <2>7, <2>8, <2>9, <2>10, <2>11, <2>12, <2>13 DEF Going
<1>5. CASE ~Submit /\ ~Request
  <2>1. save' = save /\ ~RequestLost /\ save # None
    <3>1. CASE AttachAppends
      BY <1>5, <3>1, AppendFacts DEF RequestLost, Known, JobModes, AttachAppends
    <3>2. CASE ~AttachAppends
      BY <1>5, <3>2 DEF Next, vars, pageVars, AddClick, TypeField, Type, Cancel, EditClick,
           Hydrated, RequestLost, Saved, ToggleWrites, ToggleClick, Deleted, EditedElsewhere,
           AttachReads, StrayAppends, AttachedElsewhere
    <3> QED  BY <3>1, <3>2
  <2>2. c \notin touched
    <3>1. ASSUME NEW d \in Ids, EditClick(d) PROVE c \notin touched
      BY <1>1, <2>1, <3>1 DEF EditClick
    <3> QED  BY <1>1, <3>1, TouchedGrows
  <2>3. Going(c) /\ c \in Live
    BY <1>1, <2>1, <2>2 DEF SaveInv, Going
  <2>4. /\ c \in Live' /\ Wedged(c)' = Wedged(c) /\ rec'[c].email = rec[c].email
        /\ rec'[c].sub = rec[c].sub /\ rec'[c].on = rec[c].on
        /\ save.pc = "done" => rec'[c].links = rec[c].links
        /\ \A i \in Inbounds :
             /\ save.pc # "attach" \/ i \notin save.attach =>
                  (i \in AttachedTo(c)' <=> i \in AttachedTo(c))
    <3>1. CASE AttachAppends /\ ours.client = c
      <4>1. save.pc = "attach"
        BY <3>1 DEF AttachAppends, Known, JobModes
      <4> QED  BY <2>2, <3>1, <4>1, OwnAppend
    <3>2. CASE ~(AttachAppends /\ ours.client = c)
      <4>1. rec'[c] = rec[c]
        BY <1>1, <1>5, <2>1, <2>3, <3>2, OthersStayAway
      <4> QED  BY <2>3, <4>1, SameRow
    <3> QED  BY <3>1, <3>2
  <2>5. /\ save.attach \subseteq Inbounds /\ save.detach \subseteq Inbounds
        /\ save.attach \cap save.detach = {}
    BY <2>1, <2>3, SaveTypes DEF Known, Basics, Going
  <2>6. PICK e : e = save.email
    OBVIOUS
  <2>7. Called(e) = {} => Called(e)' = {}
    BY <2>3, <2>6, NobodyCalled DEF Going
  <2>8. Called(save.email)' = Called(e)'
    BY <2>1, <2>6 DEF Called, Live
  <2>9. Written(c) => Written(c)'
    <3>1. /\ save.pc # "attach" =>
               (save.attach \subseteq AttachedTo(c) => save.attach \subseteq AttachedTo(c)')
          /\ save.pc \in {"links", "done"} =>
               (save.detach \cap AttachedTo(c) = {} => save.detach \cap AttachedTo(c)' = {})
      BY <2>4, <2>5
    <3> QED  BY <2>1, <2>4, <2>6, <2>7, <2>8, <3>1 DEF Written
  <2>10. save.clean => \A i \in Inbounds : i \notin save.attach \cup save.detach =>
           (i \in AttachedTo(c)' <=> i \in save.form.ibs)
    BY <2>3, <2>4 DEF Going
  <2> QED  BY <2>1, <2>3, <2>4, <2>6, <2>7, <2>8, <2>9, <2>10 DEF Going
<1> QED  BY <1>3, <1>4, <1>5

PageInv == Known /\ HydrateInv /\ DialogInv /\ OursInv /\ SaveInv

\* When the save of an edited client reports success, what its dialog showed is what
\* onSave has had stored, over retries of saves that were refused or lost half way,
\* late answers and a dialog that was opened for somebody else meanwhile.
THEOREM SavesWhatIsShown == Spec => []SavedAsShown
<1>1. Init => PageInv
  <2> SUFFICES ASSUME Init PROVE PageInv
    OBVIOUS
  <2>1. Known
    BY KnownInit
  <2>2. HydrateInv /\ DialogInv /\ OursInv /\ SaveInv
    BY DEF Init, Shut, HydrateInv, DialogInv, OursInv, SaveInv
  <2> QED  BY <2>1, <2>2 DEF PageInv
<1>2. PageInv /\ [Next]_vars => PageInv'
  BY KnownNext, HydrateNext, DialogNext, OursNext, SaveNext DEF PageInv
<1>3. PageInv => SavedAsShown
  <2> SUFFICES ASSUME PageInv, save # None, save.pc = "done", save.kept, save.clean,
                      save.target \notin touched
               PROVE  LET c == save.target
                          shown == save.form
                      IN  /\ c \in Live /\ ~Wedged(c)
                          /\ rec[c].email = shown.email /\ rec[c].sub = shown.sub
                          /\ rec[c].on = shown.on /\ rec[c].links = shown.links
                          /\ AttachedTo(c) = shown.ibs
    BY DEF SavedAsShown
  <2>1. PICK c : c = save.target
    OBVIOUS
  <2>2. c # None
    BY <2>1 DEF PageInv, Known, Basics, SaveModes
  <2>3. Going(c)
    BY <2>1, <2>2 DEF PageInv, SaveInv
  <2>4. Written(c)
    BY <2>3 DEF Going
  <2>5. /\ save.form.email = save.email /\ ~Wedged(c)
        /\ rec[c].email = save.email /\ rec[c].sub = save.form.sub
        /\ rec[c].on = save.form.on /\ rec[c].links = save.form.links
        /\ save.attach \subseteq AttachedTo(c) /\ save.detach \cap AttachedTo(c) = {}
    BY <2>4 DEF Written
  <2>6. /\ AttachedTo(c) \subseteq Inbounds /\ save.form.ibs \subseteq Inbounds
        /\ save.attach \subseteq Inbounds /\ save.detach \subseteq Inbounds
    BY SaveTypes DEF PageInv, Known, Basics, AttachedTo, Forms
  <2>7. AttachedTo(c) = save.form.ibs
    BY <2>3, <2>5, <2>6 DEF Going
  <2> QED  BY <2>1, <2>3, <2>5, <2>7 DEF Going
<1> QED
  BY <1>1, <1>2, <1>3, PTL DEF Spec

=============================================================================
