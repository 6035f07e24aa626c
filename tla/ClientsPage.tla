---------------------------- MODULE ClientsPage ----------------------------
(***************************************************************************)
(* The Clients page of the panel: rows that are edited, switched and       *)
(* deleted, and the one dialog (ClientFormModal) that adds and edits.  A   *)
(* click on edit fetches the client's secrets first and opens the dialog   *)
(* when they arrive; a save is a row of requests, each of which the        *)
(* ClientService of the panel carries out or refuses, and any of which can *)
(* be lost on the way there or back.  Attach reads the client once and     *)
(* then appends it to one inbound after the other, beside everything else. *)
(***************************************************************************)
EXTENDS Naturals, FiniteSets

CONSTANTS
  Ids,        \* rows of the table of clients
  Names,      \* e-mails and subscription ids; a row in use is named as its client
  Fresh,      \* the random e-mail, subscription id and credentials of a new client
  Inbounds,
  Keyed,      \* the Shadowsocks-2022 ones, which take passwords of one shape only
  None,
  MaxEdits,   \* fields typed into, in all dialogs together
  MaxMishaps  \* requests lost, adds, switches turned and changes by other sessions

ASSUME ClientsAssumption ==
  /\ Fresh \notin Names /\ None \notin Names \cup Ids \cup {Fresh}
  /\ Keyed \subseteq Inbounds
  /\ MaxEdits \in Nat /\ MaxMishaps \in Nat

VARIABLES
  rec,      \* the stored client of each row, None where there is none
  hydrate,  \* answers to clicks on edit that have not arrived
  mode,     \* "add" or "edit", set by the last click
  dialog,   \* open or not, the client it was opened for, the form
  save,     \* the requests of the last submit, None once they have returned
  toggle,   \* the snapshot a click on a row's switch is going to write back
  ours,     \* the attach of that save in the panel, between its read and its answer
  stray,    \* an attach nobody here waits for: its answer is lost, or not for us
  edits, mishaps,
  touched,  \* clients written by somebody else since they were fetched for editing
  tried     \* inbounds a failed save of this dialog may have changed already

pageVars == <<hydrate, mode, dialog, save, toggle>>
jobVars == <<ours, stray>>
vars == <<rec, pageVars, jobVars, edits, mishaps, touched, tried>>

Live == {c \in Ids : rec[c] # None}

\* Rows the next new client can get: never one of those there were.
Spare == Ids \ (Names \cup Live)

\* GetRecordByEmail.
Called(email) == {c \in Live : rec[c].email = email}
Holder(email) == CHOOSE c \in Called(email) : TRUE

\* The inbounds whose settings have an entry of the client.
AttachedTo(c) == {i \in Inbounds : rec[c].held[i] > 0}

\* A rename that was refused after the record had been written: the inbounds
\* know the client under another e-mail.
Wedged(c) == rec[c].email # rec[c].name

Twin(c) == \E i \in Inbounds : rec[c].held[i] > 1

\* Bound: with a client in one of these two states, whose entries no longer match
\* its record, nothing but another update of a wedged client is explored.
OrderlyBut(email) ==
  \A c \in Live : ~Twin(c) /\ (Wedged(c) => rec[c].email = email)

\* Clients that are being attached.  Bound: meanwhile they are not deleted, renamed or
\* added once more.
Attaching == {job.client : job \in {ours, stray} \ {None}}

\* What a Shadowsocks-2022 inbound among ibs makes of a client's credentials: they
\* keep the identity and get a random password of its shape.  "made" is said of a
\* client with such a password in at least one of its entries.
Filled(cred, ibs) == IF ibs \cap Keyed = {} THEN cred ELSE [cred EXCEPT !.pass = "made"]

-----------------------------------------------------------------------------
\* The requests: whether each is carried out, and the table after it.

Refused == [ok |-> FALSE, rec |-> rec]
Done(table) == [ok |-> TRUE, rec |-> table]

TakenByOther(field, value, c) == \E d \in Live \ {c} : rec[d][field] = value

Renamed(c, email) ==
  [rec EXCEPT ![c].email = email, ![c].name = IF AttachedTo(c) = {} THEN email ELSE @]

\* What an accepted update leaves; it keeps the stored identity and password where it
\* brings none, and makes a password where an inbound of the client needs one.
Merged(stored, sent) ==
  [of |-> IF sent.of = None THEN stored.of ELSE sent.of,
   pass |-> IF sent.pass = "blank" THEN stored.pass ELSE sent.pass]

Overwritten(r, p) ==
  [r EXCEPT !.email = p.email, !.name = p.email, !.sub = p.sub, !.on = p.on,
            !.cred = Filled(Merged(@, p.cred), {i \in Inbounds : r.held[i] > 0})]

\* Mutant: nobody asks who has the subscription id.
UpdateAnySub(email, p) ==
  IF Called(email) = {} THEN Refused
  ELSE LET c == Holder(email) IN
    IF TakenByOther("email", p.email, c) THEN Refused
    ELSE IF AttachedTo(c) = {} THEN Done(Renamed(c, p.email))
    ELSE Done([rec EXCEPT ![c] = Overwritten(@, p)])

\* Update writes the e-mail of the record before it looks at the subscription id,
\* and before it looks for the client in the inbounds, under the e-mail the record
\* had.  A client without inbounds is renamed, and nothing else is stored.
Update(email, p) ==
  IF Called(email) = {} THEN Refused
  ELSE LET c == Holder(email) IN
    IF TakenByOther("email", p.email, c) THEN Refused
    ELSE IF TakenByOther("sub", p.sub, c) \/ Wedged(c)
      THEN [ok |-> FALSE, rec |-> Renamed(c, p.email)]
    ELSE IF AttachedTo(c) = {} THEN Done(Renamed(c, p.email))
    ELSE Done([rec EXCEPT ![c] = Overwritten(@, p)])

\* Mutant: the client is added to whatever it is told.
ReadsAll(c, ibs) ==
  [client |-> c, sub |-> rec[c].sub, on |-> rec[c].on, cred |-> rec[c].cred,
   todo |-> ibs, beside |-> c \in Attaching]

\* Attach reads the client and the inbounds it is in, which it will skip, without any
\* lock.  `beside`, not in the code: it has run beside another attach of the client.
Reads(c, ibs) ==
  [client |-> c, sub |-> rec[c].sub, on |-> rec[c].on, cred |-> rec[c].cred,
   todo |-> ibs \ AttachedTo(c), beside |-> c \in Attaching]

\* A running attach once another one of client c has begun.
Beside(job, c) ==
  IF job # None /\ job.client = c THEN [job EXCEPT !.beside = TRUE] ELSE job

\* The entry that is appended has the values of the read, and the record gets them.
Entered(r, job, i) ==
  [r EXCEPT !.held = [r.held EXCEPT ![i] = r.held[i] + 1],
            !.sub = job.sub, !.on = job.on, !.cred = Filled(job.cred, {i})]

\* AddInboundClient looks for the e-mail under another subscription id in the
\* inbounds, and not for the client.
AddInboundClient(job, i) ==
  IF AttachedTo(job.client) # {} /\ rec[job.client].sub # job.sub THEN Refused
  ELSE Done([rec EXCEPT ![job.client] = Entered(@, job, i)])

\* The attach of a save returns: nobody has the e-mail, or there is nothing left to do.
Attached(email) == IF Called(email) = {} THEN Refused ELSE Done(rec)

\* Detach removes every entry under the client's e-mail.
Detach(email, ibs) ==
  IF Called(email) = {} THEN Refused
  ELSE Done([rec EXCEPT ![Holder(email)].held =
         [i \in Inbounds |-> IF i \in ibs THEN 0 ELSE @[i]]])

SetExternalLinks(email, links) ==
  IF Called(email) = {} THEN Refused
  ELSE Done([rec EXCEPT ![Holder(email)].links = links])

\* A client that is created once more: a further entry in each of the inbounds.
Again(r, new) ==
  [new EXCEPT !.links = r.links,
              !.held = [i \in Inbounds |-> r.held[i] + new.held[i]]]

\* Create refuses an e-mail in use under another subscription id.  Under the same
\* one it appends the client to the inbounds once more.  The client is enabled,
\* whatever the form says.
Create(p) ==
  LET same == Called(p.email)
      new == [email |-> p.email, name |-> p.email, sub |-> p.sub,
              cred |-> Filled(p.cred, p.ibs), on |-> TRUE, links |-> FALSE,
              held |-> [i \in Inbounds |-> IF i \in p.ibs THEN 1 ELSE 0]]
  IN  IF \/ \E c \in same : rec[c].sub # p.sub
         \/ \E c \in Live \ same : rec[c].sub = p.sub
        THEN Refused
      ELSE IF same = {}
        THEN Done([rec EXCEPT ![CHOOSE c \in Spare : TRUE] = new])
      ELSE Done([rec EXCEPT ![Holder(p.email)] = Again(@, new)])

-----------------------------------------------------------------------------

Shut == [open |-> FALSE, client |-> None, form |-> None]

Init ==
  /\ \E home \in Inbounds :
       rec = [c \in Ids |-> IF c \notin Names THEN None ELSE
               [email |-> c, name |-> c, sub |-> c,
                cred |-> Filled([of |-> c, pass |-> "own"], {home}),
                on |-> TRUE, links |-> TRUE,
                held |-> [i \in Inbounds |-> IF i = home THEN 1 ELSE 0]]]
  /\ hydrate = [c \in Ids |-> None]
  /\ mode = "add"
  /\ dialog = Shut
  /\ save = None
  /\ toggle = None
  /\ ours = None /\ stray = None
  /\ edits = 0 /\ mishaps = 0
  /\ touched = {} /\ tried = {}

\* The record as the panel sends it for editing.  `of` is the client it is, and is
\* not sent.
Full(c) ==
  [of |-> c, email |-> rec[c].email, sub |-> rec[c].sub, cred |-> rec[c].cred,
   on |-> rec[c].on, ibs |-> AttachedTo(c), links |-> rec[c].links]

\* The row of the list, which stands in for it when that request fails: secrets
\* and external links are not in it.
Slim(c) == [Full(c) EXCEPT !.cred = [of |-> None, pass |-> "blank"], !.links = FALSE]

NewClient ==
  [of |-> None, email |-> Fresh, sub |-> Fresh, cred |-> [of |-> Fresh, pass |-> "own"],
   on |-> TRUE, ibs |-> {}, links |-> FALSE]

\* Bound: the random values of one add are used once.
Unused ==
  /\ \A c \in Live : Fresh \notin {rec[c].email, rec[c].sub, rec[c].cred.of}
  /\ save # None => save.form.of # None

\* onAdd.  The mask of the open dialog covers the rows and buttons.
AddClick ==
  /\ ~dialog.open
  /\ Unused
  /\ mishaps < MaxMishaps
  /\ mishaps' = mishaps + 1
  /\ mode' = "add"
  /\ dialog' = [open |-> TRUE, client |-> None, form |-> NewClient]
  /\ tried' = {}
  /\ UNCHANGED <<rec, hydrate, save, toggle, jobVars, edits, touched>>

\* onEdit, up to its await: the answer it waits for, or that it gets none.
EditClick(c) ==
  /\ ~dialog.open
  /\ c \in Live /\ hydrate[c] = None
  /\ mode' = "edit"
  /\ \/ hydrate' = [hydrate EXCEPT ![c] = Full(c)] /\ UNCHANGED mishaps
     \/ /\ mishaps < MaxMishaps
        /\ mishaps' = mishaps + 1
        /\ hydrate' = [hydrate EXCEPT ![c] = Slim(c)]
  /\ touched' = IF save # None /\ (c = save.target \/ save.email = rec[c].email)
                THEN touched \cup {c} ELSE touched \ {c}
  /\ UNCHANGED <<rec, dialog, save, toggle, jobVars, edits, tried>>

\* The effect that gives a form with a Shadowsocks-2022 inbound a password of its
\* shape runs when the method that is called for changes.  With a dialog that opens
\* that depends on what the form held before.
Opened(form) == {form} \cup {[form EXCEPT !.cred = Filled(@, form.ibs)]}

\* ... and after it: the dialog's client, inbounds and links are replaced, but the
\* form is filled only when the dialog opens.
Hydrated(c) ==
  /\ hydrate[c] # None
  /\ hydrate' = [hydrate EXCEPT ![c] = None]
  /\ IF dialog.open
     THEN dialog' = [dialog EXCEPT !.client = hydrate[c]] /\ UNCHANGED tried
     ELSE /\ mode = "add" => Unused
          /\ \E form \in Opened(IF mode = "edit" THEN hydrate[c] ELSE NewClient) :
               dialog' = [open |-> TRUE, client |-> hydrate[c], form |-> form]
          /\ tried' = {}
  /\ UNCHANGED <<rec, mode, save, toggle, jobVars, edits, mishaps, touched>>

Type(form) ==
  /\ edits < MaxEdits
  /\ edits' = edits + 1
  /\ dialog' = [dialog EXCEPT !.form = form]
  /\ UNCHANGED <<rec, hydrate, mode, save, toggle, jobVars, mishaps, touched, tried>>

\* Choosing inbounds; with the first Shadowsocks-2022 one the effect above runs.
Chosen(form, ibs) ==
  [form EXCEPT !.ibs = ibs,
               !.cred = IF form.ibs \cap Keyed = {} THEN Filled(@, ibs) ELSE @]

TypeField ==
  /\ dialog.open
  /\ \/ \E n \in Names \ {dialog.form.email} : Type([dialog.form EXCEPT !.email = n])
     \/ \E n \in Names \ {dialog.form.sub} : Type([dialog.form EXCEPT !.sub = n])
     \/ Type([dialog.form EXCEPT !.on = ~@])
     \/ Type([dialog.form EXCEPT !.links = ~@])
     \/ \E ibs \in SUBSET Inbounds \ {dialog.form.ibs} : Type(Chosen(dialog.form, ibs))

Cancel ==
  /\ dialog.open
  /\ dialog' = Shut
  /\ UNCHANGED <<rec, hydrate, mode, save, toggle, jobVars, edits, mishaps, touched, tried>>

\* onSubmit: what to attach and to detach is told from the inbounds the client had
\* when it was fetched.
Submit ==
  /\ dialog.open /\ save = None
  /\ LET form == dialog.form
         client == dialog.client
         had == IF client = None THEN {} ELSE client.ibs
         adds == mode = "add" \/ client = None
     IN  /\ adds => form.ibs # {}
         /\ save' = [pc |-> IF adds THEN "create" ELSE "update", form |-> form,
                     email |-> IF adds THEN form.email ELSE client.email,
                     target |-> IF adds THEN None ELSE client.of,
                     attach |-> form.ibs \ had, detach |-> had \ form.ibs,
                     clean |-> tried \subseteq (form.ibs \ had) \cup (had \ form.ibs),
                     kept |-> FALSE]
  /\ UNCHANGED <<rec, hydrate, mode, dialog, toggle, jobVars, edits, mishaps, touched, tried>>

\* The request a save has come to.
Answer ==
  CASE save.pc = "create" -> Create(save.form)
    [] save.pc = "update" -> Update(save.email, save.form)
    [] save.pc = "attach" -> Attached(save.email)
    [] save.pc = "detach" -> Detach(save.email, save.detach)
    [] save.pc = "links"  -> SetExternalLinks(save.email, save.form.links)

Explored ==
  /\ save.pc \notin {"create", "done"} =>
       OrderlyBut(IF save.pc = "update" THEN save.email ELSE None)
  /\ save.pc = "create" =>
       /\ OrderlyBut(None) /\ (Called(save.form.email) = {} => Spare # {})
       /\ Called(save.form.email) \cap Attaching = {}
  /\ save.pc = "update" =>
       Called(save.email) \cap Attaching = {} \/ save.form.email = save.email

\* Mutant: external links are only sent when there are some.
FollowingSomeLinks ==
  IF save.pc = "create" THEN IF save.form.links THEN "links" ELSE "done"
  ELSE IF save.pc = "update" /\ save.attach # {} THEN "attach"
  ELSE IF save.pc \in {"update", "attach"} /\ save.detach # {} THEN "detach"
  ELSE IF save.pc = "links" \/ ~save.form.links THEN "done" ELSE "links"

\* onSave: the request that follows an answer.
Following ==
  IF save.pc = "create" THEN IF save.form.links THEN "links" ELSE "done"
  ELSE IF save.pc = "update" /\ save.attach # {} THEN "attach"
  ELSE IF save.pc \in {"update", "attach"} /\ save.detach # {} THEN "detach"
  ELSE IF save.pc = "links" THEN "done" ELSE "links"

\* What a save that has failed may have changed.
Attempted == tried \cup save.attach \cup save.detach

\* A request is carried out and its answer arrives; the first refusal ends the save.
Request ==
  /\ save # None /\ save.pc # "done"
  /\ save.pc = "attach" /\ Called(save.email) # {} => ours # None /\ ours.todo = {}
  /\ Explored
  /\ rec' = Answer.rec
  /\ IF Answer.ok
     THEN /\ save' = [save EXCEPT
               !.pc = Following,
               !.kept = IF save.pc = "update" THEN AttachedTo(Holder(save.email)) # {} ELSE @]
          /\ UNCHANGED tried
     ELSE save' = None /\ tried' = Attempted
  /\ ours' = None
  /\ touched' = touched \cup (Called(save.email) \ {save.target})
  /\ UNCHANGED <<hydrate, mode, dialog, toggle, stray, edits, mishaps>>

\* A request or its answer is lost, which the page takes for a refusal.  An attach
\* under way then stops at an inbound, with those before it done, or goes on.
\* Bound: one stray attach at a time.
RequestLost ==
  /\ save # None /\ save.pc # "done"
  /\ Explored
  /\ mishaps < MaxMishaps
  /\ mishaps' = mishaps + 1
  /\ rec' \in {rec, Answer.rec}
  /\ save' = None /\ tried' = Attempted
  /\ ours' = None
  /\ \/ UNCHANGED stray
     \/ ours # None /\ ours.todo # {} /\ stray = None /\ stray' = ours
  /\ touched' = touched \cup (Called(save.email) \ {save.target})
  /\ UNCHANGED <<hydrate, mode, dialog, toggle, edits>>

\* Attach, for this save ...
AttachReads ==
  /\ save # None /\ save.pc = "attach" /\ ours = None
  /\ Explored
  /\ Called(save.email) # {}
  /\ ours' = Reads(Holder(save.email), save.attach)
  /\ stray' = Beside(stray, Holder(save.email))
  /\ UNCHANGED <<rec, pageVars, edits, mishaps, touched, tried>>

AttachAppends ==
  /\ ours # None
  /\ OrderlyBut(None)
  /\ \E i \in ours.todo :
       /\ rec' = AddInboundClient(ours, i).rec
       /\ IF AddInboundClient(ours, i).ok
          THEN ours' = [ours EXCEPT !.todo = @ \ {i}] /\ UNCHANGED <<save, tried>>
          ELSE ours' = None /\ save' = None /\ tried' = Attempted
  /\ touched' = touched \cup ({ours.client} \ {save.target})
  /\ UNCHANGED <<hydrate, mode, dialog, toggle, stray, edits, mishaps>>

\* ... for another session, and going on for nobody.
AttachedElsewhere(c) ==
  /\ c \in Live /\ stray = None /\ mishaps < MaxMishaps
  /\ OrderlyBut(None)
  /\ mishaps' = mishaps + 1
  /\ \E i \in Inbounds \ AttachedTo(c) : stray' = Reads(c, {i})
  /\ ours' = Beside(ours, c)
  /\ UNCHANGED <<rec, pageVars, edits, touched, tried>>

StrayAppends ==
  /\ stray # None
  /\ OrderlyBut(None)
  /\ \E i \in stray.todo :
       /\ rec' = AddInboundClient(stray, i).rec
       /\ stray' = IF AddInboundClient(stray, i).ok /\ stray.todo # {i}
                   THEN [stray EXCEPT !.todo = @ \ {i}] ELSE None
  /\ touched' = touched \cup {stray.client}
  /\ UNCHANGED <<pageVars, ours, edits, mishaps, tried>>

\* The save reports success and closes the dialog, whichever is open by now.
Saved ==
  /\ save # None /\ save.pc = "done"
  /\ save' = None
  /\ dialog' = Shut
  /\ UNCHANGED <<rec, hydrate, mode, toggle, jobVars, edits, mishaps, touched, tried>>

\* onToggleEnable and setEnable: the client is fetched and written back with the
\* switch turned; without an answer nothing happens.
ToggleClick(c) ==
  /\ ~dialog.open
  /\ c \in Live /\ toggle = None
  /\ mishaps < MaxMishaps
  /\ mishaps' = mishaps + 1
  /\ toggle' = [Full(c) EXCEPT !.on = ~@]
  /\ UNCHANGED <<rec, hydrate, mode, dialog, save, jobVars, edits, touched, tried>>

ToggleWrites ==
  /\ toggle # None
  /\ OrderlyBut(toggle.email)
  /\ rec' = Update(toggle.email, toggle).rec
  /\ toggle' = None
  /\ touched' = touched \cup Called(toggle.email)
  /\ UNCHANGED <<hydrate, mode, dialog, save, jobVars, edits, mishaps, tried>>

\* A client is deleted, here or in another session, or edited in another session.
Deleted(c) ==
  /\ c \in Live \ Attaching /\ mishaps < MaxMishaps
  /\ OrderlyBut(None)
  /\ mishaps' = mishaps + 1
  /\ rec' = [rec EXCEPT ![c] = None]
  /\ touched' = touched \cup {c}
  /\ UNCHANGED <<pageVars, jobVars, edits, tried>>

EditedElsewhere(c) ==
  /\ c \in Live /\ mishaps < MaxMishaps
  /\ OrderlyBut(None)
  /\ mishaps' = mishaps + 1
  /\ \/ /\ AttachedTo(c) # {}
        /\ rec' = [rec EXCEPT ![c].on = ~@]
     \/ \E i \in AttachedTo(c) : rec' = [rec EXCEPT ![c].held[i] = 0]
  /\ touched' = touched \cup {c}
  /\ UNCHANGED <<pageVars, jobVars, edits, tried>>

Next ==
  \/ AddClick \/ TypeField \/ Cancel \/ Submit
  \/ Request \/ RequestLost \/ Saved \/ ToggleWrites
  \/ AttachReads \/ AttachAppends \/ StrayAppends
  \/ \E c \in Ids :
       \/ EditClick(c) \/ Hydrated(c) \/ ToggleClick(c)
       \/ Deleted(c) \/ EditedElsewhere(c) \/ AttachedElsewhere(c)

Spec == Init /\ [][Next]_vars

-----------------------------------------------------------------------------

Emails == Names \cup {Fresh}

Credentials == [of : Emails, pass : {"own", "made"}]

Clients ==
  [email : Emails, name : Emails, sub : Emails, cred : Credentials, on : BOOLEAN,
   links : BOOLEAN, held : [Inbounds -> 0 .. 2]]

Forms ==
  [of : Ids \cup {None}, email : Emails, sub : Emails,
   cred : [of : Emails \cup {None}, pass : {"blank", "own", "made"}],
   on : BOOLEAN, ibs : SUBSET Inbounds, links : BOOLEAN]

Jobs ==
  [client : Ids, sub : Emails, on : BOOLEAN, cred : Credentials,
   todo : SUBSET Inbounds, beside : BOOLEAN]

Requests == {"create", "update", "attach", "detach", "links", "done"}

Saves ==
  [pc : Requests, form : Forms, email : Emails, target : Ids \cup {None},
   attach : SUBSET Inbounds, detach : SUBSET Inbounds, clean : BOOLEAN, kept : BOOLEAN]

ASSUME NoneAssumption == None \notin Clients \cup Forms \cup Saves \cup Jobs

\* Every variable keeps its type.
TypeOK ==
  /\ rec \in [Ids -> Clients \cup {None}]
  /\ hydrate \in [Ids -> Forms \cup {None}]
  /\ mode \in {"add", "edit"}
  /\ dialog \in [open : BOOLEAN, client : Forms \cup {None}, form : Forms \cup {None}]
  /\ dialog.open <=> dialog.form # None
  /\ save \in Saves \cup {None}
  /\ toggle \in Forms \cup {None}
  /\ ours \in Jobs \cup {None} /\ stray \in Jobs \cup {None}
  /\ edits \in 0 .. MaxEdits /\ mishaps \in 0 .. MaxMishaps
  /\ touched \subseteq Ids /\ tried \subseteq Inbounds

\* When saving an edited client reports success, what its dialog showed is what is
\* stored: values, switch, external links and inbounds, over retries of saves that
\* failed half way.  It is not so for a client somebody else wrote meanwhile, for
\* one that was in no inbound, and when the user puts an inbound back in the form
\* after a failed save may have changed it.
SavedAsShown ==
  save # None =>
    LET c == save.target
        shown == save.form
    IN  save.pc = "done" /\ save.kept /\ save.clean /\ shown.of = c /\ c \notin touched =>
          /\ c \in Live /\ ~Wedged(c)
          /\ rec[c].email = shown.email /\ rec[c].sub = shown.sub
          /\ rec[c].on = shown.on /\ rec[c].links = shown.links
          /\ AttachedTo(c) = shown.ibs

\* No order of clicks, answers, retries and switches gives a client the identity of
\* another, not even when a late answer puts one client behind the form of another:
\* such a save only goes through when the other client is gone, or the subscription
\* id was changed by hand.  But an attach writes back what it has read.  And a
\* password is only replaced by a made one where a Shadowsocks-2022 inbound is, or
\* was in the form that is written.
Writer == IF toggle' # toggle THEN toggle ELSE IF save = None THEN None ELSE save.form

HadRead(c) == {job.cred : job \in {j \in {ours, stray} \ {None} : j.client = c}}

CredentialsStay ==
  [][\A c \in Live : rec'[c] # None =>
       /\ rec'[c].cred.of # rec[c].cred.of =>
            \/ \E cred \in HadRead(c) : cred.of = rec'[c].cred.of
            \/ /\ Writer # None
               /\ Writer.of \in Live \ {c} => rec[Writer.of].sub # Writer.sub
       /\ rec'[c].cred.pass = "made" /\ rec[c].cred.pass = "own" =>
            \/ \E cred \in HadRead(c) : cred.pass = "made"
            \/ Writer # None /\ Writer.cred.pass = "made"
            \/ Keyed \cap (AttachedTo(c) \cup AttachedTo(c)') # {}]_vars

\* No inbound gets a second entry of a client, however often saves are retried; but an
\* add that is repeated does just that, and so can an attach that runs beside another
\* one of the client, as when the first one's answer was lost and it is asked for again.
NoTwins ==
  [][\A c \in Live : rec'[c] # None /\ ~Twin(c) /\ Twin(c)' =>
       \/ save # None /\ save.pc = "create"
       \/ \E job \in {ours, stray} \ {None} : job.client = c /\ job.beside]_vars
=============================================================================
