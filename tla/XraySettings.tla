---------------------------- MODULE XraySettings ----------------------------
(* One open Xray page (XrayPage.tsx and its tabs, useXraySetting.ts).  The    *)
(* page holds the configuration twice, as the JSON text that is saved and as  *)
(* the template that is shown and edited; it fetches the stored one again     *)
(* after a save or a change of the outbound subscriptions, and offers Save    *)
(* when a poll finds the text different from what it takes to be stored.  A   *)
(* dialog remembers the row it was opened on.  Another session may store a    *)
(* configuration meanwhile.  The server and the query library are modelled    *)
(* from how this code uses them.                                              *)
EXTENDS XrayTemplate

CONSTANTS
  Stored,         \* configurations the server may hold, or someone pastes
  Default,        \* the one the panel ships
  Broken,         \* a text that is not JSON
  Sent,           \* a request that is on its way
  Failed,         \* the last request failed
  OutboundForms, RuleForms, BalancerForms,  \* what is filled in
  MaxEdits,       \* bound: edits of the page
  MaxVer,         \* bound: configurations stored
  MaxSubs         \* bound: changes of what the subscriptions bring

ASSUME StoredAssumption ==
  /\ Default \in Stored
  /\ \A t \in Stored : /\ t \in XrayTemplates
                       /\ Synced(t) = t
                       /\ \A i, j \in DOMAIN t.balancers :
                            t.balancers[i].tag = t.balancers[j].tag => i = j
ASSUME FormsAssumption ==
  /\ OutboundForms \subseteq Outbounds /\ RuleForms \subseteq Rules
  /\ BalancerForms \subseteq Balancers
  /\ {MaxEdits, MaxVer, MaxSubs} \subseteq Nat

VARIABLES
  shown,         \* templateSettings
  text,          \* xraySetting, by the template it spells; or Broken
  old,           \* oldXraySettingRef: what the page takes to be stored
  saveDisabled,
  dialog,        \* the open dialog, or None
  saving,        \* the save: what was sent, stored yet, as which version
  server,        \* server: the stored configuration, the subscriptions, version
  cached,        \* the last fetched answer, as far as it is compared
  fetch,         \* the query: None, Failed, Sent, or what it read
  edits,
  acked          \* newest own save the page was told of

page == <<shown, text, old, saveDisabled, dialog, edits>>
net == <<saving, server, cached, fetch, acked>>
pageVars == <<page, net>>

Kinds == {"outbound", "rule", "balancer"}
ServerStates == [xray : XrayTemplates, subs : 0..MaxSubs, ver : 0..MaxVer]

PageTypeOK ==
  /\ {shown, old} \subseteq XrayTemplates
  /\ text \in {Broken} \union XrayTemplates
  /\ saveDisabled \in BOOLEAN
  /\ dialog \in {None} \union [over : Kinds, row : Nat, deleting : BOOLEAN,
                               taken : SUBSET OutboundTags]
  /\ saving \in {None} \union [sent : XrayTemplates, stored : BOOLEAN, ver : 0..MaxVer]
  /\ server \in ServerStates
  /\ cached \in [xray : XrayTemplates, subs : 0..MaxSubs]
  /\ fetch \in {None, Sent, Failed} \union ServerStates
  /\ edits \in 0..MaxEdits
  /\ acked \in 0..MaxVer

Compared(answer) == [xray |-> answer.xray, subs |-> answer.subs]

\* The page after its first fetch.
PageInit ==
  /\ \E t \in Stored : /\ shown = t /\ text = t /\ old = t
                       /\ server = [xray |-> t, subs |-> 0, ver |-> 0]
  /\ cached = Compared(server)
  /\ saveDisabled = TRUE
  /\ dialog = None
  /\ saving = None
  /\ fetch = None
  /\ edits = 0
  /\ acked = 0

----------------------------------------------------------------------------
\* Edits.  Every one goes through setTemplateSettings, which writes the text too.

CanEdit == edits < MaxEdits

Edit(t) ==
  /\ CanEdit
  /\ edits' = edits + 1
  /\ shown' = t
  /\ text' = t
  /\ UNCHANGED <<old, saveDisabled, net>>

OnPage(t) == dialog = None /\ Edit(t) /\ UNCHANGED dialog

RowsOf(kind) == CASE kind = "outbound" -> shown.outbounds
                  [] kind = "rule"     -> shown.rules
                  [] kind = "balancer" -> shown.balancers

Opened(kind, row, deleting) ==
  /\ dialog = None
  /\ CanEdit
  /\ dialog' = [over |-> kind, row |-> row, deleting |-> deleting,
                taken |-> IF kind = "outbound"
                            THEN TagsOf(Without(shown.outbounds, row))
                            ELSE {}]
  /\ UNCHANGED <<shown, text, old, saveDisabled, edits, net>>

OpenAdd(kind) == Opened(kind, 0, FALSE)
OpenEdit(kind) == \E i \in DOMAIN RowsOf(kind) : Opened(kind, i, FALSE)
AskDelete(kind) == \E i \in DOMAIN RowsOf(kind) : Opened(kind, i, TRUE)

Open(kind, deleting) ==
  dialog # None /\ dialog.over = kind /\ dialog.deleting = deleting

Cancel ==
  /\ dialog # None
  /\ dialog' = None
  /\ UNCHANGED <<shown, text, old, saveDisabled, edits, net>>

\* The tag is compared with the tags there were when the dialog was opened.
ConfirmOutbound ==
  /\ Open("outbound", FALSE)
  /\ \E form \in OutboundForms :
       /\ form.tag \notin dialog.taken \union {None}
       /\ Edit(WithOutbound(shown, dialog.row, form))
  /\ dialog' = None

ConfirmRule ==
  /\ Open("rule", FALSE)
  /\ \E form \in RuleForms :
       Edit([shown EXCEPT !.rules = Placed(@, dialog.row, form)])
  /\ dialog' = None

\* syncObservatories reads the strategy of every balancer: at a hole it throws, and
\* the edit is lost with the page.
OthersWhole ==
  \A i \in DOMAIN shown.balancers \ {dialog.row} : shown.balancers[i] # Hole

\* otherTags: the balancers the list has now, without the row.
OtherTags == TagsOf(Without(shown.balancers, dialog.row))

ConfirmBalancer ==
  /\ Open("balancer", FALSE)
  /\ OthersWhole
  /\ \E form \in BalancerForms :
       /\ form.tag \notin OtherTags
       /\ form.picks # {}
       /\ Edit(WithBalancer(shown, dialog.row, form))
  /\ dialog' = None

DeleteOutbound ==
  /\ Open("outbound", TRUE)
  /\ Edit([shown EXCEPT !.outbounds = Without(@, dialog.row)])
  /\ dialog' = None

DeleteRule ==
  /\ Open("rule", TRUE)
  /\ Edit([shown EXCEPT !.rules = Without(@, dialog.row)])
  /\ dialog' = None

DeleteBalancer ==
  /\ Open("balancer", TRUE)
  /\ OthersWhole
  /\ Edit(WithoutBalancer(shown, dialog.row))
  /\ dialog' = None

\* setFirst, and the arrows.
MoveOutbound ==
  \E i, j \in DOMAIN shown.outbounds :
    /\ i # j /\ (j = 1 \/ j = i + 1)
    /\ OnPage([shown EXCEPT !.outbounds = Moved(@, i, j)])

\* A drag or an arrow.
MoveRule ==
  \E i, j \in DOMAIN shown.rules :
    i # j /\ OnPage([shown EXCEPT !.rules = Moved(@, i, j)])

\* Imports look at nothing.
ImportOutbounds ==
  \E form \in OutboundForms :
    OnPage([shown EXCEPT !.outbounds = Append(@, form)])

ImportRules ==
  \E form \in RuleForms :
    OnPage([shown EXCEPT !.rules = Append(@, form)])

\* A select changes: to nothing only from something.
SetList(tag, list, chosen) ==
  /\ chosen \/ Listing(shown, tag, list) # {}
  /\ OnPage(ListEdited(shown, tag, list, chosen))

\* The default arrives before the page, covered meanwhile, is used again.
ResetDefault == OnPage(Default)

\* Mutant: the template waits until the text is saved.
TypeTextLater ==
  /\ dialog = None
  /\ CanEdit
  /\ \E x \in Stored \union {Broken} : text' = x
  /\ edits' = edits + 1
  /\ UNCHANGED <<shown, old, saveDisabled, dialog, net>>

\* setXraySetting: the template follows as soon as the text is JSON.
TypeText ==
  /\ dialog = None
  /\ CanEdit
  /\ \E x \in Stored \union {Broken} :
       /\ text' = x
       /\ shown' = IF x = Broken THEN shown ELSE x
  /\ edits' = edits + 1
  /\ UNCHANGED <<old, saveDisabled, dialog, net>>

----------------------------------------------------------------------------
\* Saving.

\* Mutant: the poll compares with the last answer of the query.
DirtyPollCached ==
  /\ saveDisabled' = (text = cached.xray)
  /\ UNCHANGED <<shown, text, old, dialog, edits, net>>

DirtyPoll ==
  /\ saveDisabled' = (text = old)
  /\ UNCHANGED <<shown, text, old, dialog, edits, net>>

\* onSaveAll.
Save ==
  /\ ~saveDisabled
  /\ dialog = None
  /\ saving = None
  /\ text # Broken
  /\ saving' = [sent |-> text, stored |-> FALSE, ver |-> 0]
  /\ UNCHANGED <<page, server, cached, fetch, acked>>

Stores(x) ==
  /\ server.ver < MaxVer
  /\ server' = [server EXCEPT !.xray = x, !.ver = @ + 1]

ServerStores ==
  /\ saving # None
  /\ ~saving.stored
  /\ Stores(saving.sent)
  /\ saving' = [saving EXCEPT !.stored = TRUE, !.ver = server'.ver]
  /\ UNCHANGED <<page, cached, fetch, acked>>

\* Mutant: a request that is already on its way is left to answer.
Requested == fetch' = IF fetch \in {None, Failed} THEN Sent ELSE fetch

\* invalidateQueries: read again; a request on its way is dropped.
Refetch == fetch' = Sent

\* onSuccess of the save.
SaveAnswered ==
  /\ saving # None
  /\ saving.stored
  /\ saving' = None
  /\ old' = saving.sent
  /\ saveDisabled' = TRUE
  /\ acked' = saving.ver
  /\ Refetch
  /\ UNCHANGED <<shown, text, dialog, edits, server, cached>>

\* The save is refused, or the answer is lost.
SaveFailed ==
  /\ saving # None
  /\ saving' = None
  /\ UNCHANGED <<page, server, cached, fetch, acked>>

----------------------------------------------------------------------------
\* Fetching.

ServerReads ==
  /\ fetch = Sent
  /\ fetch' = server
  /\ UNCHANGED <<page, saving, server, cached, acked>>

FetchFails ==
  /\ fetch = Sent
  /\ fetch' = Failed
  /\ UNCHANGED <<page, saving, server, cached, acked>>

\* refetchOnWindowFocus: only an invalidated answer is fetched again.
Refocus ==
  /\ fetch = Failed
  /\ Refetch
  /\ UNCHANGED <<page, saving, server, cached, acked>>

\* An answer that says nothing new keeps the query's data and the effect does not
\* run; any other fills the text and the template again, whatever they were.
FetchLands ==
  /\ fetch \notin {None, Sent, Failed}
  /\ fetch' = None
  /\ cached' = Compared(fetch)
  /\ IF cached' = cached
       THEN UNCHANGED <<text, shown, old, saveDisabled>>
       ELSE /\ text' = fetch.xray
            /\ shown' = fetch.xray
            /\ old' = fetch.xray
            /\ saveDisabled' = TRUE
  /\ UNCHANGED <<dialog, edits, saving, server, acked>>

\* A subscription is added, toggled, moved, refreshed or deleted, which may change
\* the outbounds the answer lists or leave them as they were.
ChangeSubs ==
  /\ dialog = None
  /\ \E subs \in server.subs..MaxSubs : server' = [server EXCEPT !.subs = subs]
  /\ Refetch
  /\ UNCHANGED <<page, saving, cached, acked>>

\* Another session saves.
RivalStores ==
  /\ \E t \in Stored : Stores(t)
  /\ UNCHANGED <<page, saving, cached, fetch, acked>>

----------------------------------------------------------------------------
PageNext ==
  \/ \E kind \in Kinds : OpenAdd(kind) \/ OpenEdit(kind) \/ AskDelete(kind)
  \/ Cancel
  \/ ConfirmOutbound \/ ConfirmRule \/ ConfirmBalancer
  \/ DeleteOutbound \/ DeleteRule \/ DeleteBalancer
  \/ MoveOutbound \/ MoveRule \/ ImportOutbounds \/ ImportRules
  \/ \E chosen \in BOOLEAN :
       \/ \E tag \in {"direct", "blocked"}, list \in Lists :
            SetList(tag, list, chosen)
       \/ SetList("IPv4", "domain", chosen)
  \/ ResetDefault \/ TypeText
  \/ DirtyPoll \/ Save
  \/ ServerStores \/ SaveAnswered \/ SaveFailed
  \/ ServerReads \/ FetchFails \/ Refocus \/ FetchLands
  \/ ChangeSubs \/ RivalStores

\* The poll is a timer of the page.
PageSpec == PageInit /\ [][PageNext]_pageVars /\ WF_pageVars(DirtyPoll)

----------------------------------------------------------------------------
\* What is saved is what is shown: whenever the text is JSON at all, it spells
\* the template the tabs show, whichever of the two was edited last and whatever
\* was fetched in between.
TextMatchesTemplate == text # Broken => text = shown

\* The core refuses a leastPing or leastLoad balancer without its observatory,
\* and restarts for an observatory: after any edits of any rows, a dialog
\* confirmed on a template that was replaced under it included, the observatory
\* is there exactly for leastPing, the burst observatory for every leastLoad, and
\* neither outlives the last balancer that could use it.
ObservatoriesNeeded ==
  LET has(kinds) == OfStrategy(shown, kinds) # {}
  IN  /\ shown.observatory # None <=> has({"leastPing"})
      /\ has({"leastLoad"}) => shown.burst # None
      /\ shown.burst # None =>
           has({"leastLoad", "random", "roundRobin"})

Unique(t) == \A i \in DOMAIN t.outbounds : Positions(t, t.outbounds[i].tag) = {i}

Confirmed(kind) ==
  /\ Open(kind, FALSE) /\ dialog.row # 0
  /\ dialog' = None /\ edits' # edits

\* Where tag a led before, tag b leads now; no tag leads nowhere, though a row may
\* have none.
SameOutbound(a, b) ==
  a # None /\ Position(shown, a) # 0 => Position(shown', b) = Position(shown, a)

BalancersOf(t, tag) ==
  {i \in DOMAIN t.balancers : t.balancers[i].tag = tag}

\* Giving a row another tag redirects nothing: every rule, fallback, selector
\* and dialer proxy that led to an outbound, and every rule that led to a
\* balancer, leads to the same row afterwards, whichever row it was by then.
TargetsKept ==
  [][/\ Confirmed("outbound") /\ Unique(shown) /\ Unique(shown') =>
          /\ \A i \in DOMAIN shown.rules :
               SameOutbound(shown.rules[i].out, shown'.rules[i].out)
          /\ \A i \in DOMAIN shown.balancers :
               LET before == shown.balancers[i]
                   after == shown'.balancers[i]
               IN  /\ SameOutbound(before.fallback, after.fallback)
                   /\ \A p \in before.picks :
                        \E q \in after.picks : SameOutbound(p, q)
          /\ \A i \in DOMAIN shown.outbounds \ {dialog.row} :
               SameOutbound(shown.outbounds[i].dialer, shown'.outbounds[i].dialer)
     /\ Confirmed("balancer") =>
          \A i \in DOMAIN shown.rules : shown.rules[i].bal # None =>
            BalancersOf(shown, shown.rules[i].bal) \subseteq
              BalancersOf(shown', shown'.rules[i].bal)
    ]_pageVars

\* Once the page was told that its save was stored, no fetch that was answered
\* before it brings the older configuration back.
SavedNotReverted ==
  [][FetchLands => fetch.ver >= acked]_pageVars

\* A text that differs from what the page takes to be stored can be saved in the
\* end, though saves and fetches that were on their way keep disabling Save.
UnsavedCanBeSaved == text # old ~> (~saveDisabled \/ text = old)
=============================================================================
