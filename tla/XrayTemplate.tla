---------------------------- MODULE XrayTemplate ----------------------------
(* The Xray template as the Xray page edits it, and what each edit of its     *)
(* outbounds, routing rules and balancers makes of it (OutboundsTab.tsx,      *)
(* RoutingTab.tsx, RoutingBasic.tsx, BalancersTab.tsx and their helpers).  A  *)
(* template is a record of                                                    *)
(*   outbounds   <<[tag, dialer]>>, dialer being the tag of a dialerProxy     *)
(*   rules       <<[out, bal, lists]>>: an outbound's or a balancer's tag,    *)
(*               and which of its ip and domain lists the rule has            *)
(*   balancers   <<[tag, strategy, picks, fallback]>>, picks the selector     *)
(*   observatory, burst   their subjects, or None                             *)
(* The other sections, and the content of the lists, are left out.            *)
EXTENDS Naturals, Sequences, FiniteSets, SequencesExt

CONSTANTS
  None,          \* no tag, no section
  OutboundTags,  \* the tags an outbound may be given
  BalancerTags   \* the tags a balancer may be given

ASSUME TagsAssumption ==
  /\ None \notin OutboundTags \union BalancerTags
  /\ \A tags \in SUBSET OutboundTags : None # tags
  /\ {"direct", "blocked", "IPv4"} \subseteq OutboundTags

Lists == {"ip", "domain"}
Strategies == {"random", "roundRobin", "leastPing", "leastLoad"}

\* What a row beyond the end of an array leaves before it.
Hole == [tag |-> None, dialer |-> None, out |-> None, bal |-> None,
         lists |-> {}, strategy |-> None, picks |-> {}, fallback |-> None]

Outbounds == [tag : OutboundTags \union {None},
              dialer : OutboundTags \union {None}]
Rules == [out : OutboundTags \union {None},
          bal : BalancerTags \union {None}, lists : SUBSET Lists]
Balancers == [tag : BalancerTags, strategy : Strategies,
              picks : SUBSET OutboundTags,
              fallback : OutboundTags \union {None}]

XrayTemplates ==
  [outbounds : Seq(Outbounds \union {Hole}), rules : Seq(Rules \union {Hole}),
   balancers : Seq(Balancers \union {Hole}),
   observatory : {None} \union SUBSET OutboundTags,
   burst : {None} \union SUBSET OutboundTags]

----------------------------------------------------------------------------
\* Arrays.

\* list[i] = x, where i may lie beyond the end.
Put(list, i, x) ==
  [j \in 1..(IF i > Len(list) THEN i ELSE Len(list)) |->
     IF j = i THEN x ELSE IF j <= Len(list) THEN list[j] ELSE Hole]

\* Push, or replace the row that was opened (0: a new row).
Placed(list, i, x) == IF i = 0 THEN Append(list, x) ELSE Put(list, i, x)

\* splice(i, 1); nothing beyond the end.
Without(list, i) == IF i \in DOMAIN list THEN RemoveAt(list, i) ELSE list

\* Take row i out and put it back as row j: a drag, an arrow, "set first".
Moved(list, i, j) == InsertAt(RemoveAt(list, i), j, list[i])

\* The rows at these places, in the order they have.
RowsAt(list, places) ==
  LET nth == CHOOSE f \in [1..Cardinality(places) -> places] :
               \A i, j \in DOMAIN f : i < j => f[i] < f[j]
  IN  [i \in DOMAIN nth |-> list[nth[i]]]

TagsOf(list) == {list[i].tag : i \in DOMAIN list} \ {None}

----------------------------------------------------------------------------
\* Observatories.

OfStrategy(t, kinds) ==
  {i \in DOMAIN t.balancers : t.balancers[i].strategy \in kinds}

\* collectSelectors of these balancers.
Subjects(t, rows) == UNION {t.balancers[i].picks : i \in rows}

\* syncObservatories: leastPing needs the observatory; leastLoad needs the burst
\* observatory, and the other two keep one that is there.
Synced(t) ==
  LET pings == OfStrategy(t, {"leastPing"})
      required == OfStrategy(t, {"leastLoad"})
      optional == OfStrategy(t, {"random", "roundRobin"})
  IN  [t EXCEPT
         !.observatory = IF pings # {} THEN Subjects(t, pings) ELSE None,
         !.burst =
           IF required # {} \/ (optional # {} /\ @ # None)
             THEN Subjects(t, required \union optional)
           ELSE IF required = {} /\ optional = {} THEN None ELSE @]

----------------------------------------------------------------------------
\* Outbounds.

Swap(x, from, to) == IF x = from THEN to ELSE x

\* A rule, a balancer and an outbound that follow a renamed outbound.
RuleAfter(r, from, to) == [r EXCEPT !.out = Swap(@, from, to)]
BalancerAfter(b, from, to) ==
  [b EXCEPT !.fallback = Swap(@, from, to), !.picks = {Swap(p, from, to) : p \in @}]
OutboundAfter(o, from, to) == [o EXCEPT !.dialer = Swap(@, from, to)]

\* Mutant: only the rules follow the new tag.
RulesFollow(t, from, to) ==
  [t EXCEPT !.rules = [i \in DOMAIN @ |-> RuleAfter(@[i], from, to)]]

\* propagateOutboundTagRename.
Renamed(t, from, to) ==
  [t EXCEPT
     !.rules = [i \in DOMAIN @ |-> RuleAfter(@[i], from, to)],
     !.balancers = [i \in DOMAIN @ |-> BalancerAfter(@[i], from, to)],
     !.outbounds = [i \in DOMAIN @ |-> OutboundAfter(@[i], from, to)]]

\* onConfirm of the outbound dialog.
WithOutbound(t, i, form) ==
  LET from == IF i \in DOMAIN t.outbounds THEN t.outbounds[i].tag ELSE None
      placed == [t EXCEPT !.outbounds = Placed(@, i, form)]
  IN  IF from \notin {None, form.tag} THEN Renamed(placed, from, form.tag)
                                      ELSE placed

----------------------------------------------------------------------------
\* Balancers.

\* A rule that follows a renamed balancer.
ViaAfter(r, from, to) == [r EXCEPT !.bal = Swap(@, from, to)]

\* onConfirm of the balancer dialog: the rules follow a new tag.
WithBalancer(t, i, form) ==
  LET from == IF i \in DOMAIN t.balancers THEN t.balancers[i].tag ELSE None
      placed == [t EXCEPT !.balancers = Placed(@, i, form)]
  IN  Synced(
        IF from \in {None, form.tag} THEN placed
        ELSE [placed EXCEPT !.rules = [r \in DOMAIN @ |->
                ViaAfter(@[r], from, form.tag)]])

\* Mutant: the observatories stay when the balancer goes.
WithoutBalancerUnsynced(t, i) == [t EXCEPT !.balancers = Without(@, i)]

WithoutBalancer(t, i) == Synced([t EXCEPT !.balancers = Without(@, i)])

----------------------------------------------------------------------------
\* The lists of the basic routing page.

\* ruleGetter: the rules whose list of this kind the page shows for the tag.
Listing(t, tag, list) ==
  {i \in DOMAIN t.rules : t.rules[i].out = tag /\ list \in t.rules[i].lists}

\* ruleSetter: the choice goes into the first such rule, the others are dropped,
\* whatever else they say; a first choice makes a rule.
WithList(t, tag, list, chosen) ==
  LET rows == Listing(t, tag, list)
      keeps(i) == i \in rows => chosen /\ \A j \in rows : i <= j
      left == {i \in DOMAIN t.rules : keeps(i)}
  IN  IF rows = {}
        THEN [t EXCEPT !.rules =
                Append(@, [out |-> tag, bal |-> None,
                           lists |-> IF chosen THEN {list} ELSE {}])]
        ELSE [t EXCEPT !.rules = RowsAt(@, left)]

Positions(t, tag) == {i \in DOMAIN t.outbounds : t.outbounds[i].tag = tag}

\* Where a tag leads: the first outbound that has it, 0 if none.
Position(t, tag) ==
  IF Positions(t, tag) = {} THEN 0
  ELSE CHOOSE i \in Positions(t, tag) : \A j \in Positions(t, tag) : i <= j

\* syncOutbound: the outbound comes with the first rule that names it and goes
\* with the last, unless it is the first outbound, which takes all other traffic.
OutboundMatched(t, tag) ==
  LET at == Position(t, tag)
      wanted == \E i \in DOMAIN t.rules : t.rules[i].out = tag
  IN  [t EXCEPT !.outbounds =
         IF ~wanted /\ at > 1 THEN RemoveAt(@, at)
         ELSE IF wanted /\ at = 0
                THEN Append(@, [tag |-> tag, dialer |-> None])
         ELSE @]

\* The selects of the page: "blocked" has no outbound of its own to match.
ListEdited(t, tag, list, chosen) ==
  LET set == WithList(t, tag, list, chosen)
  IN  IF tag = "blocked" THEN set ELSE OutboundMatched(set, tag)
=============================================================================
