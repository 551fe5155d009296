------------------------------- MODULE Planner ------------------------------
(***************************************************************************)
(* planner/planner.go: Build makes the plan of a request from a catalog    *)
(* and an inventory.  An item of the inventory is [installed, broken,      *)
(* incompatible]; a request is [profile, include, exclude, overrides,      *)
(* credentials, upgrades], overrides a set of <<capability, component>>    *)
(* pairs with one pair for a capability.                                   *)
(***************************************************************************)
EXTENDS Catalog

RequestRecord ==
    [profile : STRING, include : SUBSET STRING, exclude : SUBSET STRING,
     overrides : SUBSET (STRING \X STRING), credentials : BOOLEAN, upgrades : BOOLEAN]

Refused(why) == [error |-> why, actions |-> <<>>, providers |-> <<>>]

\* The components of the profile, the included ones and the overriding providers.
Requested(c, request) ==
    ((Range(ProfileByID(c, request.profile).components) \cup request.include) \ request.exclude)
        \cup {o[2] : o \in request.overrides}

Refusal(c, request) ==
    IF request.profile \notin {c.profiles[i].id : i \in 1 .. Len(c.profiles)} THEN "profile"
    ELSE IF ~(request.include \cup request.exclude \subseteq IdsOf(c)) THEN "component"
    ELSE IF request.include \cap request.exclude # {} THEN "excluded"
    ELSE IF \E o \in request.overrides :
                o[2] \notin IdsOf(c) \/ o[2] \in request.exclude
                    \/ ComponentByID(c, o[2]).capability # o[1] THEN "provider"
    ELSE "none"

\* Mutant of Expand: only the dependencies of what was asked for, not theirs in turn.
ExpandOnce(c, chosen) == chosen \cup UNION {Range(ComponentByID(c, id).needs) : id \in chosen}

\* expandDependencies
Expand(c, chosen) == Closure(Dependencies(c), chosen)

Providing(c, capability, S) == {id \in S : ComponentByID(c, id).capability = capability}
Capabilities(c) == {ComponentByID(c, id).capability : id \in IdsOf(c)} \ {NoId}

\* The provider a capability starts with: the override, or else the preferred component.
Proposed(c, request, capability) ==
    LET overriding == {o[2] : o \in {p \in request.overrides : p[1] = capability}}
        preferred == {id \in Providing(c, capability, IdsOf(c)) : ComponentByID(c, id).preferred}
    IN  IF overriding # {} THEN CHOOSE id \in overriding : TRUE
        ELSE IF preferred # {} THEN CHOOSE id \in preferred : TRUE ELSE NoId

Ambiguous(c, request, selected) == \E capability \in Capabilities(c) :
    /\ Proposed(c, request, capability) \notin selected
    /\ Cardinality(Providing(c, capability, selected)) > 1

\* Mutant of ActiveProvider: an unselected preferred provider stays active.
ProposedProvider(c, request, selected, capability) == Proposed(c, request, capability)

\* reconcileActiveProviders: NoId where a capability has no provider.
ActiveProvider(c, request, selected, capability) ==
    LET candidates == Providing(c, capability, selected) IN
    IF Proposed(c, request, capability) \in selected THEN Proposed(c, request, capability)
    ELSE IF candidates # {} THEN CHOOSE id \in candidates : TRUE
    ELSE NoId

Active(c, request, selected) == [capability \in Capabilities(c) |->
    ActiveProvider(c, request, selected, capability)]

\* Mutant of ActionKind: a component that is broken is kept when it is there.
KindOfInstalledFirst(component, item, request, active) ==
    IF item.installed THEN "keep" ELSE IF item.broken THEN "repair" ELSE "install"

Missing(component) ==
    CASE component.kind = "router" -> "configure"
      [] component.kind \in {"none", "manual"} -> "skip"
      [] OTHER -> "install"

ActionKind(component, item, request, active) ==
    IF component.credential /\ ~request.credentials THEN "consent-required"
    ELSE IF /\ component.capability # NoId
            /\ active[component.capability] \notin {NoId, component.id}
         THEN IF item.installed THEN "preserve-inactive" ELSE "skip-dominated"
    ELSE IF item.incompatible THEN IF request.upgrades THEN "repair" ELSE "consent-required"
    ELSE IF item.broken THEN "repair"
    ELSE IF item.installed THEN "keep"
    ELSE Missing(component)

TierRank(tier) == IF tier \in Range(Tiers) THEN CHOOSE i \in 1 .. 4 : Tiers[i] = tier ELSE 5

\* By tier and name; components of one name keep the order of the catalog.
SortKey(c, id) ==
    LET component == ComponentByID(c, id)
    IN  <<TierRank(component.tier), component.name, CHOOSE i \in 1 .. Len(c.components) : c.components[i].id = id>>
SortsBefore(c, a, b) ==
    LET left == SortKey(c, a)
        right == SortKey(c, b)
    IN  \E i \in 1 .. 3 : left[i] < right[i] /\ \A j \in 1 .. i - 1 : left[j] = right[j]

SortedIds(c, selected) == CHOOSE sorted \in [1 .. Cardinality(selected) -> selected] :
    \A i, j \in DOMAIN sorted : i < j => SortsBefore(c, sorted[i], sorted[j])

\* Mutant of OrderByDependencies: the order of tiers and names is kept.
OrderByTier(c, sorted) == sorted

\* What the depth-first visit puts in order next while some are open, not in order yet: from
\* the first of these down to the first of its needs that is open, and so on to one that
\* lacks none.
NextVisited(c, sorted, open) ==
    LET first == sorted[Min({i \in 1 .. Len(sorted) : sorted[i] \in open})]
        needs(id) == ComponentByID(c, id).needs
        lacking(id) == {i \in 1 .. Len(needs(id)) : needs(id)[i] \in open}
        down == [id \in open |-> IF lacking(id) = {} THEN {} ELSE {needs(id)[Min(lacking(id))]}]
    IN  CHOOSE id \in Closure(down, {first}) : down[id] = {}

OrderByDependencies(c, sorted) ==
    LET Visited[n \in 0 .. Len(sorted)] ==
            IF n = 0 THEN <<>>
            ELSE LET done == Visited[n - 1]
                 IN  Append(done, NextVisited(c, sorted, Range(sorted) \ Range(done)))
    IN  Visited[Len(sorted)]

PlanOf(c, items, request, selected) ==
    LET active == Active(c, request, selected)
        order == OrderByDependencies(c, SortedIds(c, selected))
    IN  [error |-> "none", providers |-> active,
         actions |-> [i \in 1 .. Len(order) |->
            [id |-> order[i],
             kind |-> ActionKind(ComponentByID(c, order[i]), items[order[i]], request, active)]]]

Build(c, items, request) ==
    LET selected == Expand(c, Requested(c, request)) IN
    IF Refusal(c, request) # "none" THEN Refused(Refusal(c, request))
    ELSE IF ~(selected \subseteq IdsOf(c)) THEN Refused("missing")
    ELSE IF selected \cap request.exclude # {} THEN Refused("excluded")
    ELSE IF Ambiguous(c, request, selected) THEN Refused("ambiguous")
    ELSE IF ~Acyclic([id \in selected |-> Dependencies(c)[id]]) THEN Refused("cycle")
    ELSE PlanOf(c, items, request, selected)

-----------------------------------------------------------------------------
(* What a plan promises.                                                   *)

PlannedIds(plan) == {plan.actions[i].id : i \in 1 .. Len(plan.actions)}
KindIn(plan, id) == plan.actions[CHOOSE i \in 1 .. Len(plan.actions) : plan.actions[i].id = id].kind

\* Every dependency of a planned component is planned, and before it.
Ordered(c, plan) == \A i \in 1 .. Len(plan.actions) :
    \A need \in Range(ComponentByID(c, plan.actions[i].id).needs) :
        \E j \in 1 .. i - 1 : plan.actions[j].id = need

\* A component stands before one of an earlier tier or name only if something
\* between or at that place, of an earlier tier or name too, needs it.
TierOrderJustified(c, plan) ==
    LET at(i) == plan.actions[i].id
    IN  \A i, j \in 1 .. Len(plan.actions) : i < j /\ SortsBefore(c, at(j), at(i)) =>
            \E k \in i + 1 .. Len(plan.actions) :
                /\ ~SortsBefore(c, at(j), at(k))
                /\ at(i) \in Closure(Dependencies(c), {at(k)})

\* Of the components that provide one capability, at most one is put or left in use.
OneProvider(c, plan) == \A capability \in Capabilities(c) :
    LET used == {id \in Providing(c, capability, PlannedIds(plan)) :
                    KindIn(plan, id) \in {"install", "repair", "configure", "keep", "skip"}}
    IN  used \subseteq {plan.providers[capability]}

ProvidersPlanned(c, plan) == \A capability \in Capabilities(c) :
    plan.providers[capability] # NoId => plan.providers[capability] \in PlannedIds(plan)
=============================================================================
