------------------------------ MODULE MCSetups ------------------------------
(***************************************************************************)
(* The catalogs, inventories and requests the runs start Setup with.       *)
(***************************************************************************)
EXTENDS Planner, TLC

\* "1.n.0", for one digit n, and no version at all.
Of(n) == [core |-> <<<<49>>, <<48 + n>>, <<48>>>>, pre |-> <<>>, build |-> <<>>]
None == [core |-> <<>>, pre |-> <<>>, build |-> <<>>]

Line(program, args) == [program |-> program, args |-> args]
Package(id) ==
    [id |-> id, name |-> 1, tier |-> "essential", capability |-> NoId, preferred |-> FALSE,
     credential |-> FALSE, kind |-> "winget", needs |-> <<>>, platforms |-> {"windows"},
     policy |-> <<>>, locked |-> Of(2),
     install |-> [complete |-> TRUE, exact |-> TRUE, guided |-> TRUE, hint |-> TRUE],
     router |-> [lines |-> <<Line("other", <<>>)>>, limits |-> "valid"]]
Needing(component, needs) == [component EXCEPT !.needs = needs]
RouterOf(id, lines) == [Package(id) EXCEPT !.kind = "router", !.router.lines = lines]
Router(id, program, args) == RouterOf(id, <<Line(program, args)>>)

Everything(components) == [id |-> "full", components |-> [i \in 1 .. Len(components) |-> components[i].id]]
CatalogOf(components) ==
    [version |-> 1, components |-> components,
     profiles |-> <<Everything(components), [id |-> "core", components |-> <<components[1].id>>]>>]

Request(profile, include, exclude, overrides) ==
    [profile |-> profile, include |-> include, exclude |-> exclude, overrides |-> overrides,
     credentials |-> FALSE, upgrades |-> FALSE]
Full == Request("full", {}, {}, {})
Upgrading(request) == [request EXCEPT !.upgrades = TRUE]

SetupOf(components, versions, requests, changes, operations) ==
    [catalog |-> CatalogOf(components), versions |-> versions, requests |-> requests,
     changes |-> changes, operations |-> operations, loaded |-> "no"]
Nothing(components) == [id \in {components[i].id : i \in 1 .. Len(components)} |-> None]

Three == <<"a", "b", "c">>
Arrows == {<<i, j>> : i, j \in 1 .. 3}
Graph(arrows) == [i \in 1 .. 3 |->
    Needing(Package(Three[i]), SelectSeq(Three, LAMBDA id : \E j \in 1 .. 3 : Three[j] = id /\ <<i, j>> \in arrows))]

\* Every dependency graph of three packages, with components that need themselves and
\* cycles; and one whose dependency does not exist.
Graphs == {SetupOf(Graph(arrows), Nothing(Graph(arrows)),
                   {Request("core", {}, {}, {}), Request("core", {"b"}, {"c"}, {})}, 0, 1) : arrows \in SUBSET Arrows}
    \cup {SetupOf(<<Needing(Package("a"), <<"d">>)>>, ("a" :> None), {Full}, 0, 1)}

\* Providers of one capability, in several tiers, above and below one another.
Tiered(arrows, tiers, providers, preferred) == [i \in 1 .. 3 |->
    [Graph(arrows)[i] EXCEPT !.tier = tiers[i],
                             !.capability = IF i \in providers THEN "browse" ELSE NoId,
                             !.preferred = i \in preferred]]
Forwards == {{<<1, 2>>}, {<<1, 3>>, <<2, 3>>}, {<<3, 1>>, <<1, 2>>}, {<<2, 1>>, <<3, 2>>}, {}}
Providers == {SetupOf(Tiered(arrows, tiers, providers, preferred),
                      [Nothing(Graph({})) EXCEPT !["b"] = installed],
                      {Full, Request("core", {"c"}, {}, {}), Request("full", {}, {"b"}, {}),
                       Request("core", {}, {}, {<<"browse", "b">>}), Request("none", {}, {}, {})}, 0, 1) :
    arrows \in Forwards, tiers \in {<<"essential", "essential", "essential">>, <<"optional-local", "credential", "essential">>},
    providers \in {{1, 2}, {2, 3}, {1, 2, 3}}, preferred \in {{}, {2}, {1, 2}}, installed \in {None, Of(2)}}

\* Command lines of a router, with npx and uvx: up to two of all tokens, and three of those
\* that decide; shorter ones behind cmd /c, for cmd itself and as the line that warms a router up.
Deciding == {"setting", "with", "flag", "flag=exact", "flag=floating", "exact", "floating"}
ArgsOf(tokens, most) == UNION {[1 .. n -> tokens] : n \in 0 .. most}
Launches ==
    {<<Line(program, args)>> : program \in {"npx", "uvx"}, args \in ArgsOf(Tokens, 2) \cup ArgsOf(Deciding, 3)}
    \cup {<<Line("cmd", <<"/c", program>> \o args)>> : program \in {"npx", "uvx", "exact"}, args \in ArgsOf(Deciding, 2)}
    \cup {<<Line("npx", <<"exact">>), Line(program, args)>> : program \in {"cmd", "uvx"}, args \in ArgsOf(Tokens, 1) \cup ArgsOf(Deciding, 2)}
    \cup {<<Line("npx", <<"exact">>), Line("cmd", <<"/c", program, arg>>)>> : program \in {"npx", "uvx"}, arg \in Tokens}
CommandLines == {SetupOf(<<RouterOf("r", lines)>>, ("r" :> None), {}, 0, 0) : lines \in Launches}

\* Version texts: short and long numbers, numeric identifiers with and without leading
\* zeros, text, empty identifiers, and cores of two parts.
One == <<49>>
Two == <<50>>
Ten == <<49, 48>>
Zero == <<48>>
ZeroOne == <<48, 49>>
Alpha == <<97>>
Beta == <<98>>
Hyphened == <<45, 49>>
Cores == {<<One, Two, Zero>>, <<One, Ten, Zero>>, <<One, Two, ZeroOne>>, <<One, Two>>}
Prereleases == {<<>>, <<<<>>>>, <<One>>, <<Two>>, <<Ten>>, <<ZeroOne>>, <<Alpha>>, <<Beta>>, <<Hyphened>>,
                <<Alpha, One>>, <<Alpha, Two>>, <<Alpha, Ten>>, <<Alpha, Beta>>}
Texts == {[core |-> <<One, Two, Zero>>, pre |-> pre, build |-> <<>>] : pre \in Prereleases}
    \cup {[core |-> core, pre |-> pre, build |-> <<>>] : core \in Cores, pre \in {<<>>, <<Alpha>>}}
    \cup {[core |-> <<One, Two, Zero>>, pre |-> <<Alpha>>, build |-> build] : build \in {<<ZeroOne>>, <<<<>>>>}}
Ranges == {<<None, v>> : v \in Texts} \cup {<<v, None>> : v \in Texts}
    \cup {<<[core |-> <<One, Two, Zero>>, pre |-> <<Alpha>>, build |-> <<>>],
            [core |-> <<One, Ten, Zero>>, pre |-> <<>>, build |-> <<>>]>>}
Judged == {SetupOf(<<[Package("a") EXCEPT !.policy = range]>>, ("a" :> v), {Full, Upgrading(Full)}, 0, 1) :
    range \in Ranges, v \in Texts}

\* The life of a tool that needs node, of a skill pack and of two routers of one capability.
Node == [Package("node") EXCEPT !.policy = <<Of(1), Of(2)>>]
Tool == [Needing(Package("tool"), <<"node">>) EXCEPT !.kind = "npm-global"]
Skills == [Package("skill") EXCEPT !.kind = "skill-pack", !.tier = "recommended"]
Browser == [Router("browser", "npx", <<"flag", "exact", "exact">>)
               EXCEPT !.capability = "browse", !.preferred = TRUE, !.needs = <<"node">>]
Reader == [Router("reader", "other", <<>>) EXCEPT !.capability = "browse", !.name = 0]

Installing == SetupOf(<<Node, Tool, Skills>>, Nothing(<<Node, Tool, Skills>>), {Full, Upgrading(Full)}, 1, 4)
Routing == SetupOf(<<Node, Browser, Reader>>, Nothing(<<Node, Browser, Reader>>),
                   {Full, Request("full", {}, {}, {<<"browse", "reader">>})}, 1, 4)
Repairing == SetupOf(<<Node, Router("browser", "npx", <<"exact">>)>>, ("node" :> None @@ "browser" :> None),
                     {Full}, 0, 5)

\* What the runs of MCReviewedExecution apply: the plan of node, a tool that needs it, a
\* skill pack that needs the tool, and a router.
Reviewed == <<Package("node"), Needing([Package("tool") EXCEPT !.kind = "npm-global"], <<"node">>),
              Needing([Package("skill") EXCEPT !.kind = "skill-pack"], <<"tool">>),
              [Router("router", "npx", <<"exact">>) EXCEPT !.tier = "optional-local"]>>
Absence == [installed |-> FALSE, broken |-> FALSE, incompatible |-> FALSE]
ReviewedPlan == Build(CatalogOf(Reviewed), [id \in IdsOf(CatalogOf(Reviewed)) |-> Absence], Full)
=============================================================================
