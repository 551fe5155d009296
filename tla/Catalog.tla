------------------------------- MODULE Catalog ------------------------------
(***************************************************************************)
(* catalog/catalog.go: Validate, the rules a catalog must meet before the  *)
(* program starts with it, and what a router's command line downloads.     *)
(*                                                                         *)
(* A catalog is [version, components, profiles].  Of an install record the *)
(* model keeps whether its identity is complete and whether its package    *)
(* carries the exact version that is locked; of a router, its process      *)
(* limits, its command line and that which warms it up, if it has one.     *)
(***************************************************************************)
EXTENDS Integers, Sequences, FiniteSets, Functions, FiniteSetsExt

NoId == "-"
Tiers == <<"essential", "recommended", "optional-local", "credential">>
InstallKinds == {"none", "winget", "npm-global", "uv-tool", "router", "skill-pack", "manual"}

\* A command line is a program, its name folded as the code folds it, and arguments as
\* tokens: package specifications ("latest" spells @latest), the /c of the command
\* interpreter, names of programs, and options.  "flag" is --package, -p or --from, "flag="
\* the same with its value in one token.  The code does not know the others: "option" has
\* no token for its value, "setting" takes the next token as its value (--registry), and
\* "with" names one more package there, "with=" in the same token (--with of uvx).
Options == {"option", "setting", "with", "with=exact", "with=floating",
            "flag", "flag=exact", "flag=floating"}
Tokens == Options \cup {"exact", "floating", "latest", "/c", "npx", "uvx"}
CommandLine == [program : STRING, args : Seq(Tokens)]

\* model.Component, model.Profile and model.Catalog; a policy is a minimum and a maximum.
VersionText == [core : Seq(Seq(Nat)), pre : Seq(Seq(Nat)), build : Seq(Seq(Nat))]
ComponentRecord ==
    [id : STRING, name : Nat, tier : {Tiers[i] : i \in 1 .. 4} \cup {NoId}, capability : STRING,
     preferred : BOOLEAN, credential : BOOLEAN, kind : STRING, needs : Seq(STRING),
     platforms : SUBSET STRING, policy : {<<>>} \cup (VersionText \X VersionText), locked : VersionText,
     install : [complete : BOOLEAN, exact : BOOLEAN, guided : BOOLEAN, hint : BOOLEAN],
     router : [lines : Seq(CommandLine), limits : STRING]]
ProfileRecord == [id : STRING, components : Seq(STRING)]
CatalogRecord == [version : Nat, components : Seq(ComponentRecord), profiles : Seq(ProfileRecord)]

IdsOf(c) == {c.components[i].id : i \in 1 .. Len(c.components)}
ComponentByID(c, id) == c.components[CHOOSE i \in 1 .. Len(c.components) :
    c.components[i].id = id /\ \A j \in 1 .. i - 1 : c.components[j].id # id]
ProfileByID(c, id) == c.profiles[CHOOSE i \in 1 .. Len(c.profiles) : c.profiles[i].id = id]

Repeats(s) == \E i, j \in 1 .. Len(s) : i # j /\ s[i] = s[j]
Positional(args) == {i \in 1 .. Len(args) : args[i] \notin Options}

\* npx: every package flag anywhere, then the first argument that is not a flag.
NpxPinned(args) ==
    /\ \A i \in 1 .. Len(args) : args[i] = "flag" => i < Len(args) /\ args[i + 1] = "exact"
    /\ \A i \in 1 .. Len(args) : args[i] # "flag=floating"
    /\ Positional(args) # {}
    /\ args[Min(Positional(args))] = "exact"

\* uvx: what precedes and includes the first argument that is no flag and no flag's value.
UvxPinned(args) ==
    LET tools == {i \in Positional(args) : i = 1 \/ args[i - 1] # "flag"}
    IN  /\ tools # {} /\ args[Min(tools)] = "exact"
        /\ \A i \in 1 .. Min(tools) - 1 :
              args[i] # "flag=floating" /\ (args[i] = "flag" => args[i + 1] = "exact")

\* What cmd /c runs is looked at instead of cmd.
Unwrapped(line) ==
    IF line.program = "cmd" /\ Len(line.args) >= 2 /\ line.args[1] = "/c"
    THEN [program |-> line.args[2], args |-> SubSeq(line.args, 3, Len(line.args))]
    ELSE line

\* validateRouterAcquisition, of a line that is not wrapped
AcquisitionPinned(line) ==
    /\ line.program = "npx" => NpxPinned(line.args)
    /\ line.program = "uvx" => UvxPinned(line.args)

\* Mutant of Pinned: what cmd /c runs is not looked at.
PinnedAsGiven(line) == "latest" \notin Range(line.args) /\ AcquisitionPinned(line)

Pinned(line) == "latest" \notin Range(line.args) /\ AcquisitionPinned(Unwrapped(line))

\* validateSupplyChainLock
Locked(component) ==
    LET install == component.install IN
    /\ component.kind \in InstallKinds
    /\ component.kind = "winget" => install.complete
    /\ component.kind \in {"npm-global", "uv-tool", "skill-pack"} => install.complete /\ install.exact
    /\ component.kind = "router" =>
          /\ install.complete                       \* it has a router definition
          /\ component.router.limits = "valid"
          /\ \A i \in 1 .. Len(component.router.lines) : Pinned(component.router.lines[i])
    /\ component.credential /\ component.kind = "manual" => install.guided
    /\ component.credential /\ component.kind # "none" => install.hint

Dependencies(c) == [id \in IdsOf(c) |-> Range(ComponentByID(c, id).needs)]

\* What a set of components needs, directly or not: the least set that holds it and what
\* its members need.
Closure(needs, S) ==
    LET Arrows == UNION {{id} \X needs[id] : id \in DOMAIN needs}
        Universe == S \cup {arrow[2] : arrow \in Arrows}
        Closed == {T \in SUBSET Universe :
                      S \subseteq T /\ \A arrow \in Arrows : arrow[1] \in T => arrow[2] \in T}
    IN  {id \in Universe : \A T \in Closed : id \in T}

Acyclic(needs) == \A id \in DOMAIN needs : id \notin Closure(needs, needs[id])

\* Mutant of ValidDependencies: only a component that needs itself is a cycle.
NoSelfDependency(c) == \A i \in 1 .. Len(c.components) :
    LET component == c.components[i] IN
    component.id \notin Range(component.needs) /\ Range(component.needs) \subseteq IdsOf(c)

ValidDependencies(c) ==
    /\ \A i \in 1 .. Len(c.components) :
          ~Repeats(c.components[i].needs) /\ Range(c.components[i].needs) \subseteq IdsOf(c)
    /\ Acyclic(Dependencies(c))

ValidComponents(c) ==
    /\ \A i \in 1 .. Len(c.components) :
          LET component == c.components[i] IN
          /\ component.id # NoId
          /\ component.kind = "router" => component.install.complete
          /\ component.tier # NoId => component.platforms # {} /\ Locked(component)
    /\ ~Repeats([i \in 1 .. Len(c.components) |-> c.components[i].id])
    /\ \A i, j \in 1 .. Len(c.components) :
          /\ i # j /\ c.components[i].preferred /\ c.components[j].preferred
          /\ c.components[i].capability # NoId
          => c.components[i].capability # c.components[j].capability

ValidProfiles(c) ==
    /\ \A i \in 1 .. Len(c.profiles) :
          c.profiles[i].id # NoId /\ Range(c.profiles[i].components) \subseteq IdsOf(c)
    /\ ~Repeats([i \in 1 .. Len(c.profiles) |-> c.profiles[i].id])

Validate(c) ==
    c.version >= 1 /\ ValidComponents(c) /\ ValidDependencies(c) /\ ValidProfiles(c)

-----------------------------------------------------------------------------
(* npx and uvx: the packages a command line downloads are the values of    *)
(* the package flags before the tool, or else the tool itself, and the     *)
(* values of "with".  What follows the tool is the tool's.                 *)

Tools(args) == {i \in Positional(args) : i = 1 \/ args[i - 1] \notin {"flag", "setting", "with"}}
Before(args) == IF Tools(args) = {} THEN 1 .. Len(args) ELSE 1 .. Min(Tools(args)) - 1
ValuesOf(option, args) == {args[i + 1] : i \in {j \in Before(args) : args[j] = option /\ j < Len(args)}}

Named(args) ==
    ValuesOf("flag", args) \cup ({args[i] : i \in Before(args)} \cap {"flag=exact", "flag=floating"})
Added(args) ==
    ValuesOf("with", args) \cup ({args[i] : i \in Before(args)} \cap {"with=exact", "with=floating"})
Fetched(args) == Added(args) \cup
    IF Named(args) # {} THEN Named(args)
    ELSE {args[i] : i \in Tools(args) \cap {Min(Tools(args) \cup {Len(args) + 1})}}

\* Before the tool there are only options whose values the code finds.
Understood(args) ==
    \A i \in Before(args) : args[i] \notin {"setting", "with", "with=exact", "with=floating"}
=============================================================================
