-------------------------------- MODULE Setup -------------------------------
(***************************************************************************)
(* The life of the catalog's components on one machine: the inventory of   *)
(* internal/inventory and app.Service, the plans made from it, and what    *)
(* ApplyPlanned, MCPInit, DeactivateOwned and RemoveOwned do to packages,  *)
(* skill directories, the router configuration and the ownership record.   *)
(*                                                                         *)
(* Each operation is one step here: how operations interleave, crash and   *)
(* fail to save is the subject of ReviewedExecution.  Installer commands   *)
(* may fail, and the owner of the machine changes it between operations.   *)
(***************************************************************************)
EXTENDS Planner, Versions

CONSTANTS
    InitialSetups,  \* [catalog, versions, requests, changes, operations, loaded |-> "no"]: a
                    \* catalog, the versions found at first, the requests planned, and how many
                    \* changes of the owner and operations of AgentStack follow
    Offered,        \* versions a changed package may have
    Directory,      \* the places a skill pack is copied to
    Platform        \* the platform the program runs on

\* What a behaviour starts with: a catalog that has not been loaded yet.
Setups == [catalog : CatalogRecord, versions : {s.versions : s \in InitialSetups}, requests : SUBSET RequestRecord,
           changes : Nat, operations : Nat, loaded : {"no", "yes", "refused"}]

ASSUME SetupAssumption ==
    /\ InitialSetups \subseteq Setups
    /\ \A s \in InitialSetups : s.loaded = "no" /\ s.versions \in [IdsOf(s.catalog) -> VersionText]
    /\ Offered \subseteq VersionText

VARIABLES
    setup,      \* the member of InitialSetups, with what is left of its bounds
    version,    \* the version of each component's package; Absent
    skills,     \* the directories of each skill pack that exist
    servers,    \* the servers of the router configuration
    ownership,  \* state/ownership.json
    current,    \* the plan that is saved: the request, the items it was sealed with, the plan
    report      \* what ApplyPlanned returned last: the request, the plan, the components whose
                \* commands failed and the components whose actions failed

setupVars == <<setup, version, skills, servers, ownership, current, report>>

Absent == [core |-> <<>>, pre |-> <<>>, build |-> <<>>]
Packages == {"winget", "npm-global", "uv-tool"}
NotOwned == [source |-> "none", active |-> FALSE, paths |-> {}]
NoSavedPlan == [request |-> <<>>, items |-> <<>>, plan |-> Refused("none")]
NoReport == [request |-> <<>>, plan |-> Refused("none"), broken |-> {}, failed |-> {}]

catalog == setup.catalog
Ids == IdsOf(catalog)
C(id) == ComponentByID(catalog, id)

-----------------------------------------------------------------------------
(* The inventory.                                                          *)

\* LookPath finds commands of supported components; package lists name any package.
Detected(id, v) ==
    v # Absent /\ (C(id).platforms = {} \/ Platform \in C(id).platforms \/ C(id).kind \in Packages)

\* Mutant of OutsidePolicy: a package whose version has no order is let through.
OutsideParsedPolicy(id, v) ==
    C(id).policy # <<>> /\ Parsed(v) /\ ~Compatible(v, C(id).policy[1], C(id).policy[2])

\* applyVersionPolicies
OutsidePolicy(id, v) ==
    C(id).policy # <<>> /\ ~Compatible(v, C(id).policy[1], C(id).policy[2])

Scanned(id) ==
    LET found == Detected(id, version[id])
    IN  [installed |-> found, incompatible |-> found /\ OutsidePolicy(id, version[id]),
         broken |-> ownership[id].source # "none" /\ ~found]

\* applyManagedPathHealth
WithPathHealth(id, item) ==
    IF ownership[id].paths \subseteq skills[id] THEN item
    ELSE [item EXCEPT !.broken = TRUE, !.installed = ownership[id].paths \cap skills[id] # {}]

\* applyManagedRouterHealth
WithRouterHealth(id, item) ==
    IF ownership[id].source # "agentstack-router" THEN item
    ELSE [item EXCEPT !.installed = id \in servers, !.broken = id \notin servers]

Items == [id \in Ids |-> WithRouterHealth(id, WithPathHealth(id, Scanned(id)))]

\* What InventoryDigest covers.
Digest == <<Items, version, [id \in Ids |-> ownership[id].source # "none"]>>

-----------------------------------------------------------------------------
SetupInit ==
    /\ setup \in InitialSetups
    /\ version = setup.versions
    /\ skills = [id \in Ids |-> {}]
    /\ servers = {}
    /\ ownership = [id \in Ids |-> NotOwned]
    /\ current = NoSavedPlan
    /\ report = NoReport

Load ==
    /\ setup.loaded = "no"
    /\ setup' = [setup EXCEPT !.loaded = IF Validate(catalog) THEN "yes" ELSE "refused"]
    /\ UNCHANGED <<version, skills, servers, ownership, current, report>>

Operates ==
    /\ setup.loaded = "yes"
    /\ setup.operations > 0
    /\ setup' = [setup EXCEPT !.operations = @ - 1]

MakePlan(request) ==
    /\ Operates
    /\ current.request = <<>>
    /\ current' = [request |-> request, items |-> Digest, plan |-> Build(catalog, Items, request)]
    /\ report' = NoReport
    /\ UNCHANGED <<version, skills, servers, ownership>>

Acts(kind) == kind \in {"install", "repair"}

\* The scan that verifies an installation: the locked version may be outside the policy.
Verified(id) == ~OutsidePolicy(id, C(id).locked)

\* One action of a plan, over [version, skills, added, failed]; broken are the components whose
\* command fails, left the directories a skill pack that fails has copied before.
\* A router component has no installer command: invocationFor refuses it.
PerformAction(machine, action, broken, left) ==
    LET id == action.id
        component == C(id)
        Failed(m) == [m EXCEPT !.failed = @ \cup {id}]
        installed == [machine EXCEPT !.version[id] = component.locked]
        copied(S) == [machine EXCEPT !.skills[id] = @ \cup S, !.added[id] = S \ machine.skills[id]]
    IN  IF ~Acts(action.kind) THEN machine
        ELSE IF Range(component.needs) \cap machine.failed # {} THEN Failed(machine)
        ELSE IF component.kind = "skill-pack"
             THEN IF id \in broken THEN Failed(copied(left)) ELSE copied(Directory)
        ELSE IF component.kind \notin Packages \/ id \in broken THEN Failed(machine)
        ELSE IF ~Verified(id) THEN Failed(installed)
        ELSE installed

Machine == [version |-> version, skills |-> skills, added |-> [id \in Ids |-> {}], failed |-> {}]
AfterActions(plan, broken, left) ==
    LET After[n \in 0 .. Len(plan.actions)] ==
            IF n = 0 THEN Machine ELSE PerformAction(After[n - 1], plan.actions[n], broken, left)
    IN  After[Len(plan.actions)]

\* recordSuccessfulInstalls
RecordedInstalls(plan, machine) == [id \in Ids |->
    IF id \in PlannedIds(plan) /\ Acts(KindIn(plan, id)) /\ id \notin machine.failed
    THEN [source |-> "agentstack", active |-> TRUE, paths |-> ownership[id].paths \cup machine.added[id]]
    ELSE ownership[id]]

\* BuildRouterConfig
Configured(plan) == {id \in PlannedIds(plan) :
    C(id).kind = "router" /\ KindIn(plan, id) \in {"configure", "keep"}}

\* Mutant of RecordedRouters: the servers are written, and nothing is recorded of them.
NoRouterRecorded(config, record) == record

\* recordConfiguredRouters
RecordedRouters(config, record) == [id \in Ids |->
    IF id \in config THEN [source |-> "agentstack-router", active |-> TRUE, paths |-> {}]
    ELSE IF record[id].source = "agentstack-router" THEN [record[id] EXCEPT !.active = FALSE]
    ELSE record[id]]

SameInventory == current.items = Digest

\* The router is configured only after every action has succeeded.
ApplyPlanned(broken, left) ==
    /\ Operates
    /\ current.request # <<>> /\ current.plan.error = "none" /\ SameInventory
    /\ LET plan == current.plan
           after == AfterActions(plan, broken, left)
           config == Configured(plan)
       IN  /\ version' = after.version /\ skills' = after.skills
           /\ IF after.failed = {} /\ config # {}
              THEN /\ servers' = config
                   /\ ownership' = RecordedRouters(config, RecordedInstalls(plan, after))
              ELSE servers' = servers /\ ownership' = RecordedInstalls(plan, after)
           /\ report' = [request |-> current.request, plan |-> plan, broken |-> broken,
                         failed |-> after.failed]
    /\ current' = NoSavedPlan

\* A plan that is stale or was refused is not applied; another one is made.
PlanDropped ==
    /\ current.request # <<>>
    /\ current.plan.error # "none" \/ ~SameInventory
    /\ current' = NoSavedPlan
    /\ report' = NoReport
    /\ UNCHANGED <<setup, version, skills, servers, ownership>>

\* MCPInit plans and configures at once.
MCPInit(request) ==
    /\ Operates
    /\ LET plan == Build(catalog, Items, request) IN
       /\ plan.error = "none"
       /\ servers' = Configured(plan)
       /\ ownership' = RecordedRouters(Configured(plan), ownership)
    /\ report' = NoReport
    /\ UNCHANGED <<version, skills, current>>

DeactivateOwned(id) ==
    /\ Operates
    /\ ownership[id].source # "none"
    /\ servers' = IF C(id).kind = "router" THEN servers \ {id} ELSE servers
    /\ ownership' = [ownership EXCEPT ![id].active = FALSE]
    /\ report' = NoReport
    /\ UNCHANGED <<version, skills, current>>

\* ownedAction supports the removal of a skill pack only when paths were recorded.
RemoveOwned(id) ==
    /\ Operates
    /\ ownership[id].source # "none"
    /\ C(id).kind = "skill-pack" => ownership[id].paths # {}
    /\ version' = IF C(id).kind \in Packages THEN [version EXCEPT ![id] = Absent] ELSE version
    /\ skills' = [skills EXCEPT ![id] = @ \ ownership[id].paths]
    /\ servers' = servers \ {id}
    /\ ownership' = [ownership EXCEPT ![id] = NotOwned]
    /\ report' = NoReport
    /\ UNCHANGED current

\* The owner of the machine installs, upgrades or removes a package, or deletes a skill directory.
OwnerChanges(id) ==
    /\ setup.changes > 0
    /\ setup' = [setup EXCEPT !.changes = @ - 1]
    /\ \/ /\ C(id).kind \in Packages
          /\ \E v \in (Offered \cup {Absent}) \ {version[id]} : version' = [version EXCEPT ![id] = v]
          /\ UNCHANGED skills
       \/ /\ \E d \in skills[id] : skills' = [skills EXCEPT ![id] = @ \ {d}]
          /\ UNCHANGED version
    /\ report' = NoReport
    /\ UNCHANGED <<servers, ownership, current>>

Operate ==
    \/ Load
    \/ \E request \in setup.requests : MakePlan(request) \/ MCPInit(request)
    \/ \E broken \in SUBSET PlannedIds(current.plan), left \in SUBSET Directory : ApplyPlanned(broken, left)
    \/ PlanDropped
    \/ \E id \in Ids : DeactivateOwned(id) \/ RemoveOwned(id) \/ OwnerChanges(id)

SetupSpec == SetupInit /\ [][Operate]_setupVars

-----------------------------------------------------------------------------
SetupTypeOK ==
    /\ setup.loaded \in {"no", "yes", "refused"}
    /\ skills \in [Ids -> SUBSET Directory]
    /\ servers \subseteq Ids
    /\ \A id \in Ids : ownership[id].source \in {"none", "agentstack", "agentstack-router"}
    /\ \A id \in Ids : ownership[id].paths \subseteq Directory

\* A catalog that is accepted never makes the planner fail: for every request it can
\* resolve there is an order that puts dependencies first, the tiers and names decide
\* wherever dependencies leave the choice, and no capability gets two active providers.
PlanSound == current.request # <<>> =>
    /\ current.plan.error \notin {"missing", "cycle"}
    /\ current.plan.error = "none" =>
          /\ Ordered(catalog, current.plan) /\ TierOrderJustified(catalog, current.plan)
          /\ OneProvider(catalog, current.plan) /\ ProvidersPlanned(catalog, current.plan)
          /\ PlannedIds(current.plan) \cap current.request.exclude = {}

\* What npx and uvx download for the routers of an accepted catalog, to run or to warm
\* them up and behind cmd /c too, is an exact version, unless the command line has an
\* option before the tool whose value the code takes for something else.
AcceptedIsPinned == setup.loaded = "yes" => \A id \in Ids :
    C(id).kind = "router" /\ C(id).tier # NoId => \A i \in 1 .. Len(C(id).router.lines) :
        LET run == Unwrapped(C(id).router.lines[i]) IN
        run.program \in {"npx", "uvx"} /\ Understood(run.args) =>
            Fetched(run.args) # {} /\ Fetched(run.args) \subseteq {"exact", "flag=exact"}

\* A package is kept exactly if its version lies in the policy's range by the precedence of
\* SemVer, and consent to upgrade is asked exactly for one that does not, or where the
\* version or a bound has no precedence.
VersionsJudged == current.plan.error = "none" => \A id \in PlannedIds(current.plan) :
    C(id).kind \in Packages /\ ~C(id).credential /\ C(id).capability = NoId
    /\ C(id).policy # <<>> /\ current.items[2][id] # Absent =>
        LET v == current.items[2][id]
            inside == /\ \A bound \in Range(C(id).policy) \ {Unbounded} : Parsed(v) /\ Parsed(bound)
                      /\ Within(v, C(id).policy[1], C(id).policy[2])
        IN  KindIn(current.plan, id) =
               (IF inside THEN "keep"
                ELSE IF current.request.upgrades THEN "repair" ELSE "consent-required")

\* After an apply in which everything succeeded, the same request finds nothing left to
\* install or to configure.
ApplyConverges == report.request # <<>> /\ report.failed = {} =>
    LET again == Build(catalog, Items, report.request)
    IN  again.error = "none" /\ \A id \in PlannedIds(again) : KindIn(again, id) \notin {"install", "configure"}

\* USER_GUIDE.md: a repair is planned for a component whose postcondition is no longer
\* satisfied.  When no command fails, the repair leaves the component in order.
RepairRestores == report.request # <<>> /\ report.broken = {} =>
    \A id \in PlannedIds(report.plan) : KindIn(report.plan, id) = "repair" => ~Items[id].broken
=============================================================================
