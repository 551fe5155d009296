-------------------------- MODULE ReviewedExecution --------------------------
(***************************************************************************)
(* Reviewed plans, the transaction journal, ownership and the router       *)
(* configuration, as the operations of internal/app change them:           *)
(* reviewedplan.Executor.Execute around runner.Engine.Apply, ApplyPlanned, *)
(* MCPInit, Inventory, Plan, RemoveOwned and the start-up maintenance of   *)
(* bootstrap.go.                                                           *)
(*                                                                         *)
(* Every member of Op is one run of one operation in a process of its own. *)
(* A step is one access to a shared file or one command on the machine;    *)
(* any operation may crash between two steps, and any write may fail.  The *)
(* mutation lease is the abstract ExclusiveLease.                          *)
(***************************************************************************)
EXTENDS Naturals, Sequences, FiniteSets

CONSTANTS
    Op,         \* runs of operations
    KindOf,     \* what each run does
    Meetings,   \* which runs happen in one behaviour
    Plan,       \* plan identifiers
    NoPlan,
    Component,  \* catalog components
    Actions,    \* the plans' actions: components in dependency order
    Installs,   \* components that an installer command installs
    Routers,    \* components whose action adds a router entry
    DependsOn,  \* the catalog's dependency lists
    Faults      \* may a write to the state directory fail?

Kind == {"apply", "mcpinit", "remove", "startup", "inventory", "plan"}
Unlocked == {"inventory", "plan"}

Planned == {Actions[i] : i \in 1 .. Len(Actions)}

ASSUME ExecutionAssumption ==
    /\ KindOf \in [Op -> Kind]
    /\ Meetings \subseteq SUBSET Op
    /\ NoPlan \notin Plan
    /\ Actions \in Seq(Component)
    /\ \A i, j \in 1 .. Len(Actions) : Actions[i] = Actions[j] => i = j
    /\ Installs \subseteq Component /\ Routers \subseteq Component
    /\ Installs \cap Routers = {}
    /\ DependsOn \in [Component -> SUBSET Component]
    /\ Faults \in BOOLEAN

\* expandDependencies selects every dependency and orderByDependencies puts it
\* before its dependents.
ASSUME PlanOrdered ==
    \A i \in 1 .. Len(Actions) : \A d \in DependsOn[Actions[i]] : \E j \in 1 .. i - 1 : Actions[j] = d

VARIABLES
    holders,    \* who holds the mutation lease
    saved,      \* the plan files
    sealed,     \* the inventory each plan was sealed with
    installed,  \* the machine: components that are installed
    owned,      \* state/ownership.json
    journal,    \* transactions/<id>.json, by the run that writes it
    router,     \* the servers of the managed router configuration
    pc,         \* where each run is
    plan,       \* the plan a run executes
    scan,       \* the inventory a run has taken
    snap,       \* the ownership a run has loaded
    tx,         \* the transaction of a run, in memory
    next        \* the position in Actions a run is at

files == <<saved, sealed, owned, journal, router>>
locals == <<plan, scan, snap, tx, next>>
vars == <<holders, files, installed, pc, locals>>

Outcome == {"pending", "kept", "ok", "failed"}
Status == {"none", "running", "succeeded", "partial", "failed", "interrupted"}
Tx == [status : Status, out : [Component -> Outcome]]
NoTx == [status |-> "none", out |-> [c \in Component |-> "pending"]]

\* What an inventory records: what is installed and what AgentStack manages.
Inventory == [installed : SUBSET Component, managed : SUBSET Component]
NoInventory == [installed |-> {}, managed |-> {}]

PC == {"new", "load", "inventory", "scan", "reconcile", "savePlan", "dropPlan",
       "revalidate", "consume", "publish", "act", "running", "checkpoint", "final",
       "save", "record", "recordSave", "routerWrite", "routerLoad", "routerSave",
       "register", "removeLoad", "remove", "uninstalled", "recover", "recovered",
       "close", "closeOk", "done"}

TypeOK ==
    /\ holders \in SUBSET Op
    /\ saved \in SUBSET Plan
    /\ sealed \in [Plan -> Inventory]
    /\ installed \in SUBSET Component
    /\ owned \in SUBSET Component
    /\ journal \in [Op -> Tx]
    /\ router \in SUBSET Component
    /\ pc \in [Op -> PC]
    /\ plan \in [Op -> Plan \cup {NoPlan}]
    /\ scan \in [Op -> Inventory]
    /\ snap \in [Op -> SUBSET Component]
    /\ tx \in [Op -> Tx]
    /\ next \in [Op -> 1 .. Len(Actions) + 1]

Init ==
    /\ holders = {}
    /\ saved = {}
    /\ sealed = [p \in Plan |-> NoInventory]
    /\ installed = {}
    /\ owned = {}
    /\ journal = [o \in Op |-> NoTx]
    /\ router = {}
    /\ \E S \in Meetings : pc = [o \in Op |-> IF o \in S THEN "new" ELSE "done"]
    /\ plan = [o \in Op |-> NoPlan]
    /\ scan = [o \in Op |-> NoInventory]
    /\ snap = [o \in Op |-> {}]
    /\ tx = [o \in Op |-> NoTx]
    /\ next = [o \in Op |-> 1]

At(o, label) == pc[o] = label
Goto(o, label) == pc' = [pc EXCEPT ![o] = label]
DropLocals(o) ==
    /\ scan' = [scan EXCEPT ![o] = NoInventory]
    /\ snap' = [snap EXCEPT ![o] = {}]
    /\ UNCHANGED <<plan, tx, next>>

-----------------------------------------------------------------------------
(* AcquireLease and Close *)

Lease == INSTANCE ExclusiveLease

FirstStep(o) ==
    CASE KindOf[o] = "apply" -> "load"
      [] KindOf[o] = "remove" -> "removeLoad"
      [] KindOf[o] = "startup" -> "recover"
      [] OTHER -> "inventory"

\* Mutant of Acquire: start-up does its maintenance without the lease.
AcquireUnlessStartup(o) ==
    /\ At(o, "new")
    /\ KindOf[o] \notin Unlocked
    /\ IF KindOf[o] = "startup" THEN UNCHANGED holders ELSE Lease!Acquire(o)
    /\ Goto(o, FirstStep(o))
    /\ UNCHANGED <<files, installed, locals>>

Acquire(o) ==
    /\ At(o, "new")
    /\ KindOf[o] \notin Unlocked
    /\ Lease!Acquire(o)
    /\ Goto(o, FirstStep(o))
    /\ UNCHANGED <<files, installed, locals>>

\* ErrMutationBusy: the operation is refused; start-up skips its maintenance.
Busy(o) ==
    /\ At(o, "new")
    /\ KindOf[o] \notin Unlocked
    /\ holders # {}
    /\ Goto(o, "done")
    /\ UNCHANGED <<holders, files, installed, locals>>

\* Inventory and Plan run without the lease.
StartUnlocked(o) ==
    /\ At(o, "new")
    /\ KindOf[o] \in Unlocked
    /\ Goto(o, FirstStep(o))
    /\ UNCHANGED <<holders, files, installed, locals>>

\* The deferred lease.Close.  ApplyPlanned configures the router only after
\* Execute, and with it the lease, is over.
Close(o) ==
    /\ pc[o] \in {"close", "closeOk", "recovered"}
    /\ Lease!Release({o})
    /\ Goto(o, IF At(o, "closeOk") /\ KindOf[o] = "apply" /\ Routers # {}
               THEN "routerWrite" ELSE "done")
    /\ UNCHANGED <<files, installed, locals>>

-----------------------------------------------------------------------------
(* Service.Inventory, Service.Plan, the transient plan of MCPInit.  A local *)
(* that goes out of scope is reset.                                        *)

LoadOwnership(o) ==
    /\ At(o, "inventory")
    /\ snap' = [snap EXCEPT ![o] = owned]
    /\ Goto(o, "scan")
    /\ UNCHANGED <<holders, files, installed, plan, scan, tx, next>>

\* A router entry counts as installed when it is managed and configured.
Scan(o) ==
    /\ At(o, "scan")
    /\ scan' = [scan EXCEPT ![o] = [installed |-> installed \cup (snap[o] \cap router),
                                   managed |-> snap[o]]]
    /\ Goto(o, "reconcile")
    /\ UNCHANGED <<holders, files, installed, plan, snap, tx, next>>

\* reconcileOwnershipHealth saves the ownership it loaded when the health, the
\* version or the age of some record calls for it.
Reconcile(o) ==
    /\ At(o, "reconcile")
    /\ \/ owned' = owned
       \/ snap[o] # {} /\ owned' = snap[o]
    /\ snap' = [snap EXCEPT ![o] = {}]
    /\ Goto(o, CASE KindOf[o] = "apply" -> "revalidate"
                 [] KindOf[o] = "inventory" -> "done"
                 [] OTHER -> "savePlan")
    /\ UNCHANGED <<holders, saved, sealed, journal, router, installed,
                   plan, scan, tx, next>>

\* planner.Seal binds a plan with a new identifier to the inventory just taken.
SavePlan(o) ==
    /\ At(o, "savePlan")
    /\ \E p \in Plan :
         /\ p \notin saved /\ \A q \in Op : plan[q] # p
         /\ saved' = saved \cup {p}
         /\ sealed' = [sealed EXCEPT ![p] = scan[o]]
         /\ plan' = [plan EXCEPT ![o] = p]
    /\ scan' = [scan EXCEPT ![o] = NoInventory]
    /\ Goto(o, IF KindOf[o] = "mcpinit" THEN "dropPlan" ELSE "done")
    /\ UNCHANGED <<holders, owned, journal, router, installed, snap, tx, next>>

\* The plan files after DeletePlan.  Mutant: the plan is kept for a retry.
KeepPlan(o) == saved
DeletePlan(o) == saved \ {plan[o]}

\* "consume transient MCP plan before mutation"
DropTransientPlan(o) ==
    /\ At(o, "dropPlan")
    /\ saved' = DeletePlan(o)
    /\ Goto(o, "routerWrite")
    /\ UNCHANGED <<holders, sealed, owned, journal, router, installed, locals>>

\* Reading or writing a file of the state directory failed before anything was
\* changed outside it: the operation returns the error.
FailsEarly(o) ==
    /\ Faults
    /\ pc[o] \in {"inventory", "reconcile", "savePlan", "dropPlan", "revalidate",
                  "consume", "recover"}
    /\ Goto(o, IF KindOf[o] \in Unlocked THEN "done" ELSE "close")
    /\ DropLocals(o)
    /\ UNCHANGED <<holders, files, installed>>

-----------------------------------------------------------------------------
(* reviewedplan.Executor.Execute *)

LoadPlan(o) ==
    /\ At(o, "load")
    /\ \E p \in saved : plan' = [plan EXCEPT ![o] = p]
    /\ Goto(o, "inventory")
    /\ UNCHANGED <<holders, files, installed, scan, snap, tx, next>>

\* No such plan, another digest, an expired plan or another catalog.
PlanRefused(o) ==
    /\ At(o, "load")
    /\ Goto(o, "close")
    /\ UNCHANGED <<holders, files, installed, locals>>

\* The inventory is the one the plan was sealed with.  Mutant: any will do.
HasPlan(o) == plan[o] # NoPlan
StillReviewed(o) == scan[o] = sealed[plan[o]]

\* The inventory must still be the sealed one; then lease.Touch.
Revalidate(o) ==
    /\ At(o, "revalidate")
    /\ Goto(o, IF StillReviewed(o) THEN "consume" ELSE "close")
    /\ scan' = [scan EXCEPT ![o] = NoInventory]
    /\ UNCHANGED <<holders, files, installed, plan, snap, tx, next>>

\* The approval is consumed before the first mutation.
Consume(o) ==
    /\ At(o, "consume")
    /\ saved' = DeletePlan(o)
    /\ tx' = [tx EXCEPT ![o].status = "running"]
    /\ Goto(o, "publish")
    /\ UNCHANGED <<holders, sealed, owned, journal, router, installed,
                   plan, scan, snap, next>>

\* SaveTransaction of the finished run.
SaveFinal(o) ==
    /\ At(o, "save")
    /\ \/ journal' = [journal EXCEPT ![o] = tx[o]] /\ Goto(o, "record")
       \/ Faults /\ UNCHANGED journal /\ Goto(o, "close")
    /\ UNCHANGED <<holders, saved, sealed, owned, router, installed, locals>>

\* recordSuccessfulInstalls: load, add every action without an error, save.
RecordLoad(o) ==
    /\ At(o, "record")
    /\ snap' = [snap EXCEPT ![o] = owned]
    /\ Goto(o, "recordSave")
    /\ UNCHANGED <<holders, files, installed, plan, scan, tx, next>>

\* The actions that become owned.  Mutant: the record that stands for a journal
\* failure becomes owned too.
RecordedWithJournal(o) ==
    {c \in Installs : tx[o].out[c] = "ok"}
      \cup (IF tx[o].status = "failed" THEN {"agentstack-state"} ELSE {})
Recorded(o) == {c \in Installs : tx[o].out[c] = "ok"}

RecordSave(o) ==
    /\ At(o, "recordSave")
    /\ \/ /\ owned' = snap[o] \cup Recorded(o)
          /\ Goto(o, IF tx[o].status = "failed" THEN "close" ELSE "closeOk")
       \/ Faults /\ UNCHANGED owned /\ Goto(o, "close")
    /\ snap' = [snap EXCEPT ![o] = {}]
    /\ UNCHANGED <<holders, saved, sealed, journal, router, installed,
                   plan, scan, tx, next>>

-----------------------------------------------------------------------------
(* runner.Engine.Apply *)

Publish(o) ==
    /\ At(o, "publish")
    /\ \/ journal' = [journal EXCEPT ![o] = tx[o]] /\ Goto(o, "act") /\ UNCHANGED tx
       \/ /\ Faults
          /\ tx' = [tx EXCEPT ![o].status = "failed"]
          /\ Goto(o, "save")
          /\ UNCHANGED journal
    /\ UNCHANGED <<holders, saved, sealed, owned, router, installed,
                   plan, scan, snap, next>>

\* The planner keeps what the sealed inventory shows as installed.
ToInstall(p) == Installs \ sealed[p].installed

\* A dependency is in the map of failed components.  Mutant: components refused
\* for their dependencies are not entered there.
DependencyCommandFailed(o, c) ==
    \E d \in DependsOn[c] :
        tx[o].out[d] = "failed" /\ \A e \in DependsOn[d] : tx[o].out[e] # "failed"
DependencyFailed(o, c) == \E d \in DependsOn[c] : tx[o].out[d] = "failed"

\* The next action of the plan: nothing to do, refused because a dependency
\* failed, or its command is started.
Act(o) ==
    LET c == Actions[next[o]]
        installs == c \in ToInstall(plan[o])
    IN /\ At(o, "act")
       /\ next[o] <= Len(Actions)
       /\ \/ /\ ~installs
             /\ tx' = [tx EXCEPT ![o].out[c] = "kept"]
             /\ Goto(o, "checkpoint")
          \/ /\ installs /\ DependencyFailed(o, c)
             /\ tx' = [tx EXCEPT ![o].out[c] = "failed", ![o].status = "failed"]
             /\ Goto(o, "checkpoint")
          \/ /\ installs /\ ~DependencyFailed(o, c)
             /\ Goto(o, "running")
             /\ UNCHANGED tx
       /\ UNCHANGED <<holders, files, installed, plan, scan, snap, next>>

\* The command, the PATH refresh and the postcondition scan: success, or a
\* failure that may have changed the machine all the same.
RunAction(o) ==
    LET c == Actions[next[o]]
    IN /\ At(o, "running")
       /\ \/ /\ installed' = installed \cup {c}
             /\ tx' = [tx EXCEPT ![o].out[c] = "ok"]
          \/ /\ installed' \in {installed, installed \cup {c}}
             /\ tx' = [tx EXCEPT ![o].out[c] = "failed", ![o].status = "failed"]
       /\ Goto(o, "checkpoint")
       /\ UNCHANGED <<holders, files, plan, scan, snap, next>>

\* The record of the action is published; when it cannot be, the run stops.
Checkpoint(o) ==
    /\ At(o, "checkpoint")
    /\ \/ /\ journal' = [journal EXCEPT ![o] = tx[o]]
          /\ next' = [next EXCEPT ![o] = @ + 1]
          /\ Goto(o, "act")
          /\ UNCHANGED tx
       \/ /\ Faults
          /\ tx' = [tx EXCEPT ![o].status = "failed"]
          /\ Goto(o, "final")
          /\ UNCHANGED <<journal, next>>
    /\ UNCHANGED <<holders, saved, sealed, owned, router, installed, plan, scan, snap>>

\* Only a transaction that is still running has succeeded.  Mutant: any has.
Success(o) == "succeeded"
FinalStatus(o) == IF tx[o].status = "running" THEN "succeeded" ELSE tx[o].status

\* The final status, published once more.
Finish(o) ==
    LET final == [tx[o] EXCEPT !.status = FinalStatus(o)]
    IN /\ At(o, "final") \/ (At(o, "act") /\ next[o] > Len(Actions))
       /\ \/ /\ tx' = [tx EXCEPT ![o] = final]
             /\ journal' = [journal EXCEPT ![o] = final]
          \/ /\ Faults
             /\ tx' = [tx EXCEPT ![o].status = "failed"]
             /\ UNCHANGED journal
       /\ Goto(o, "save")
       /\ UNCHANGED <<holders, saved, sealed, owned, router, installed,
                      plan, scan, snap, next>>

-----------------------------------------------------------------------------
(* Service.configureRouter, from ApplyPlanned and from MCPInit *)

AfterRouter(o) == IF KindOf[o] = "mcpinit" THEN "close" ELSE "done"

WriteRouterConfig(o) ==
    /\ At(o, "routerWrite")
    /\ router' = Routers \cap Planned
    /\ Goto(o, "routerLoad")
    /\ UNCHANGED <<holders, saved, sealed, owned, journal, installed, locals>>

RouterLoadOwnership(o) ==
    /\ At(o, "routerLoad")
    /\ snap' = [snap EXCEPT ![o] = owned]
    /\ Goto(o, "routerSave")
    /\ UNCHANGED <<holders, files, installed, plan, scan, tx, next>>

RouterSaveOwnership(o) ==
    /\ At(o, "routerSave")
    /\ owned' = snap[o] \cup (Routers \cap Planned)
    /\ snap' = [snap EXCEPT ![o] = {}]
    /\ Goto(o, "register")
    /\ UNCHANGED <<holders, saved, sealed, journal, router, installed,
                   plan, scan, tx, next>>

\* The clients are registered and the servers warmed up.
RegisterClients(o) ==
    /\ At(o, "register")
    /\ Goto(o, AfterRouter(o))
    /\ UNCHANGED <<holders, files, installed, locals>>

\* Any failure on the way; ApplyPlanned then saves the transaction as partial.
RouterFails(o) ==
    LET partial == [tx[o] EXCEPT !.status = "partial"]
    IN /\ pc[o] \in {"routerWrite", "routerLoad", "routerSave", "register"}
       /\ IF KindOf[o] = "apply"
          THEN /\ tx' = [tx EXCEPT ![o] = partial]
               /\ \/ journal' = [journal EXCEPT ![o] = partial]
                  \/ Faults /\ UNCHANGED journal
          ELSE UNCHANGED <<tx, journal>>
       /\ snap' = [snap EXCEPT ![o] = {}]
       /\ Goto(o, AfterRouter(o))
       /\ UNCHANGED <<holders, saved, sealed, owned, router, installed,
                      plan, scan, next>>

-----------------------------------------------------------------------------
(* Service.applyOwned, for removal *)

RemoveLoad(o) ==
    /\ At(o, "removeLoad")
    /\ snap' = [snap EXCEPT ![o] = owned]
    /\ Goto(o, "remove")
    /\ UNCHANGED <<holders, files, installed, plan, scan, tx, next>>

\* One selected component is uninstalled, or leaves the router configuration.
RemoveOne(o) ==
    /\ At(o, "remove")
    /\ \E c \in snap[o] :
         /\ IF c \in Routers
            THEN router' = router \ {c} /\ UNCHANGED installed
            ELSE installed' = installed \ {c} /\ UNCHANGED router
         /\ snap' = [snap EXCEPT ![o] = @ \ {c}]
    /\ Goto(o, "uninstalled")
    /\ UNCHANGED <<holders, saved, sealed, owned, journal, plan, scan, tx, next>>

\* The ownership checkpoint after it.
RemoveCheckpoint(o) ==
    /\ At(o, "uninstalled")
    /\ \/ owned' = snap[o] /\ Goto(o, "remove")
       \/ Faults /\ UNCHANGED owned /\ Goto(o, "close")
    /\ UNCHANGED <<holders, saved, sealed, journal, router, installed, locals>>

\* Nothing selected is left, or an uninstall command failed, with or without
\* an effect on the machine.
RemoveStops(o) ==
    /\ At(o, "remove")
    /\ \/ UNCHANGED installed
       \/ \E c \in snap[o] \ Routers : installed' = installed \ {c}
    /\ snap' = [snap EXCEPT ![o] = {}]
    /\ Goto(o, "close")
    /\ UNCHANGED <<holders, files, plan, scan, tx, next>>

-----------------------------------------------------------------------------
(* prepareStore: RecoverIncompleteTransactions, one journal file at a time *)

\* The transactions to recover are those left running.
LeftRunning(t) == journal[t].status = "running"

RecoverOne(o) ==
    /\ At(o, "recover")
    /\ \E t \in Op :
         /\ LeftRunning(t)
         /\ journal' = [journal EXCEPT ![t].status = "interrupted"]
    /\ UNCHANGED <<holders, saved, sealed, owned, router, installed, pc, locals>>

Recovered(o) ==
    /\ At(o, "recover")
    /\ \A t \in Op : ~LeftRunning(t)
    /\ Goto(o, "recovered")
    /\ UNCHANGED <<holders, files, installed, locals>>

\* Prune removes plans that have expired.
PrunePlan(o) ==
    /\ At(o, "recovered")
    /\ \E p \in saved : saved' = saved \ {p}
    /\ UNCHANGED <<holders, sealed, owned, journal, router, installed, pc, locals>>

-----------------------------------------------------------------------------
\* The process ends; the next caller recovers the lease it held.  The journal
\* and the transaction it had reached stay behind.
Crash(o) ==
    /\ pc[o] \notin {"new", "done"}
    /\ holders' = holders \ {o}
    /\ Goto(o, "done")
    /\ DropLocals(o)
    /\ UNCHANGED <<files, installed>>

ExecuteStep(o) ==
    \/ LoadPlan(o) \/ PlanRefused(o) \/ Revalidate(o) \/ Consume(o)
    \/ Publish(o) \/ Act(o) \/ RunAction(o) \/ Checkpoint(o) \/ Finish(o)
    \/ SaveFinal(o) \/ RecordLoad(o) \/ RecordSave(o)

Step(o) ==
    \/ Acquire(o) \/ Busy(o) \/ StartUnlocked(o) \/ Close(o) \/ Crash(o)
    \/ LoadOwnership(o) \/ Scan(o) \/ Reconcile(o) \/ SavePlan(o) \/ DropTransientPlan(o)
    \/ FailsEarly(o)
    \/ ExecuteStep(o)
    \/ WriteRouterConfig(o) \/ RouterLoadOwnership(o) \/ RouterSaveOwnership(o)
    \/ RegisterClients(o) \/ RouterFails(o)
    \/ RemoveLoad(o) \/ RemoveOne(o) \/ RemoveCheckpoint(o) \/ RemoveStops(o)
    \/ RecoverOne(o) \/ Recovered(o) \/ PrunePlan(o)

Next == \E o \in Op : Step(o)

Spec == Init /\ [][Next]_vars

-----------------------------------------------------------------------------
(* Properties *)

\* A run that has consumed its plan and not yet given the lease back.
Applying(o) ==
    pc[o] \in {"publish", "act", "running", "checkpoint", "final", "save",
               "record", "recordSave"}
Consumed(o) == tx[o].status # "none"

\* An approval is used once: two runs never consume the same plan, whichever
\* crash or race comes between loading it and deleting its file.
ConsumedOnce ==
    \A o, q \in Op : Consumed(o) /\ Consumed(q) /\ plan[o] = plan[q] => o = q

\* While a plan is applied the machine differs from the state the user reviewed
\* only in components this very run has acted on.
AppliesReviewedState ==
    \A o \in Op : Applying(o) =>
        \A c \in Installs :
            (c \in installed) # (c \in sealed[plan[o]].installed) => tx[o].out[c] # "pending"

\* Start-up marks a transaction as interrupted only when the run that writes it
\* is over: "its live transaction is left untouched" (docs/architecture.md).
StartupSparesLive ==
    [][\A t \in Op : journal'[t].status = "interrupted" /\ journal[t].status # "interrupted"
                        => ~Applying(t)]_vars

\* What the installation of c needs, directly or through other installations of
\* the same plan.
InstallNeeds(p, c) ==
    {d \in ToInstall(p) : \A S \in SUBSET Component :
        /\ DependsOn[c] \subseteq S
        /\ \A e \in S \cap ToInstall(p) : DependsOn[e] \subseteq S
        => d \in S}

\* No command succeeds for a component that needs one whose installation failed
\* in the same run: its own command was never started.
NoInstallAfterFailedNeed ==
    \A o \in Op : \A c \in Installs : tx[o].out[c] = "ok" =>
        \A d \in InstallNeeds(plan[o], c) : tx[o].out[d] = "ok"

\* The journal can be believed: a transaction that claims success has a good record
\* of every action, one is never marked running after a start-up went through, and
\* "ownership is recorded only for successful AgentStack-created resources", which
\* have a durable record of their success, or are router entries.
JournalIsTrue ==
    /\ \A t \in Op : journal[t].status \in {"succeeded", "partial"} =>
          \A c \in Planned : journal[t].out[c] \in {"ok", "kept"}
    /\ \A o \in Op : At(o, "recovered") => \A t \in Op : journal[t].status # "running"
    /\ \A c \in owned : c \in Routers \/ \E t \in Op : journal[t].out[c] = "ok"

\* "A cross-process lease prevents concurrent state mutation" (docs/SECURITY.md):
\* a component leaves the ownership record only when a removal takes it out.
OwnershipOnlyLostByRemoval ==
    [][\A c \in owned : c \notin owned' => \E o \in Op : RemoveCheckpoint(o)]_vars
=============================================================================
