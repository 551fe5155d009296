# AgentStack: TLA+ models, model checking and proofs

This directory holds the formal models of AgentStack (the Go program under
`src/`). Paths below are relative to `src/`, and `internal/` is left out of
package paths: `state/lease.go:76` is `src/internal/state/lease.go`, line 76.
`PROJECT.json` names, for every definition of a model, the lines it stands for.

- [1. The system](#1-the-system): its components, state, operations and hazards
- [2. The modules](#2-the-modules): what each models and how it corresponds to the code
- [3. The runs](#3-the-runs): what TLC checks, the bounds, the fairness
- [4. The proofs](#4-the-proofs): what TLAPS proves, from what, and how
- [5. Disagreements](#5-disagreements-between-the-code-and-its-documents) between the code and its documents
- [6. What is not modelled](#6-what-is-not-modelled) and what is abstracted
- [7. The plan](#7-the-plan)

Run things from this directory:

    tlc -workers 2 -config Workspace.cfg MCWorkspace
    tlapm MutationLease_proofs.tla

## 1. The system

AgentStack installs and wires up a developer's agent tooling on one machine.
The command line, the loopback web page and the MCP router process are
separate processes (or many goroutines of one process) that share one *data
root* of JSON files. There is no daemon and no database: a file is replaced by
rename, a cross-process *lease file* is the lock, and journals, receipts and
start-up recovery make up for crashes. The components fall into four groups.

### 1.1 Reviewed installation

| component | state it keeps | operations | works with |
|---|---|---|---|
| mutation lease (`state/lease.go`) | one lease file: PID, nonce, heartbeat | `AcquireLease`, `Touch`, `Close` | every mutation of every plane |
| plan, journal, ownership store (`state/store.go`, `state/retention.go`) | plan files, transaction files, `ownership.json`, event log | save, load, delete, `RecoverIncompleteTransactions`, `Prune` | executor, service |
| planner (`planner`) | none (pure) | `Build`, `Seal` | catalog, inventory |
| executor (`reviewedplan/executor.go`) | none of its own | `Execute`: revalidate, consume, apply, record | lease, store, runner |
| runner engine (`runner`) | the transaction in memory | `Apply`, checkpoints | package managers, supervisor |
| service (`app/service.go`, `bootstrap.go`, `lifecycle.go`) | none of its own | `Inventory`, `Plan`, `ApplyPlanned`, `MCPInit`, removal, restore | all of the above |
| catalog and inventory | embedded catalog; the machine | validation, probes | planner |
| skills, self-installation | directories and `PATH` | staged install with rollback | runner, pathenv |
| backups and data clearing (`state/data.go`) | backup index and copies | backup, preview, restore, export, clear | service |

Hard here: two processes apply the same plan; a process dies between two
writes of a run; a checkpoint cannot be written after the machine has changed;
a view reads, scans for seconds and writes back what it read. It is correct
when at most one process mutates, one approval is executed at most once and
against the state that was reviewed, nothing is installed whose requirement
failed, ownership covers only what a run recorded, and a start-up ends
exactly the transactions whose process is gone.

### 1.2 MCP router and child processes

| component | state it keeps | operations | works with |
|---|---|---|---|
| child runtime (`mcp/runtime.go`, `child_pool.go`, `child_session.go`, `child_client.go`) | a map of pooled workers, each with a session, a use count, a timer, a generation; a one-request gate per session | `ListTools`, `CallTool`, `Doctor`, `Close`, idle expiry | supervisor |
| router and registration (`mcp/router.go`, `config.go`, `register.go`) | the router configuration file; client configurations | stdio requests, register, unregister | child runtime, service |
| process control, supervision (`processctl`, `supervisor`) | OS processes, Job Objects, pipes | start, wait, graceful close, terminate | everything that runs a command |

Hard here: goroutines that look a worker up, lose the lock while it starts and
take it again; an idle timer that fired just before the worker was taken; an
eviction while others use the session; `Close` while all this goes on; a child
that stops reading. It is correct when no process is left without somebody to
stop it, none is stopped under a caller, calls return, and `Close` terminates.

### 1.3 The fabric planes

| component | state it keeps | operations | works with |
|---|---|---|---|
| workspace store (`workspace`) | `workspaces.json`, `memory.json`, `artifacts.json`, artifact directories, a transaction journal with an active pointer | create, update, delete, remember, forget, add, remove; every load recovers | fabric lease |
| routines (`routines`) | `routines.json`, run receipts | put, remove, run, list, due, run-due | fabric lease, runner |
| resource hub (`resourcehub`) | registry, canonical resources, targets, managed state, plans, backups | import, plan and apply of sync and refresh, restore | fabric lease |
| context engine (`contextengine`) | refresh plans, managed blocks in context files, backups | scan, score, plan and apply of refresh | fabric lease |
| MCP client links (`mcplink`) | link plans, recovery records; client configurations | plan, apply with rollback in reverse order | fabric lease, `codex` |
| facade (`app/fabric.go`, `integrations.go`) | none of its own | delegates; takes the lease for mutations, not for reads | all planes |

Hard here: a commit of three files that dies in the middle; loads that recover
it without holding the lease; directories that are moved before the commit
and moved back after it failed; receipts written before the schedule they
advance; listings that write. It is correct when a mutation takes effect
as a whole or not at all, the store stays loadable, no artifact content is
lost, and no due time is run twice.

### 1.4 Adapters and tools

The command line and web page (`cli`, `ui/web`), the HTTP server with its
bounded operation store (`ui/server.go`, `ui/operations.go`), file replacement
(`safefile`), redaction, strict JSON, digests, version constraints
(`version`), ACLs, diagnostics, session banner, and the release tools
(`releasepack`, `supplychain`).

`PROJECT.json` lists every component with its status and every hazard with its
line and the properties that watch it.

## 2. The modules

    ExclusiveLease <-- implements -- MutationLease <--- MutationLease_proofs
          ^  used by
    ReviewedExecution <--- ReviewedExecution_proofs        ChildPool <--- ChildPool_proofs
          ^          Catalog <- Planner <- Setup -> Versions
          |                                  ^
          +----------- Installation ---------+     Installation <--- Setup_proofs
                            ^                        (+ ReviewedExecution_proofs)
      MCReviewedExecution --+-- MCSetups       (MCSetupRepair: Setup alone)
                      MCSetupApply

    AtomicStore <-- implements -- Workspace <--- Workspace_proofs
          \                          /
           +------ WorkspaceOps ----+

    RoutineBook <-- implements -- Routines <--- Routines_proofs
          \                          /
           +---- RoutineSchedule ---+

    Fabric: Routines | ClientLink | ResourceHub | ContextRefresh | SkillPack | Replacement | Desk
      ^                                                  ^
      +--- MCFabric (+ MCRoutines)                 MCContextTorn
      +--- Fabric_proofs (+ Routines_proofs, LinkAndHub_proofs)

An `MC...` module gives the constants of a module their values for TLC; the
`.cfg` files select meetings, bounds and properties. `Fabric` and
`Installation` hold several parts, each in behaviours of its own (the
variable `plane` says which one): the parts share nothing but the lease, so a
product of their states would show nothing more. `Fabric` also states what the
parts promise in common (`AllOrNothing`, `NothingLost`, `ForeignKept`), each a
conjunction of the promises of its parts. `MCFabric` and `MCSetupApply` add only
that in a run the parts a behaviour is not about start in one initial state; the
theorems are about `FabricSpec` and `InstallationSpec`, without it.

### 2.1 Reviewed installation

**ExclusiveLease** is what users of the lease rely on: one holder at a time,
and a holder that crashes gives it up.

**MutationLease** is `state/lease.go` one file-system call at a time. The lock
file is absent, empty (created, not yet written) or a record of owner, nonce
and heartbeat. A caller goes through the two attempts of `AcquireLease`
(exclusive create, write, read, judge, rename aside), may `Touch` (read the
nonce, read it again, and then `safefile.Replace` call by call) and `Close` (read
the nonce, remove). Processes crash at any step and PIDs are reused; renames and
writes fail. `Posix` says whether an open file may be renamed. `Replace` renames the
new record over the old one; where that fails (on Windows, while a reader has the
file open) it renames the old record to a backup (`aside`), puts the new one in its
place and on an error the old one back, and until then nothing is at the path.

`Overlap` and `Suspend` name the environments in which this protocol does not
exclude: two acquisitions overlap (`"acquisition"` in `Overlap`), an acquisition
meets the gap of a `Replace` (`"replacement"`), or a live holder misses its
heartbeat so long that it looks stale (`Suspend`). Nothing in the code rules them
out. `lease_overlap` is the first of them; `MutationLeaseSerial.cfg` with `Overlap =
{"replacement"}` ends with two holders and the removal of another's record, and with
`Suspend = TRUE` in a steal from a holder. What `lease_serial` and the theorems
say holds outside these three environments only.

**ReviewedExecution** is the path of a reviewed plan over the abstract lease:
`Plan` and `MCPInit` scan and save plans; `Execute` loads, checks seal, expiry
and inventory, consumes the plan, and lets the runner work through the
actions with a checkpoint after each; the service then configures the router
after the lease is released; `RemoveOwned`, `Inventory` and the start-up
recovery with pruning run beside it. The machine is the set of installed
components, changed by AgentStack alone; a *digest* of the inventory is that
set itself. Every JSON file is a variable and its replacement one step, which
fails or crashes on either side. A call is a record of where it is (`pc`) and
what it has read. The plan it applies in the runs is the one `Planner` makes.

**Catalog, Planner, Versions** are pure: `catalog.Validate` with the walk over
a router's command line, `planner.Build` (selection, closure of dependencies,
active providers, kinds of action, order) and `version.Compatible`. They are
written as operators over a catalog, an inventory and a request, and compared
with reference definitions: an order in which dependencies come first and which
only dependencies may turn away from tiers and names, the packages a command
line fetches, the precedence of SemVer. A command line is a program and tokens:
package specifications, `@latest`, the options whose values `Validate` knows
(`--package`, `-p`, `--from`), and options it does not know, with or without a value
and with or without a package in it (`--registry`, `--with`). `cmd /c` is
unwrapped, and the line that warms a router up is judged like the one that runs it.

**Setup** puts them to use: a machine with packages, skill directories and a
router configuration; the inventory with its version, path and router health
rules; and `Plan`, `ApplyPlanned`, `MCPInit`, `DeactivateOwned` and
`RemoveOwned` as one step each, in any order, with commands that fail and an
owner who changes the machine in between. `ReviewedExecution` is about how the
operations meet and crash, `Setup` about what they make of each other.

**SkillPack** is the copy of missing skill directories and the removal that
moves owned ones to quarantine, one file operation at a time, with the owner
making, editing and deleting directories meanwhile.

### 2.2 Children of the router

**ChildPool** is the pool of persistent MCP children, one action per critical
section of `PooledChildClient.mu`. Workers and sessions are numbered by the
call that created them, so late timers and late releases refer to exactly the
worker they were armed for. The state of a call follows the code: looking up,
starting or waiting, entering, queuing at the gate, writing, reading, leaving.
`ChildrenRead` says whether children keep reading their input.

### 2.3 The fabric planes

**WorkspaceOps, AtomicStore, Workspace.** `WorkspaceOps` has the checks and
the effect of each mutation as pure operators (what a load accepts, which
cycles an update may not create, what a delete takes along). `AtomicStore` is the
promise: one mutation after the other, each as a whole, on what its
predecessor left. `Workspace` is `transaction.go` with the directory moves
around it: check the pointer, recover or refuse, read, judge, move
directories, publish snapshots and pointer, write file after file, remove the
pointer, discard; an error path undoes the moves, all of them or only some of them
(`UndoFails`: `rollbackDirs` and the renames of `AddArtifact` report what failed and
the directories stay where they are). Readers do the same loads
without the lease and recover what they find. The abstract store is what a
recovery would leave: the snapshots where a transaction is active, the
files where none is.

**RoutineSchedule, RoutineBook, Routines.** `RoutineSchedule` is
`schedule.go` on whole ticks, in the time zone of the schedule.
`RoutineBook` is the promise: definitions, removals and finished runs change
the book one at a time. `Routines` is `manager.go` with its callers: a load
reads `routines.json`, then the receipts, and saves if a receipt was newer;
a run writes its receipt, then the store, then prunes. The abstract book is
what a load would return now, so a run takes effect with its receipt. A
run-due lists without the lease and takes the lease for each run. `Overlap`
lets calls meet that the code does not keep apart (a definition with a
listing, a run with the list of a run-due).

**ClientLink** is `mcplink`: the plan records what it found in every client;
the apply compares each with the plan, then changes one after the other (a file
by its replacement, Codex by its commands, which stop once the caller is
cancelled) and on an error undoes in reverse order. A client's configuration is
its `agentstack-router` entry and the rest of its file, which other programs
edit at any time. The rest is decoded and encoded again by every change
(`Recoded`): a missing file becomes one with nothing else in it, and a whole number
that a `float64` does not hold becomes the nearest one that it does.

**ResourceHub** is `resourcehub`: import, restore, removal, and the plan and
apply of synchronisation and refresh, with lock files, trees that are set aside
and moved back, backups, the registry and the managed state saved last, the plan
removed after that, copies or symbolic links. A tree is a content, and a digest is the content it was made
from. Failures and crashes come between any two file operations.

**ContextRefresh** is the refresh of managed sections in context files. A file
is a sequence of pieces (human text, start mark, end mark, generated text), and
`Merge` is `mergeManaged` on it.

### 2.4 Adapters

**Replacement** is `safefile.Replace` with its two renames, as
`selfinstall.InstallFrom` uses it: vacate, place, verify permissions, clean up.
**Desk** is the manager page: the gate of mutations, operations that work in
goroutines, the store that keeps a bounded number of them, and shutdown.

## 3. The runs

| run | configuration | states | what it shows |
|---|---|---|---|
| `lease_serial` | 3 callers (one alone, two in one process), 4 nonces, crashes, PID reuse, full disks, failing replacements | 934 | acquisitions that overlap neither each other nor a replacement exclude each other and implement `ExclusiveLease`; `AcquireLease` and `Close` return |
| `lease_overlap` (violated) | the same, overlapping, Windows renames | | a caller takes another's new, still empty file for stale and steals it: two hold the lease |
| `pool_safety` | 3 calls, 2 servers, symmetric | 1,008,752 | nobody's child is orphaned or closed under a caller |
| `pool_liveness` | 2 calls, 2 servers | 71,584 | calls return, `Close` terminates and leaves no child, idle children stop |
| `pool_blocked_write` (violated) | a child that does not read | | the call outlives its deadline |
| `setup_apply` | *apply*: 4 actions (`node`, `tool` that needs it, `skill` that needs that, `router`), 5 meetings of 3 or 4 calls, faults; *setup*: some 3,000 catalogs, two lives of 4 operations | 390,591 | one approval, one execution, of what was reviewed; journal, ownership and recovery agree; plans are sound and applying them converges |
| `reviewed_ownership` (violated) | a view meets an apply | | new ownership is lost |
| `setup_repair` (violated) | a router entry, 5 operations | | the repair that is planned does not repair |
| `workspace` | folder over folder over workspace, one artifact, 7 meetings of mutations, 1 reader, 2 mishaps | 105,749 | the store implements `AtomicStore`, stays loadable, keeps content; every transaction ends |
| `workspace_recoverers` (violated) | 2 readers, 1 mishap | | a slow recovery undoes a later commit |
| `fabric` | seven planes, see 3.2 | 425,972 | the routine files implement `RoutineBook`; links, hub and context are all or nothing and spare what is not AgentStack's; files stay recoverable; operations are answered |
| `context_torn` (violated) | a section without its end mark, 2 plans | | human text is replaced |

### 3.1 Properties worth a word

*Lease.* `MutualExclusion`;
`SecondAttemptCreates` (after a steal the path is free, so two attempts
are enough); `RemovesOnlyOwnRecord` (the remove of `Close` and the renames of `Touch` are later
than their checks); `StealsOnlyAbandoned`; `ImplementsExclusiveLease`; `AcquireReturns`.

*Pool.* `NoOrphan` (every live child has a pool entry, a caller, or a closer
in charge), `NoCloseUnderUse`, `SessionLostForCause` (a live session is given up
because the pool is closed, its worker was idle, or a request sent on it failed,
and never because callers timed out before theirs was sent), and `CallReturns`,
`CloseTerminates` (and no child lives on), `IdleReclaimed`.

*Reviewed execution.* `ConsumedOnce`, `AppliesReviewedState` (what differs from
the reviewed machine was done by this run), `NoInstallAfterFailedNeed`,
`JournalIsTrue` (a success has a good record of every action, a start-up leaves
nothing running, what is owned has a durable record), `StartupSparesLive` (a
start-up ends every dead run and no live one).

*Setup.* `PlanSound` (an accepted catalog never makes the planner fail; the
order, the providers and the exclusions are right), `AcceptedIsPinned` (what a
router's command lines download, behind `cmd /c` and to warm up as well, is an exact
version, if no option before the tool has a value that the walk takes for something
else: `Understood`; see section 5), `VersionsJudged` (a
package is kept exactly if its version lies in the range by SemVer precedence),
`ApplyConverges` (after an apply in which all succeeded, the same request
finds nothing left to install or configure).

*Workspace.* `StoreLoads` (what a call leaves, a load accepts),
`ArtifactContentSurvives` (no crash or error destroys the only copy of a
registered artifact), `AnswerTellsOutcome` (success means committed, any error
means that the mutation does not count, and one told "workspace state committed but
transaction finalization failed" finds all its files written when it is told so, and
its transaction still active: the first recovery takes the files back), `ImplementsAtomicStore`, `FenceLifted` (a transaction that was left
behind is recovered).

*Routines.* `ImplementsRoutineBook`, `NotDueAgain` (also after a crash between
receipt and schedule, or after a listing wrote an older schedule back),
`NextRunExact` (the stored next run is the first time the schedule falls due
after the last change).

*The other planes.* `AllOrNothing` (a link, sync or refresh that succeeds leaves
what was reviewed, and so does a refresh whose only error is that its plan could not
be removed; one that fails otherwise, with a rollback that met no error, leaves what
it found, for everything nobody else changed meanwhile), `NothingLost` (what a
job found is at its place, set aside or among the backups, whatever fails or
crashes), `ForeignPreserved`, `ForeignKept` and `OwnersDirectoriesKept` (what
AgentStack does not own stays: client entries, the rest of their files up to decoding and encoding it,
unmanaged destinations, human text in well-formed files, the owner's skill
directories), `OperationsAnswered` (an outcome can be read until as many
operations as the store keeps have ended after it or still run; the gate is
taken exactly while something works).

Each property of a passing run has a mutant in `PROJECT.json`: a plausible bug
in one modelled definition that makes TLC find the property violated.

### 3.2 Bounds, and why they are enough

- Lease: the protocol is symmetric in callers; the hazards need an abandoned
  record, one that judges it and one that replaces it, hence three callers in
  two processes (two share a PID). Four nonces give each caller and one
  restart a fresh one.
- Pool: a worker can have a starter, a waiter that becomes a user, and an
  evictor: three calls. A second server separates "this worker" from
  "the pool". Each call is made once; a repeated call is a new call.
  Liveness has no symmetry and therefore two calls.
- Reviewed execution: the plan has a requirement, something that needs it, a
  component that needs it only through the other, and a router entry, so each
  branch of the runner occurs. Meetings are the groups of calls that share
  files; each call is made once. A crash may occur at every step.
- Setup: all 512 dependency graphs of three packages (self-loops and cycles
  included) and a dependency that does not exist; providers of one capability
  over two arrangements of tiers, five orders of needs, overrides and
  exclusions; for `npx` and `uvx` every command line of up to two of
  the fourteen tokens, and of three of the seven that decide (an option, its value and
  a positional argument); shorter ones behind `cmd /c`, for `cmd` itself and as
  the line that warms a router up; some twenty version texts against
  every one-sided range of them and one range with both bounds. The lives `Installing` and `Routing` have four
  operations and one change by the owner: plan, apply, change, plan, apply.
- Workspace: hierarchy of depth three is the least in which a move makes a
  cycle through another item and a delete reaches a grandchild. Two mishaps
  allow a crash and a failing (or again crashing) recovery; one mutation
  more than the pair would only repeat. The limits `MaxItems` and `MaxEntries`
  are four, and the calls stay below them: what happens above them (section 5) is
  no part of what this run shows.
- Routines (171,563 states): a weekday schedule and an interval; from a Friday,
  so the next time skips the weekend; two mishaps allow a crash of the run and a
  failed repair. `Keep` is 2 and stands for 4,096: pruning happens, but the
  receipts a listing has yet to read are not all pruned in its window, as in the
  code that would take 4,096 runs.
- Client links (98,292): three clients, so that a rollback has two to undo in
  order, the second one changed by commands; one plan, one edit by another
  program, which may hit any client at any step; files that are missing, plain, or
  hold a number that decoding rounds.
- Hub (73,811): two resources, so that one is done when the other fails; two
  contents, one of which the audit blocks; three starts (a first sync, a sync in
  link mode, two jobs after an update of a source).
- Context (66,249): two agents that share a file and one with a file in a
  directory of its own; two plans, one edit.
- Skill pack (6,615): three directories, two jobs (an installation and a removal,
  or two installations), two changes by the owner. File (405): two releases, three
  installations: a failure, its repetition and an upgrade. Desk (9,037): four
  operations with `MaxRetained` 2 for the code's 64, so that the store is over
  its limit with some running and some ended.

### 3.3 Fairness

`MutationLease`: a caller inside `AcquireLease`, `Touch` or `Close` runs on
(straight code without waiting). `ChildPool`: runnable goroutines run; contexts with
deadlines expire (`context.WithTimeout` on every operation, `child_client.go:78-84`);
starts end when their context is done; a read ends when the session is gone; a
write ends only if the child reads. `Workspace`: calls run on, time passes
(`Age`), and readers come again (the web page polls). The other modules state
safety only and assume no fairness.

`CHECK_DEADLOCK FALSE` is set where all calls of a behaviour come to an end.

## 4. The proofs

Eight modules, each for every value of the constants: any callers, plans,
catalogs, dependencies, version texts, clients, contents, schedules, trees, files,
and any number of crashes and failed steps where the runs have one or two. All
safety properties of the passing runs are proved; the liveness properties are not
(see the end of this section).

| module | theorem | states | hypotheses |
|---|---|---|---|
| `MutationLease_proofs` | `TypeCorrect` | `TypeOK` | none |
| | `LeaseMutualExclusion` | `MutualExclusion` (and that the holder is on record) | acquisitions overlap neither each other nor the gap of a replacement (`Overlap = {}`), no live holder looks stale (`~Suspend`) |
| | `LeaseSecondAttempt`, `LeaseRemovesOwn`, `LeaseStealsAbandoned` | the properties of those names | the same |
| | `LeaseImplementsExclusive` | the refinement of `ExclusiveLease` | the same |
| `ReviewedExecution_proofs` | `ExecutionTypeCorrect` | `TypeOK` | `ExecutionAssumption` |
| | `ApprovalConsumedOnce`, `ReviewedStateApplied`, `JournalCorrect`, `LiveTransactionsSpared` | `ConsumedOnce`, `AppliesReviewedState`, `JournalIsTrue`, `StartupSparesLive` | the same |
| | `NothingAfterFailedNeed` | `NoInstallAfterFailedNeed` | the same, and that a plan lists dependencies first (`PlanOrdered`; what `PlanSound` checks of the planner) |
| `Setup_proofs` | `InstallationTypeCorrect` | `ViewsTypeOK` | `ExecutionAssumption`, `SetupAssumption` |
| | `SetupPlansSound`, `VersionsJudgedBySemVer`, `AppliedPlansConverge` | `PlanSound`, `VersionsJudged`, `ApplyConverges` | the same |
| | `AcceptedCatalogsPinned` | `AcceptedIsPinned`, of command lines of any length | the same; the property itself has the condition `Understood` |
| `ChildPool_proofs` | `PoolTypeCorrect`, `NoChildOrphaned`, `NoChildClosedUnderUse`, `SessionLossHasCause` | `TypeOK`, `NoOrphan`, `NoCloseUnderUse`, `SessionLostForCause` | finitely many calls |
| `Workspace_proofs` | `WorkspaceImplementsStore` | the refinement of `AtomicStore` | no two calls recover at once (`~Overlap`), no live commit looks stale (`~Suspend`) |
| | `WorkspaceAnswers` | `AnswerTellsOutcome` | the same |
| | `WorkspacePointerIsAuthority`, `WorkspaceTypeCorrect` | `PointerIsAuthority`, `TypeOK` | the same |
| | `WorkspaceForest` | every walk up the stored hierarchy ends at the top and never loses a parent | the same |
| | `WorkspaceStoreLoads` | `StoreLoads` | the same, and no more identifiers than the limit on items (`Cardinality(Item) <= MaxItems`) |
| | `WorkspaceArtifactsSurvive` | `ArtifactContentSurvives` | as for `WorkspaceForest` |
| `Routines_proofs` | `RoutineTypeCorrect` | `TypeOK` | none, also with overlapping calls |
| | `RoutineNextRunExact` | `NextRunExact` | none, for any length of the day |
| | `RoutinesImplementBook`, `RoutinesNotDueAgain` | `ImplementsRoutineBook`, `NotDueAgain` | calls that disturb each other do not overlap (`~Overlap`), the newest receipts reach back (`ReceiptsSeen`) |
| `LinkAndHub_proofs` | `LinkForeignPreserved` | `ForeignPreserved` | none |
| | `LinkAppliedWhole` | `LinkAllOrNothing`, a part of `AllOrNothing` | none |
| | `HubTransactional`, `HubTreesKept`, `HubForeignKept` | `HubAllOrNothing`, `TreesKept`, `ForeignDestinationsKept`, the parts of `AllOrNothing`, `NothingLost` and `ForeignKept` about the hub | none |
| `Fabric_proofs` | `PackOwnersDirectoriesKept` | `OwnersDirectoriesKept` | none |
| | `PreviousFileRecoverable` | `PreviousRecoverable`, a part of `NothingLost` | none |
| | `FabricTypeCorrect`, `FabricTransactional`, `FabricNothingLost`, `FabricOperationsAnswered` | `FabricTypeOK`, `AllOrNothing`, `NothingLost`, `OperationsAnswered` of all parts together | none |
| | `FabricForeignKept` | `ForeignKept` of all parts together | files have the marks of a section at first and after an editor wrote them (`FilesMarked`) |

"None" means none beyond the `ASSUME`s on the constants, which TLC evaluates in
the runs. They say what a constant stands for: a routine's schedule is valid
and the files a behaviour starts from are ones the program has written and
loaded before (`InitialAssumption`, `LoadableAssumption`); a missing file is no
value a file can have (`NoFileAssumption`, `FilesAssumption`, `0 \notin Release`);
the registration of Codex is changed by its commands, and what is modelled of its
file is only that entry (`CodexAssumption`); the versions on a machine are texts, and a catalog, which may
be one that `Validate` refuses, has components and profiles with the fields the
code reads (`SetupAssumption`); a pack has at least one skill, since
`ValidateSkillInventory` refuses an empty inventory (`PackAssumption`); the page
starts finitely many operations (`DeskAssumption`); and some agent's file
comes first (`ContextAssumption`).

The hypotheses are not conveniences. With anything in `Overlap`, and with `Suspend`,
TLC finds two holders of the lease or a steal from a holder (`lease_overlap` and
2.1). Without the `~Overlap` of the other modules it finds a committed mutation
undone (`workspace_recoverers`) and a routine that a listing brings back
(section 5). Without `Understood` `AcceptedIsPinned` is false: TLC finds a
line whose `--with` brings a floating package. Without `Cardinality(Item) <= MaxItems` `StoreLoads` is false, since
`Create` does not check the limit. Without `FilesMarked` `ForeignKept` is false
(`context_torn`); that the files of the `fabric` run have their marks is an `ASSUME`
of `MCFabric`, which TLC evaluates. `PlanOrdered` is a hypothesis of
`ReviewedExecution`, whose plans are a constant; that the planner makes such plans
is `SetupPlansSound`. `ReceiptsSeen` says of a behaviour that a
step pushes a receipt out of the `Keep` newest only when the store and every
load under way have seen it: `Keep` is 4,096, so otherwise that many runs would
have to end while one listing reads, or after a store that could not be written.

The arguments, one per inductive invariant:

- `LeaseInv`. A caller that has created the file but not yet written it, and one
  between the check and the remove of `Close`, count as owners too. At most one
  caller is acquiring (`OneAcquirer`), one that has created the file owns what is
  there (`CreatedOwns`), a holder is on record (`HolderOwns`), two callers have
  different nonces (`NonceDistinct`), and a record judged stale is not that of a
  live holder (`StealSafe`). While a `Touch` has its record aside
  nobody acquires (`Apart`, `AsideKnown`). Two holders would both be on the one record, at the path
  or aside, with different nonces.
- `ExecInv`. The lease has one holder (`OneHolder`) and a run is past its checks
  only with it (`RightKind`); past consumption the plan is gone (`PlanGone`); the
  machine differs from the reviewed one only in what the run did (`Reviewed`,
  `Progress`); requirements are acted on first (`NeedsFirst`); and the journal on
  disk lags behind the transaction in memory by the action under way
  (`StatusTrue`, `JournalBehind`, `OwnedGood`).
- `PoolInv`. The use count of a worker is the number of calls that use it
  (`Counted`), pool entries and calls agree on keys (`Pooled`, `Keyed`), a session
  that is closed or about to be is out of the pool and unused (`Retired`), and one
  that is not closed has somebody who can close it (`Unclosed`). The counts need
  cardinalities of finite sets.
- `CauseInv` (on top of `PoolInv`). Who closes a session does so because it is no
  longer pooled, and by then its cause may be long past: so a live session that is
  not in an open pool is in the hands of an expire call or some call that used it
  has failed (`LeavesForCause`), a failure stays the outcome of its call
  (`Failures`), and a worker whose child is being started is never evicted
  (`StartsPooled`).
- `InstallationInv` is `ExecInv` and `SetupInv`. `SetupInv` says that only a router
  is owned as one and only a skill pack has owned paths (`OwnershipOfKinds`), that
  the saved plan is what `Build` makes of the loaded catalog, the saved items and
  the saved request, with packages judged by their versions (`PlanFromCatalog`), and
  that nothing is reported before a catalog was loaded (`ReportOfOperation`). With
  them `ApplyConverges` is inductive: what an apply installed or configured is found
  on the machine it leaves or is recorded (`ActionsPerformed`, `InstallsRecorded`,
  `RoutersRecorded`), what is recorded is found or is broken (`RecordedIsSeen`), and
  what is found or broken is not put in place again (`SeenIsKept`).
- The pure parts. `Planner`, `Catalog` and `Versions` define what the code's loops
  compute as recursive functions on numbers. That such a function exists
  (`Recursion`) and what it computes follow from a least counterexample, as for the
  hierarchy. For `PlanSound`: the closure of the needs is the least set that
  contains the selection and what its members need (`ClosureHolds`,
  `ClosureLeast`); of components without a cycle one needs none of the others
  (`LastNeed`); the code's order of keys is total (`SortsStrictly`, `SortedAll`); so
  the visit places every component, each after its needs and no later than it has to
  (`NextFits`, `VisitSteps`, `OrderOfAll`). For `VersionsJudged`: a number that is
  ahead stays ahead whatever digits follow (`StaysAhead`, `ValueGrows`), the first
  place where two texts or two prereleases differ decides as SemVer's rule says
  (`LexicographicOrder`, `PrereleasesOrdered`, `CompareIsPrecedence`), and so a version
  is inside a policy exactly if it is accepted (`CompatibleIsWithin`). For
  `AcceptedIsPinned`: if the command line is `Understood`, the argument that `npx` or `uvx`
  takes for the package is the one the validation looked at (`NpxFetches`,
  `UvxFetches`).
- `Told` and `StoreInv`. `Told` relates a caller's answer to the commit, and what
  a writer that could not remove its pointer has written stays while it undoes
  (`Unfinalized`), for no recovery may touch its young transaction. With `Told`: one writer (`OneWriter`), one recovery at a time, of the active
  transaction only (`OneRecovers`, `RestoresActive`), snapshots that hold what the
  files were before the transaction (`RestoresRight`, `WritesRight`), and a
  writer whose view is still that of the store (`SawStore`). Then only the
  removal of the pointer by its writer changes the abstract store
  (`CurrentKept`), and it is a commit of `AtomicStore` (`FinalizeCommits`).
- `StoreIsForest`. `createsCycle` and `validateLoadedItems` walk up the hierarchy,
  and `Above` is that walk as a recursive function. The library's induction
  cannot be applied, so what it would give is proved from a least counterexample
  (`Least`): the walk exists (`EndlessWalk`), goes on from where it is
  (`AboveSteps`, `AboveAdds`), stays at the top (`TopStays`), and one that ends
  does so within as many steps as there are items, since by the pigeonhole
  principle a longer one could be cut short (`RisesSoon`). So the bounded test of the
  code says that the walk ends (`NoCycleRises`), and each mutation keeps that
  (`PutForest`, `DeleteForest`): a walk in the new hierarchy is one in the old, or
  passes the item that was moved and goes on from its new parent (`SameWalk`,
  `PutRises`).
- `ContentInv` (on top of `StoreInv`). The directories of a writer at work are
  compared as they would be if it gave up now (`Base`): what it has moved aside
  can go back (`MovedRight`) and a new directory is in place of nothing else
  (`PlacedRight`). Then each registered artifact has its content in `Base` or
  with a writer that crashed (`ContentKept`), and without a crash `Base` is exactly
  the registry (`ContentExact`). A commit changes what `Base` is and the store
  in one step; every other step leaves both.
- `RoutineInv`. Next runs are exact in the store, and in what each call has read
  and will save. That the arithmetic is exact is a theorem about
  `RoutineSchedule` (`ScheduledExact`): a time is a day and a time of the day
  (`Parts`, `Days`), and between now and the result no time of the schedule lies
  (`ClockNext`, `WorkdayNext`).
- `BookInv` (on top of `RoutineInv`). Callers that disturb each other are apart
  (`Apart`) and the lease has one holder (`Leases`); the last run of a routine
  in the store is at most that of its receipts (`Receipted`); and each call knows
  the book as far as it will use it: a reader has read what a load
  would return but for receipts it has still to look at, and a run holds the book
  with its own run added (`Knows`). So the step that writes a receipt is a run of
  `RoutineBook`, the steps that save are a definition, a removal or a stutter, and
  pruning is a stutter by `ReceiptsSeen`. For `NotDueAgain`, a routine on the list
  of a run-due has not run since it fell due (`Slots`).
- `LinkInv`. What an apply is about to write was computed from a configuration
  that was reviewed and is still there unless somebody touched it
  (`WriteReviewed`, `StillSeen`); what it will undo is its own (`UndoLater`,
  `FileUndoable`, `CodexOwned`).
- `WholeInv` (on top of `LinkInv`). An operation is what planning makes of some
  configuration (`OpsPlanned`); what was read of a client that passed the check is
  what was reviewed (`SeenReviewed`); a client whose turn is over is as reviewed and
  can be undone (`DoneUndoable`, `DoneReviewed`); Codex between its commands is as
  reviewed or has lost only a stale registration (`CodexReviewed`); and while a
  failed apply undoes, every other client is as it was (`Restored`).
- `HubInv`. Which job is where, and which resources are done, under way or to come
  (`HubOrder`); what a job has not come to is as it was before (`HubBefore`);
  what it has moved away can be moved back and is kept (`HubMoved`); a sync changes
  only what it saw to be as reviewed (`HubReviewed`); and what the last save will
  write is what has been installed or placed (`HubInstalled`, `HubPlaced`). The lock
  files are those of the job at work unless one crashed (`HubLocks`).
- `ContextInv`. Only files that will change are read and none is written twice
  (`ContextOrder`); a file holds what was read of it until it is written and again
  once it is written back (`ContextStillSeen`); what was read is what was reviewed
  (`ContextSeenReviewed`); a written file is as reviewed and can be written back
  (`ContextWritten`), and was copied before (`ContextCopied`).
- `HumanKept` (on top of `ContextInv`). Every file and every planned result has the
  marks of its section or none (`Marked`), a planned result has the human text of
  what it was made from, and while a refresh is at work a file that nobody edited
  has the text that was read of it, so that writing it and undoing it keep that
  text too. That `mergeManaged` keeps the text (`MergeKeeps`) is about the sequence
  of pieces a file is: what is human is read off piece by piece (`TextSteps`), what
  is appended or put between the marks adds nothing (`TextJoined`, `NoText`), and the
  result has its marks again (`Associated`).
- `PackInv`: a removal moves only recorded directories while the record does not
  change. `ReplaceInv`: what the destination holds at each step (`Located`), and
  that the old file is beside it from the first rename on (`KeptAside`).
- `DeskInv`. That an evicted outcome has `MaxRetained` newer ones in the store is
  two facts about every store that `compactLocked` leaves: what it evicted ended
  before everything that is left (`OldestEvicted`), and the store is full once
  anything was evicted (`FullStore`). A compaction evicts at most the excess
  (`VictimsFew`: the victims are the oldest ones, counted by cardinalities), and
  ends have different times (`Timed`). An operation at work is running, and works
  once (`NoneTwice`).
- `FabricInv` is the conjunction of the invariants of the seven parts. A step of
  `Fabric` is a step of one part and leaves the variables of the others alone, so
  each part's lemma gives its conjunct, and the properties follow.

A proof attempt corrected the model. An earlier `ForeignDestinationsKept` said
that a synchronisation replaces only destinations that are managed when it does
so. Its proof failed for a plan that is made while another synchronisation is at
work: the plan is made without the lease, from a record which that
synchronisation then saves anew, and it does not hold the record it was made
from. TLC found the behaviour once a second plan was allowed. The property now
admits what was recorded when the plan was made (`recorded`, a field of the
model's operations that the code does not have).

Two properties changed for the proofs' sake. The human text of a file
(`HumanText`) was a selection of pieces and is now read off from the first piece
to the last, as `mergeManaged` looks for its marks; and the pool's promise about
callers that time out, once only about the step that counts such a caller out, is
now about every step in which a live session is lost (`SessionLostForCause`).

What stays with TLC is liveness, which is out of the prover's reach:
`AcquireReturns`, `CallReturns`, `CloseTerminates`, `IdleReclaimed` and
`FenceLifted`. TLC checks them on the instances of section 3 under the fairness of
3.3. TLC also finds the counterexamples of section 5.

## 5. Disagreements between the code and its documents

Each of these has a run with a counterexample.

1. **Two holders** (`lease_overlap`). `docs/OPERATIONS.md:40` promises one
   lease per data root. One caller creates the file on a free path; another finds
   it still empty, which counts as stale, and renames the path aside once the
   record is written (`state/lease.go:76`); the first caller holds the lease and
   the second one makes its own.
2. **A call that outlives its deadline** (`pool_blocked_write`). The request is
   written before anything looks at the context (`mcp/child_session.go:90`);
   the repository's own test expects the timeout to bound the whole operation.
3. **A recovery that undoes a later commit** (`workspace_recoverers`). The
   comment at `workspace/transaction.go:98` calls the pointer the authority;
   a second recoverer that was slow restores after the pointer is gone.
4. **Ownership lost by a view** (`reviewed_ownership`). `Inventory` writes back
   the ownership it loaded before its scan, without the lease
   (`app/service.go:198`), against `docs/SECURITY.md:16`.
5. **Human text taken for the section** (`context_torn`). In a file whose end mark
   was deleted, `mergeManaged` appends a second section; the next refresh
   replaces everything from the old start mark to the new end mark
   (`contextengine/refresh.go:251`), against `docs/CONVERGENCE.md:42`.
6. **A repair that cannot repair** (`setup_repair`). A managed router entry that
   is absent from the configuration is planned as a repair; the runner has no
   command for it and `BuildRouterConfig` writes only what is configured or kept
   (`mcp/config.go:52`), so every later plan is the same repair, against
   `docs/USER_GUIDE.md:37`.

Seen while modelling, without a run of their own:

*Lease and reviewed execution*

- Where a rename does not replace a file that is open (Windows), `Touch` leaves the
  lock path empty between two renames (`safefile/replace.go:40-43`). A caller that
  creates the file in this gap holds the lease beside the one that is renewed, and the
  second rename takes its record away; one that reads the path in this gap finds nothing,
  takes that for stale and moves the renewed record aside. A live holder whose heartbeat
  is too old loses its record in the same way. `MutationLease` has both behind the
  constants `Overlap` and `Suspend` (2.1).
- The walk over a router's command line does not know the options of `npx` and `uvx`
  that have a value (`catalog/catalog.go:212-265`): it accepts `uvx --with=floating
  tool==1.0`, and in `npx --registry x@1.0.0 floating` it takes the value of the option
  for the package. `Understood` is the condition under which `AcceptedIsPinned` holds.
- A caller that meets a release gets "recover stale mutation lease" and not the
  busy error of `docs/OPERATIONS.md:40` (`state/lease.go:77`); a start-up then
  fails instead of skipping its maintenance.
- `docs/architecture.md:51` says each action is journaled before execution; the
  runner writes the checkpoint after it.
- The router is configured after the lease is released (`app/service.go:273`),
  against `README.md:11`; the steps are in `ReviewedExecution`.
- After a lost lease the final save and the recording of ownership still write
  (`reviewedplan/executor.go:112`).
- A dependency that is satisfied only by consent counts as verified
  (`runner/runner.go:125-133`).
- A skill pack without detection commands stays "repair" in every plan after it
  was installed (`inventory/inventory.go:151-167`). `ApplyConverges` is therefore
  about installations and configurations only.
- A partial copy of a skill pack leaves directories that are never owned
  (`skills/installer.go:209-238`).

*Children*

- Callers that wait for a starting child get the starter's error even if only
  the starter was cancelled, and `ErrChildRuntimeClosed` can come from an open
  pool (`mcp/child_pool.go:174`, `:185`).

*Workspace and routines*

- `Create` and `AddArtifact` do not check `maxWorkspaceItems` and
  `maxArtifactEntries`, which every load enforces: the item over the limit
  makes the store unreadable (`workspace/store.go:122`). With `MaxItems = 3`
  TLC shows it against `StoreLoads`.
- A crash between the placement of an artifact directory and its commit leaves a
  directory on which every later add of that artifact fails
  (`workspace/artifact.go:86`); a crash in a delete leaves a registered
  artifact without its directory (`workspace/store.go:296`).
- "Workspace state committed but transaction finalization failed"
  (`workspace/transaction.go:96`) is true when it is said and is rolled back half an
  hour later (`AnswerTellsOutcome` says both); a commit
  that takes longer than that is rolled back while it runs.
- A reader that looks for a transaction and then reads can return values that
  are rolled back (`workspace/store.go:342`).
- A listing of routines saves without the lease (`routines/manager.go:429`),
  against `docs/SECURITY.md:16`: one that meets a removal brings the routine
  back.
- A routine that is removed and put again under its name inherits the last
  receipt, and is due at once if its interval has passed since. `RoutineBook`
  states this as one of two outcomes of `Put`.
- `Run` does not ask whether the routine is still due: two overlapping run-dues
  run it twice (the constant `Overlap` keeps them apart in `fabric`).

*Links, hub, context, page*

- A client whose own change reports an error after it took effect, and a Codex
  registration that is cancelled between its commands, are not rolled back
  (`mcplink/manager.go:273`; `docs/architecture.md:76`). `AllOrNothing` excepts
  exactly the client that reported the error (`unsure`).
- A refresh whose plan cannot be removed returns that error after the trees and the
  registry have been replaced, and undoes nothing (`resourcehub/refresh.go:210-212`);
  `AllOrNothing` counts it as carried out (`Committed`). A synchronisation ignores the
  same error and leaves the plan behind.
- A client's configuration is decoded without `UseNumber` and encoded again
  (`mcplink/manager.go:346-401`, `strictjson/decode.go:17-19`): whole numbers over
  2^53 in the entries of other programs are rounded, and layout and order of keys change.
  `ForeignPreserved` is about what such a decoding tells apart.
- A plan of a synchronisation is made without the lease and does not hold the record
  of managed destinations it was made from (`resourcehub/sync.go:20-133`): one that
  is made while another synchronisation is at work may replace a destination that
  the saved record no longer names.
- In link mode an import or a refresh of a resource takes effect at the
  destinations at once, without a synchronisation (`resourcehub/sync.go:312-321`;
  `docs/CLI_REFERENCE.md:163`).
- The lock file of a target is created exclusively and nobody looks at its owner:
  after a crash no later synchronisation of the target can take it
  (`resourcehub/sync.go:495`).
- A context file that appears between the comparison and its replacement is
  overwritten; a file whose end mark precedes its start mark gets a new section
  at every refresh.
- `docs/OPERATIONS.md:62-63` says that shutdown remains locked while a mutation is
  active. A routine that the page runs does not pass the gate
  (`ui/server.go:300-322`), and a mutation can still begin after a shutdown was
  accepted and before the server has stopped.

## 6. What is not modelled

Abstractions that matter when reading a result:

- Outside `Replacement` and `MutationLease`, a file replacement is one step that
  happens or fails, also after the new file is in place.
- The lease in `ReviewedExecution`, `Workspace`, `Routines` and `ResourceHub` is
  exclusive and free after a crash. `MutationLease` implements this only under
  the hypotheses of section 4. A lease that is lost to overlapping acquisitions, to the
  gap of a replacement or to a late heartbeat is therefore in none of these modules.
- In `ReviewedExecution` the machine changes only by AgentStack's hand; removal of
  a router entry reads and rewrites the configuration in one step. In `Setup` the
  owner changes the machine, but each operation is one step.
- `beginTransaction` (snapshots, journal, pointer) and the restoration of one
  file are one step each; so is the undo of directory moves, of which any part may
  fail.
- Lock files of the hub that a crash has left: `LocksReleased` is about jobs that
  end, and no property is about the synchronisation that a left-over lock blocks.
- Layout and the order of keys in a client's file, and numbers other than the one that
  rounding changes.
- `SkillPack` installs a directory only where nothing is. The program asks twice: its
  own look at the destination, and `os.Rename`, which on Unix looks at the new name
  before the system call and refuses a directory, empty or not. An empty directory
  made between this second look and the system call would be replaced.
- The page's times of end increase: a clock that is set back, which would make
  `compactLocked` take another operation for the oldest, is not modelled.
- A tree of the hub is one content: the copy of a tree is complete or not there.
- A run of a routine is its outcome: a failing step and a complete run advance the
  schedule alike. Daylight saving changes are not in `RoutineSchedule`.
- Versions begin where the text has been split at its separators; command lines
  are tokens, with one option for each way a value can be given, and a program's name
  is as the code folds it (`cmd /c NPX.EXE`, whose suffix is trimmed before its letters
  are lowered, is a program the code does not know).

Operations left out of modelled components:

- `RegisterTarget` and the rules of the audit (hub); scores, reading, searching
  and Git (context); prompts, searches, expiry and field limits (workspace);
  finding a version in a command's output (`version`); one-shot children (child
  runtime); the stdio loop and the merge of the Agy client file (router);
  restoring a backup of the configuration and the cache of `MCPDoctor`
  (service); authorisation, rate limits and decoding (page); verification of a
  release pair and `PATH` (self-installation).
- The event log and the retention of old transactions: `AppendEvent` and the
  pruning of events replace one file without relation to anything else.

Components not modelled:

- **Process control and supervision**: termination, graceful close and wait are
  operating-system calls around one process; the modules take a command as a
  step that succeeds, fails or is killed.
- **Backups, data export and clearing** (`state/data.go`): an export and a
  removal of files, each under the lease and without a rollback.
- **Release packaging, supply chain**: sequential build tools without state.
- **Redaction, strict JSON, digests, path environment, ACLs, diagnostics,
  notification, session banner**: text processing, Windows API calls, output.

## 7. The plan

Done: the lease (A), reviewed execution (B), the child pool (C), the workspace
store (D), routines (E), client links (F), the resource hub (G), the context
engine (H), file replacement (I), operations of the page (K), and of the pure
parts the planner, the catalog and version precedence (L), with skill packs and
`Setup` around them.

Left, in order:

- Process control (J): identity checks of terminate, graceful close against
  wait; then the router's stdio loop over `ChildPool`.
- The clearing of data and the restoration of backups beside `Setup`.
- The hub and the context engine over `ExclusiveLease`, to let their jobs meet
  each other and a lost lease.
- Proofs: the safety properties of the runs are done. What could follow is the
  machine of `ReviewedExecution` under changes by its owner, and plans that are the
  planner's instead of a constant, which would make `PlanOrdered` a theorem there.
