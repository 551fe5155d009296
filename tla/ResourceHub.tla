----------------------------- MODULE ResourceHub ----------------------------
(***************************************************************************)
(* resourcehub: a registry of resources with one canonical directory each. *)
(* Import, RestoreBackup, RemoveResource and ApplyRefresh change canonical *)
(* directories and then save the registry; ApplySync installs canonical    *)
(* content at the destinations of a target, as a copy or a symbolic link,  *)
(* and then saves which destinations it manages.  All run under the fabric *)
(* lease, one at a time; plans are made without it, and other programs     *)
(* edit sources, canonical directories and destinations at any time.       *)
(***************************************************************************)
EXTENDS Integers

CONSTANTS
    Resource,       \* resource identifiers, 1..n in the order of their destinations
    TreeContent,    \* what a tree may hold: 1..n
    Blocked,        \* the contents the security audit blocks
    InitialHubs     \* what the store and the destinations hold at first, and the bounds:
                    \* how many jobs are started, plans made and edits of other programs

Digests == {0} \cup TreeContent        \* 0 where nothing is there
Trees == {-1} \cup Digests             \* -1 is a symbolic link to the canonical directory

ASSUME HubAssumption ==
    /\ Resource \subseteq Nat /\ TreeContent \subseteq Nat \ {0} /\ Blocked \subseteq TreeContent
    /\ \A hub \in InitialHubs :
          /\ hub.digest \in [Resource -> Digests] /\ hub.source \in [Resource -> Digests]
          /\ hub.dest \in [Resource -> Trees] /\ hub.managed \in [Resource -> Trees]
          /\ hub.backups \subseteq [id : Resource, content : TreeContent, digest : TreeContent]

VARIABLES
    registry,       \* the digest of each registered resource, the number of saves, and
                    \* whether the target is synchronised by symbolic links
    dirs,           \* the canonical directories: content and the digest in resource.json
    source,         \* the tracked sources
    dest,           \* the destinations of the target
    managed,        \* sync-state: the digest recorded for a managed destination
    kept,           \* the backups, and the destinations moved aside
    locks,          \* the lock files
    hubPlan, act, budget

hubVars == <<registry, dirs, source, dest, managed, kept, locks, hubPlan, act, budget>>

None == 0
Link == -1
NoDir == [content |-> None, digest |-> None]
Nothing == [r \in Resource |-> None]
Links == registry.links
InRegistry == {r \in Resource : registry.digest[r] # None}

NoHubPlan == [id |-> 0, kind |-> "none", saves |-> 0, valid |-> FALSE, ops |-> <<>>]
NoAct == [at |-> "idle", job |-> "none", plan |-> 0, ops |-> <<>>, todo |-> {}, staged |-> Nothing,
         undo |-> {}, moved |-> [r \in Resource |-> NoDir], reg |-> Nothing, entries |-> Nothing,
         touched |-> {}, result |-> "none", undoFailed |-> FALSE, before |-> <<>>]
\* What a job must leave alone when it fails.
Now == [registry |-> registry.digest, dirs |-> dirs, dest |-> dest, managed |-> managed]

HubInit ==
    /\ \E hub \in InitialHubs :
          /\ registry = [digest |-> hub.digest, saves |-> 0, links |-> hub.links]
          /\ dirs = [r \in Resource |-> [content |-> hub.digest[r], digest |-> hub.digest[r]]]
          /\ source = hub.source /\ dest = hub.dest /\ managed = hub.managed
          /\ kept = [backups |-> hub.backups, aside |-> {}]
          /\ budget = [jobs |-> hub.jobs, plans |-> hub.plans, edits |-> hub.edits,
                       crashed |-> FALSE, torn |-> FALSE]
    /\ locks = {}
    /\ hubPlan = NoHubPlan /\ act = NoAct

-----------------------------------------------------------------------------
(* Plans *)

Planned(kind, ops) ==
    /\ budget.plans > 0
    /\ hubPlan' = [id |-> budget.plans, kind |-> kind, saves |-> registry.saves, valid |-> TRUE,
                   ops |-> ops]
    /\ budget' = [budget EXCEPT !.plans = @ - 1]
    /\ UNCHANGED <<registry, dirs, source, dest, managed, kept, locks, act>>

SyncAction(r) ==
    IF dest[r] = None THEN "create"
    ELSE IF (Links /\ managed[r] # None /\ dest[r] = Link) \/ dest[r] = registry.digest[r] THEN "noop"
    ELSE IF managed[r] # None /\ dest[r] = managed[r] THEN "update"
    ELSE "conflict"
\* A managed destination that is not selected any more.
PruneAction(r) == IF dest[r] = managed[r] THEN "remove" ELSE "conflict"

PlanSync(selected, allowRisk, prune) ==
    /\ selected # {} /\ selected \subseteq InRegistry
    /\ allowRisk \/ \A r \in selected : dirs[r].content \notin Blocked
    /\ LET pruned == IF prune THEN {r \in Resource \ selected : managed[r] # None /\ dest[r] # None}
                     ELSE {}
       IN  Planned("sync", [r \in selected \cup pruned |->
               [action |-> IF r \in selected THEN SyncAction(r) ELSE PruneAction(r),
                current |-> dest[r], desired |-> registry.digest[r], recorded |-> managed[r]]])

PlanRefresh(selected) ==
    /\ selected # {} /\ selected \subseteq InRegistry
    /\ Planned("refresh", [r \in selected |->
           [action |-> CASE source[r] = None -> "conflict"
                         [] source[r] = registry.digest[r] -> "noop"
                         [] OTHER -> "update",
            current |-> registry.digest[r], desired |-> source[r]]])

HubPlanLapses ==
    /\ hubPlan.valid
    /\ hubPlan' = [hubPlan EXCEPT !.valid = FALSE]
    /\ UNCHANGED <<registry, dirs, source, dest, managed, kept, locks, act, budget>>

-----------------------------------------------------------------------------
(* Jobs: one at a time under the fabric lease *)

Started == [NoAct EXCEPT !.reg = registry.digest, !.entries = managed, !.before = Now]
StartJob(a) ==
    /\ act.at = "idle" /\ budget.jobs > 0
    /\ act' = a
    /\ budget' = [budget EXCEPT !.jobs = @ - 1]

First(r) == r \in act.todo /\ \A s \in act.todo : r <= s
LastDone(r) == r \in act.undo /\ \A s \in act.undo : s <= r
LockOf == IF act.job = "sync" THEN {"target"} ELSE IF act.job = "refresh" THEN {"refresh"} ELSE {}
Ended(a, result) == [a EXCEPT !.at = "idle", !.todo = {}, !.undo = {}, !.result = result]
\* The job ends without a change; deferred calls remove the lock and the stages.
Give(result) == act' = Ended(act, result) /\ locks' = locks \ LockOf
\* An error: the steps done so far are undone in reverse order.
Rollback ==
    IF act.undo = {} THEN Give("failed")
    ELSE act' = [act EXCEPT !.at = "undo", !.todo = {}, !.result = "failed"] /\ UNCHANGED locks

\* Import stages the content before it touches anything.
StageImport(r, content, replace) ==
    /\ content # None
    /\ r \in InRegistry => replace
    /\ StartJob([Started EXCEPT !.at = IF r \in InRegistry THEN "aside" ELSE "place", !.job = "import",
                             !.todo = {r}, !.staged[r] = content])
    /\ UNCHANGED <<registry, dirs, source, dest, managed, kept, locks, hubPlan>>

Import(r, replace) == StageImport(r, source[r], replace)

\* A backup is imported again if its content still has the digest beside it.
RestoreBackup(b) ==
    /\ b \in kept.backups /\ b.content = b.digest
    /\ StageImport(b.id, b.content, TRUE)

RemoveResource(r) ==
    /\ r \in InRegistry
    /\ StartJob([Started EXCEPT !.at = "aside", !.job = "remove", !.todo = {r}])
    /\ UNCHANGED <<registry, dirs, source, dest, managed, kept, locks, hubPlan>>

\* The reviewed plan is fresh, the registry unchanged, and the lock file created.
StartReviewed(kind, lock) ==
    /\ hubPlan.kind = kind /\ hubPlan.valid /\ hubPlan.saves = registry.saves
    /\ UNCHANGED <<registry, dirs, source, dest, managed, kept, hubPlan>>
    /\ LET a == [Started EXCEPT !.job = kind, !.plan = hubPlan.id, !.ops = hubPlan.ops]
       IN  IF lock \in locks THEN StartJob([a EXCEPT !.result = "locked"]) /\ UNCHANGED locks
           ELSE StartJob([a EXCEPT !.at = "check"]) /\ locks' = locks \cup {lock}

ApplySync == StartReviewed("sync", "target")
ApplyRefresh == StartReviewed("refresh", "refresh")

ToUpdate == {r \in DOMAIN act.ops : act.ops[r].action # "noop"}

\* Every reviewed input is looked at again before the first change.
SyncStillReviewed(r) ==
    LET op == act.ops[r]
    IN  CASE op.action = "noop" -> TRUE
          [] op.action = "remove" -> managed[r] # None /\ dest[r] \in {None, managed[r]}
          [] op.action \in {"create", "update"} ->
                 dirs[r].content = op.desired /\ dest[r] = op.current
          [] OTHER -> FALSE
RefreshStillReviewed(r) ==
    LET op == act.ops[r]
    IN  /\ op.action # "conflict"
        /\ dirs[r].content = op.current
        /\ op.action = "update" => source[r] = op.desired

Check ==
    /\ act.at = "check"
    /\ IF act.job = "sync" THEN \A r \in DOMAIN act.ops : SyncStillReviewed(r)
                           ELSE \A r \in DOMAIN act.ops : RefreshStillReviewed(r)
    /\ act' = [act EXCEPT !.at = IF act.job = "sync" THEN "move" ELSE "stage", !.todo = ToUpdate]
    /\ UNCHANGED <<registry, dirs, source, dest, managed, kept, locks, hubPlan, budget>>

CheckFails ==
    /\ act.at = "check"
    /\ Give("refused")
    /\ UNCHANGED <<registry, dirs, source, dest, managed, kept, hubPlan, budget>>

-----------------------------------------------------------------------------
(* ApplyRefresh, Import, RestoreBackup and RemoveResource *)

\* All sources are copied, and their copies checked, before the first directory moves.
StageCopy(r) ==
    /\ act.at = "stage" /\ First(r)
    /\ IF source[r] = act.ops[r].desired
       THEN act' = [act EXCEPT !.todo = @ \ {r}, !.staged[r] = source[r]] /\ UNCHANGED locks
       ELSE Give("failed")
    /\ UNCHANGED <<registry, dirs, source, dest, managed, kept, hubPlan, budget>>

Staged ==
    /\ act.at = "stage" /\ act.todo = {}
    /\ act' = [act EXCEPT !.at = "aside", !.todo = ToUpdate]
    /\ UNCHANGED <<registry, dirs, source, dest, managed, kept, locks, hubPlan, budget>>

Backup(r) == [id |-> r, content |-> dirs[r].content, digest |-> dirs[r].digest]

\* A directory that is missing is an error of a refresh only.
SetAside(r) ==
    /\ act.at = "aside" /\ First(r)
    /\ dirs[r] = NoDir => act.job # "refresh"
    /\ dirs' = [dirs EXCEPT ![r] = NoDir]
    /\ kept' = IF dirs[r] = NoDir THEN kept ELSE [kept EXCEPT !.backups = @ \cup {Backup(r)}]
    /\ act' = IF act.job = "remove"
              THEN [act EXCEPT !.at = "save", !.todo = {}, !.moved[r] = dirs[r], !.undo = {r},
                               !.reg[r] = None]
              ELSE [act EXCEPT !.at = "place", !.moved[r] = dirs[r]]
    /\ UNCHANGED <<registry, source, dest, managed, locks, hubPlan, budget>>

\* The rename of the stage needs a free name.
PlaceDir(r) ==
    /\ act.at = "place" /\ First(r) /\ dirs[r] = NoDir
    /\ dirs' = [dirs EXCEPT ![r] = [content |-> act.staged[r], digest |-> act.staged[r]]]
    /\ LET left == act.todo \ {r}
       IN  act' = [act EXCEPT !.todo = left, !.undo = @ \cup {r}, !.reg[r] = act.staged[r],
                              !.at = IF left = {} THEN "save" ELSE "aside"]
    /\ UNCHANGED <<registry, source, dest, managed, kept, locks, hubPlan, budget>>

\* What was moved aside is put back, and an error of that is not looked at.
PlaceFails(r) ==
    /\ act.at = "place" /\ First(r)
    /\ LET old == [id |-> r, content |-> act.moved[r].content, digest |-> act.moved[r].digest]
       IN  \/ UNCHANGED <<dirs, kept>>
           \/ /\ act.moved[r] # NoDir /\ dirs[r] = NoDir
              /\ dirs' = [dirs EXCEPT ![r] = act.moved[r]]
              /\ kept' = [kept EXCEPT !.backups = @ \ {old}]
    /\ IF dirs'[r] # NoDir \/ act.moved[r] = NoDir THEN Rollback
       ELSE /\ act' = [act EXCEPT !.at = IF act.undo = {} THEN "idle" ELSE "undo", !.todo = {},
                                  !.result = "failed", !.undoFailed = TRUE]
            /\ locks' = IF act.undo = {} THEN locks \ LockOf ELSE locks
    /\ UNCHANGED <<registry, source, dest, managed, hubPlan, budget>>

NothingToRefresh ==
    /\ act.at = "aside" /\ act.todo = {}
    /\ act' = [act EXCEPT !.at = "save"]
    /\ UNCHANGED <<registry, dirs, source, dest, managed, kept, locks, hubPlan, budget>>

PlanUsed == IF hubPlan.id = act.plan /\ act.plan # 0 THEN NoHubPlan ELSE hubPlan

Saved == [registry EXCEPT !.digest = act.reg, !.saves = @ + 1]

\* A refresh then removes its plan; if it cannot, it ends with that error and undoes nothing.
SaveRegistry ==
    /\ act.at = "save"
    /\ registry' = Saved
    /\ \/ hubPlan' = PlanUsed /\ Give("done")
       \/ act.job = "refresh" /\ UNCHANGED hubPlan /\ Give("committed")
    /\ UNCHANGED <<dirs, source, dest, managed, kept, budget>>

\* RemoveAll of the new directory and the rename of the backup.
UndoDir(r) ==
    /\ act.at = "undo" /\ act.job # "sync" /\ LastDone(r)
    /\ dirs' = [dirs EXCEPT ![r] = act.moved[r]]
    /\ kept' = [kept EXCEPT !.backups =
                   @ \ {[id |-> r, content |-> act.moved[r].content, digest |-> act.moved[r].digest]}]
    /\ IF act.undo = {r} THEN Give("failed")
       ELSE act' = [act EXCEPT !.undo = @ \ {r}] /\ UNCHANGED locks
    /\ UNCHANGED <<registry, source, dest, managed, hubPlan, budget>>

-----------------------------------------------------------------------------
(* ApplySync *)

\* An update or a removal renames the destination; one that is gone is an error.
MoveAside(r) ==
    /\ act.at = "move" /\ First(r)
    /\ LET action == act.ops[r].action
       IN  /\ action # "create" => dest[r] # None
           /\ IF action = "create" THEN UNCHANGED <<dest, kept>>
              ELSE /\ dest' = [dest EXCEPT ![r] = None]
                   /\ kept' = [kept EXCEPT !.aside = @ \cup {<<r, dest[r]>>}]
           /\ act' = [act EXCEPT !.undo = @ \cup {r},
                          !.moved[r] = IF action = "create" THEN NoDir
                                       ELSE [content |-> dest[r], digest |-> None],
                          !.entries[r] = IF action = "remove" THEN None ELSE @,
                          !.todo = IF action = "remove" THEN @ \ {r} ELSE @,
                          !.at = IF action = "remove" THEN "move" ELSE "install"]
    /\ UNCHANGED <<registry, dirs, source, managed, locks, hubPlan, budget>>

\* linkResource, and copyResource where links are not used or cannot be made; the copy
\* replaces whatever has appeared at the destination.
Install(r) ==
    /\ act.at = "install" /\ First(r)
    /\ \/ Links /\ dest' = [dest EXCEPT ![r] = Link]
       \/ dirs[r].content # None /\ dest' = [dest EXCEPT ![r] = dirs[r].content]
    /\ act' = [act EXCEPT !.at = "digest"]
    /\ UNCHANGED <<registry, dirs, source, managed, kept, locks, hubPlan, budget>>

\* The installed tree is read back; in copy mode it must have the registered digest.
Installed(r) ==
    /\ act.at = "digest" /\ First(r)
    /\ dest[r] # None
    /\ ~Links => dest[r] = registry.digest[r]
    /\ act' = [act EXCEPT !.at = "move", !.todo = @ \ {r}, !.entries[r] = dest[r]]
    /\ UNCHANGED <<registry, dirs, source, dest, managed, kept, locks, hubPlan, budget>>

\* A plan that cannot be removed stays, which is no error here.
SaveManaged ==
    /\ act.at = "move" /\ act.todo = {}
    /\ managed' = act.entries
    /\ hubPlan' \in {PlanUsed, hubPlan}
    /\ Give("done")
    /\ UNCHANGED <<registry, dirs, source, dest, kept, budget>>

UndoDest(r) ==
    /\ act.at = "undo" /\ act.job = "sync" /\ LastDone(r)
    /\ dest' = [dest EXCEPT ![r] = act.moved[r].content]
    /\ kept' = [kept EXCEPT !.aside = @ \ {<<r, act.moved[r].content>>}]
    /\ IF act.undo = {r} THEN Give("failed")
       ELSE act' = [act EXCEPT !.undo = @ \ {r}] /\ UNCHANGED locks
    /\ UNCHANGED <<registry, dirs, source, managed, hubPlan, budget>>

-----------------------------------------------------------------------------
(* Failures, crashes and other programs *)

JobFails ==
    /\ act.at \in {"stage", "aside", "save", "move", "install", "digest"}
    /\ act.at = "stage" => act.todo # {}
    /\ Rollback
    /\ UNCHANGED <<registry, dirs, source, dest, managed, kept, hubPlan, budget>>

\* The last file is in place and its replacement reports an error all the same.
SaveReportsError ==
    /\ \/ act.at = "save" /\ registry' = Saved /\ UNCHANGED managed
       \/ act.at = "move" /\ act.todo = {} /\ managed' = act.entries /\ UNCHANGED registry
    /\ Rollback
    /\ budget' = [budget EXCEPT !.torn = TRUE]
    /\ UNCHANGED <<dirs, source, dest, kept, hubPlan>>

\* One step of the rollback fails and the others go on: the new tree stays, or it is
\* removed and the old one is not moved back.
UndoFails(r) ==
    /\ act.at = "undo" /\ LastDone(r)
    /\ \/ UNCHANGED <<dirs, dest>>
       \/ act.job = "sync" /\ dest' = [dest EXCEPT ![r] = None] /\ UNCHANGED dirs
       \/ act.job # "sync" /\ dirs' = [dirs EXCEPT ![r] = NoDir] /\ UNCHANGED dest
    /\ LET a == [act EXCEPT !.undo = @ \ {r}, !.undoFailed = TRUE]
       IN  IF act.undo = {r} THEN act' = Ended(a, "failed") /\ locks' = locks \ LockOf
           ELSE act' = a /\ UNCHANGED locks
    /\ UNCHANGED <<registry, source, managed, kept, hubPlan, budget>>

\* The lock files stay.
HubCrash ==
    /\ act.at # "idle"
    /\ act' = Ended(act, "crashed")
    /\ budget' = [budget EXCEPT !.crashed = TRUE]
    /\ UNCHANGED <<registry, dirs, source, dest, managed, kept, locks, hubPlan>>

HubEdit(r) ==
    /\ budget.edits > 0
    /\ budget' = [budget EXCEPT !.edits = @ - 1]
    /\ \/ /\ \E v \in Digests : v # source[r] /\ source' = [source EXCEPT ![r] = v]
          /\ UNCHANGED <<dirs, dest, act>>
       \/ /\ dirs[r] # NoDir
          /\ \E v \in TreeContent : v # dirs[r].content /\ dirs' = [dirs EXCEPT ![r].content = v]
          /\ act' = [act EXCEPT !.touched = @ \cup {r}]
          /\ UNCHANGED <<source, dest>>
       \/ /\ \E v \in Digests : v # dest[r] /\ dest' = [dest EXCEPT ![r] = v]
          /\ act' = [act EXCEPT !.touched = @ \cup {r}]
          /\ UNCHANGED <<source, dirs>>
    /\ UNCHANGED <<registry, managed, kept, locks, hubPlan>>

ResourceStep(r) ==
    \/ \E replace \in BOOLEAN : Import(r, replace)
    \/ RemoveResource(r)
    \/ StageCopy(r) \/ SetAside(r) \/ PlaceDir(r) \/ PlaceFails(r) \/ UndoDir(r)
    \/ MoveAside(r) \/ Install(r) \/ Installed(r) \/ UndoDest(r) \/ UndoFails(r)
    \/ HubEdit(r)

HubNext ==
    \/ \E selected \in SUBSET Resource :
          \/ \E allowRisk, prune \in BOOLEAN : PlanSync(selected, allowRisk, prune)
          \/ PlanRefresh(selected)
    \/ HubPlanLapses
    \/ \E b \in kept.backups : RestoreBackup(b)
    \/ ApplySync \/ ApplyRefresh \/ Check \/ CheckFails \/ Staged \/ NothingToRefresh
    \/ SaveRegistry \/ SaveManaged \/ JobFails \/ SaveReportsError \/ HubCrash
    \/ \E r \in Resource : ResourceStep(r)

HubSpec == HubInit /\ [][HubNext]_hubVars

-----------------------------------------------------------------------------
HubTypeOK ==
    /\ registry.digest \in [Resource -> Digests]
    /\ \A r \in Resource : dirs[r].content \in Digests
    /\ dest \in [Resource -> Trees] /\ managed \in [Resource -> Trees]
    /\ locks \subseteq {"target", "refresh"}
    /\ act.todo \subseteq Resource /\ act.undo \subseteq Resource

NotEdited == Resource \ act.touched

\* The job went through; a refresh that could not remove its plan says so with an error.
Committed == act.result \in {"done", "committed"}

\* A job of the hub that fails, and whose rollback meets no error, leaves the canonical
\* directories and the destinations as they were, and so the registry and the sync
\* state unless their own replacement reported an error; one that succeeds leaves
\* them in agreement, and so does a refresh that ends with an error only because its
\* plan could not be removed: it is never half done.
HubAllOrNothing ==
    act.at = "idle" /\ act.job # "none" /\ act.result # "crashed" =>
        \A r \in NotEdited :
            /\ ~Committed /\ ~act.undoFailed =>
                  /\ dirs[r] = act.before.dirs[r] /\ dest[r] = act.before.dest[r]
                  /\ \/ budget.torn
                     \/ registry.digest[r] = act.before.registry[r] /\ managed[r] = act.before.managed[r]
            /\ act.result = "done" /\ act.job = "sync" /\ r \in DOMAIN act.ops =>
                  dest[r] = (IF act.ops[r].action = "noop" THEN act.before.dest[r] ELSE managed[r])
            /\ Committed /\ act.staged[r] # None =>
                  dirs[r].content = act.staged[r] /\ registry.digest[r] = act.staged[r]

\* Whatever fails or crashes, a tree that a job found at a destination or in a canonical
\* directory is still there or beside it or among the backups.
TreesKept ==
    act.job # "none" =>
        \A r \in NotEdited :
            LET old == act.before
            IN  /\ old.dest[r] \in {None, dest[r]} \/ <<r, old.dest[r]>> \in kept.aside
                /\ \/ old.dirs[r] \in {NoDir, dirs[r]}
                   \/ [id |-> r, content |-> old.dirs[r].content, digest |-> old.dirs[r].digest]
                          \in kept.backups

\* Every way out of an apply removes its lock file; only a crash leaves one.
LocksReleased == act.at = "idle" /\ ~budget.crashed => locks = {}

\* A destination that nothing manages, and nothing managed when the applied plan was made,
\* is not replaced and not removed, unless it has appeared or changed since the job looked
\* at it.  The plan does not hold the record it was made from (recorded is the model's): a
\* plan made while another sync was at work may be applied to what that sync has replaced.
ForeignDestinationsKept ==
    [][\A r \in Resource :
          dest'[r] # dest[r] =>
              \/ r \in act'.touched \/ r \in act.undo
              \/ dest[r] \in {None, managed[r]}
              \/ act.job = "sync" /\ r \in DOMAIN act.ops /\ dest[r] = act.ops[r].recorded]_hubVars
=============================================================================
