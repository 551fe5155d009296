------------------------------- MODULE Routines -----------------------------
(***************************************************************************)
(* The routine store of internal/routines: routines.json, the receipts of  *)
(* runs, the loads that reconcile the one with the other, and the calls    *)
(* put, remove, run, list and run-due of internal/app and internal/cli.    *)
(*                                                                         *)
(* put, remove and each run hold the mutation lease (withFabricLease);     *)
(* list and the first load of run-due hold none, and save what they        *)
(* reconciled all the same.  A step is one file operation; calls crash     *)
(* between two steps and steps fail, MaxMishaps times in all.              *)
(***************************************************************************)
EXTENDS RoutineSchedule, FiniteSets, TLC

CONSTANTS
    Id, Definition,
    Call,
    KindOf,         \* "put", "delete", "run", "list" or "runDue"
    IdOf,           \* the routine a put, delete or run is about
    DefinitionOf,   \* what a put defines
    NoId, NoCall, NoFile,
    Meetings,       \* sets of calls that meet in one behaviour
    Initial,        \* what the data directory holds at the start, at time Start
    Start,
    Keep,           \* maxStoredRuns
    MaxTime,        \* bound on the clock
    MaxMishaps,     \* bound on crashes and failed steps
    Overlap         \* may calls overlap that Disturb each other?

ASSUME RoutineAssumption ==
    /\ \A d \in Definition : IsSchedule(d.schedule) /\ d.enabled \in BOOLEAN
    /\ Meetings \subseteq SUBSET Call
    /\ NoId \notin Id /\ NoCall \notin Call
    /\ Keep \in Nat \ {0} /\ MaxTime \in Nat /\ Start \in 1 .. MaxTime
    /\ MaxMishaps \in Nat /\ Overlap \in BOOLEAN

VARIABLES
    now,
    store,      \* routines.json
    receipts,   \* the receipts under runs/
    ran,        \* history: when each routine last finished a run with a receipt
    holder,     \* the holder of the mutation lease
    pc,
    loaded,     \* the map each call has loaded and changes
    target,     \* the routine each call is about
    due,        \* the routines a run-due has still to run, with the time they fell due
    slot,       \* the time the routine a run-due is running fell due
    mishaps

locals == <<loaded, target, due, slot>>
vars == <<now, store, receipts, ran, holder, pc, locals, mishaps>>

Empty == [i \in {} |-> NoId]
Routine == [enabled : BOOLEAN, schedule : {d.schedule : d \in Definition},
            last : Nat, updated : Nat, next : Nat]
IsMap(f, S, T) == DOMAIN f \subseteq S /\ f \in [DOMAIN f -> T]

ASSUME NoFileAssumption == \A D \in SUBSET Id : NoFile \notin [D -> Routine]

ASSUME CallAssumption ==
    /\ KindOf \in [Call -> {"put", "delete", "run", "list", "runDue"}]
    /\ DefinitionOf \in [Call -> Definition]
    /\ \A c \in Call : KindOf[c] \in {"put", "delete", "run"} => IdOf[c] \in Id

\* The Keep newest receipts: what ListRuns lists and pruneRuns keeps.
Newest(R) == {r \in R : Cardinality({s \in R : s.finished > r.finished}) < Keep}

LastFinish(id, R) ==
    LET times == {r.finished : r \in {s \in Newest(R) : s.routine = id}} \cup {Never}
    IN  CHOOSE t \in times : \A u \in times : u <= t

\* What earlier calls have left: routines that were scheduled, and receipts.  A run
\* writes its receipt first, so the last run of a routine with receipts has one.
ASSUME InitialAssumption == \A i \in Initial :
    /\ i.store # NoFile =>
          /\ IsMap(i.store, Id, Routine)
          /\ \A id \in DOMAIN i.store :
                /\ i.store[id].last <= i.store[id].updated /\ i.store[id].updated <= Start
                /\ Exact(i.store[id])
                /\ LastFinish(id, i.receipts) = Never \/ i.store[id].last <= LastFinish(id, i.receipts)
    /\ i.receipts \subseteq [routine : Id, finished : 1 .. Start] /\ IsFiniteSet(i.receipts)

Init ==
    /\ now = Start
    /\ \E i \in Initial : store = i.store /\ receipts = i.receipts
    /\ ran = [id \in Id |-> IF store # NoFile /\ id \in DOMAIN store
                            THEN Later(store[id].last, LastFinish(id, receipts)) ELSE LastFinish(id, receipts)]
    /\ holder = NoCall
    /\ \E met \in Meetings : pc = [c \in Call |-> IF c \in met THEN "idle" ELSE "done"]
    /\ loaded = [c \in Call |-> Empty] /\ target = [c \in Call |-> NoId]
    /\ due = [c \in Call |-> Empty] /\ slot = [c \in Call |-> Never]
    /\ mishaps = 0

Goto(c, label) == pc' = [pc EXCEPT ![c] = label]
Load(c, routines) == loaded' = [loaded EXCEPT ![c] = routines]

\* The locals of a call end with it, except the list of a run-due.
Drop(c) == Load(c, Empty) /\ target' = [target EXCEPT ![c] = NoId] /\ slot' = [slot EXCEPT ![c] = Never]
DropAll(c) == Drop(c) /\ due' = [due EXCEPT ![c] = Empty]

\* GiveUp without the deferred Close of the lease.
GiveUpHolding(c) ==
    Goto(c, IF KindOf[c] = "list" THEN "idle" ELSE "done") /\ DropAll(c)

\* An error ends the call; the lease of one that holds it is closed first.
GiveUp(c) ==
    IF holder = c
    THEN Goto(c, "close") /\ UNCHANGED locals
    ELSE Goto(c, IF KindOf[c] = "list" THEN "idle" ELSE "done") /\ DropAll(c)

Mishap == mishaps < MaxMishaps /\ mishaps' = mishaps + 1

-----------------------------------------------------------------------------
(* Beginning a call *)

Live(c) == pc[c] \notin {"idle", "done"}

Disturbs(c, d) ==
    \/ KindOf[c] \in {"put", "delete"} /\ KindOf[d] \in {"list", "runDue"}
    \/ KindOf[c] \in {"run", "runDue"} /\ KindOf[d] = "runDue"

MayBegin(c) ==
    /\ pc[c] = "idle"
    /\ Overlap \/ \A d \in Call \ {c} : Live(d) => ~Disturbs(c, d) /\ ~Disturbs(d, c)

\* withFabricLease refuses when the lease is held.
BeginLeased(c) ==
    /\ MayBegin(c) /\ KindOf[c] \in {"put", "delete", "run"}
    /\ IF holder = NoCall
       THEN /\ holder' = c /\ Goto(c, "read")
            /\ target' = [target EXCEPT ![c] = IdOf[c]]
            /\ UNCHANGED <<loaded, due, slot>>
       ELSE Goto(c, "done") /\ UNCHANGED <<holder, locals>>
    /\ UNCHANGED <<now, store, receipts, ran, mishaps>>

BeginOpen(c) ==
    /\ MayBegin(c) /\ KindOf[c] \in {"list", "runDue"}
    /\ Goto(c, "read")
    /\ UNCHANGED <<now, store, receipts, ran, holder, locals, mishaps>>

-----------------------------------------------------------------------------
(* Loading: the store, the receipts, and the repaired store *)

\* A store that does not exist is empty and not reconciled.
Read(c) ==
    /\ pc[c] = "read"
    /\ IF store = NoFile THEN UNCHANGED loaded /\ Goto(c, "decide")
       ELSE Load(c, store) /\ Goto(c, "reconcile")
    /\ UNCHANGED <<now, store, receipts, ran, holder, target, due, slot, mishaps>>

\* reconcileRuns: a receipt newer than the last run of its routine is that run.
Reconciled(routines, R) ==
    [id \in DOMAIN routines |->
        LET t == LastFinish(id, R)
        IN  IF t > routines[id].last THEN AfterRun(routines[id], t) ELSE routines[id]]

\* A load that does not look at the receipts.
ReconcileNothing(c) ==
    /\ pc[c] = "reconcile" /\ Goto(c, "decide")
    /\ UNCHANGED <<now, store, receipts, ran, holder, locals, mishaps>>

Reconcile(c) ==
    /\ pc[c] = "reconcile"
    /\ LET routines == Reconciled(loaded[c], receipts)
       IN  Load(c, routines) /\ Goto(c, IF routines = loaded[c] THEN "decide" ELSE "repair")
    /\ UNCHANGED <<now, store, receipts, ran, holder, target, due, slot, mishaps>>

-----------------------------------------------------------------------------
(* What the call does with the map *)

\* list returns it; the web page asks again.
Answer(c) ==
    /\ pc[c] = "decide" /\ KindOf[c] = "list"
    /\ Goto(c, "idle") /\ DropAll(c)
    /\ UNCHANGED <<now, store, receipts, ran, holder, mishaps>>

IsDue(r) == r.enabled /\ r.next # Never /\ r.next <= now

\* run-due keeps the routines that are due.
Due(c) ==
    /\ pc[c] = "decide" /\ KindOf[c] = "runDue" /\ target[c] = NoId
    /\ due' = [due EXCEPT ![c] =
                   [id \in {i \in DOMAIN loaded[c] : IsDue(loaded[c][i])} |-> loaded[c][id].next]]
    /\ Load(c, Empty) /\ Goto(c, "next")
    /\ UNCHANGED <<now, store, receipts, ran, holder, target, slot, mishaps>>

\* The next of them, or its failure where the lease is held.
Pick(c) ==
    /\ pc[c] = "next"
    /\ \E id \in DOMAIN due[c] :
          /\ due' = [due EXCEPT ![c] = [i \in DOMAIN due[c] \ {id} |-> due[c][i]]]
          /\ IF holder = NoCall
             THEN /\ holder' = c /\ Goto(c, "read")
                  /\ target' = [target EXCEPT ![c] = id]
                  /\ slot' = [slot EXCEPT ![c] = due[c][id]]
             ELSE UNCHANGED <<holder, pc, target, slot>>
    /\ UNCHANGED <<now, store, receipts, ran, loaded, mishaps>>

NothingLeft(c) ==
    /\ pc[c] = "next" /\ due[c] = Empty
    /\ Goto(c, "done")
    /\ UNCHANGED <<now, store, receipts, ran, holder, locals, mishaps>>

Known(c) == target[c] \in DOMAIN loaded[c]
Runnable(c) == Known(c) /\ loaded[c][target[c]].enabled
IsRun(c) == pc[c] = "decide" /\ KindOf[c] \in {"run", "runDue"} /\ target[c] # NoId

\* Run does not ask whether the routine is still due.
StartRun(c) ==
    /\ IsRun(c)
    /\ Goto(c, IF Runnable(c) THEN "running" ELSE "close")
    /\ UNCHANGED <<now, store, receipts, ran, holder, locals, mishaps>>

\* The steps have been executed, all of them or up to one that failed.
Finish(c) ==
    /\ pc[c] = "running"
    /\ \E t \in now + 1 .. MaxTime :
          /\ now' = t
          /\ Load(c, [loaded[c] EXCEPT ![target[c]] = AfterRun(loaded[c][target[c]], t)])
    /\ Goto(c, "receipt")
    /\ UNCHANGED <<store, receipts, ran, holder, target, due, slot, mishaps>>

-----------------------------------------------------------------------------
(* The writes: what each leaves, and where the call goes on *)

WriteStore(routines) == store' = routines /\ UNCHANGED <<receipts, ran>>

Repair(c) == pc[c] = "repair" /\ WriteStore(loaded[c])

\* A put that does not keep the last run of the routine it redefines.
PutFresh(c) ==
    /\ pc[c] = "decide" /\ KindOf[c] = "put"
    /\ WriteStore([i \in DOMAIN loaded[c] \cup {target[c]} |->
           IF i = target[c] THEN Entry(DefinitionOf[c], Never, now) ELSE loaded[c][i]])

Put(c) ==
    /\ pc[c] = "decide" /\ KindOf[c] = "put"
    /\ LET last == IF Known(c) THEN loaded[c][target[c]].last ELSE Never
       IN  WriteStore([i \in DOMAIN loaded[c] \cup {target[c]} |->
               IF i = target[c] THEN Entry(DefinitionOf[c], last, now) ELSE loaded[c][i]])

\* A routine that does not exist needs no write.
Delete(c) ==
    /\ pc[c] = "decide" /\ KindOf[c] = "delete"
    /\ IF Known(c) THEN WriteStore([i \in DOMAIN loaded[c] \ {target[c]} |-> loaded[c][i]])
       ELSE UNCHANGED <<store, receipts, ran>>

WriteReceipt(c) ==
    /\ pc[c] = "receipt"
    /\ LET finished == loaded[c][target[c]].last
       IN  /\ receipts' = receipts \cup {[routine |-> target[c], finished |-> finished]}
           /\ ran' = [ran EXCEPT ![target[c]] = finished]
    /\ UNCHANGED store

SaveRun(c) == pc[c] = "save" /\ WriteStore(loaded[c])

Prune(c) == pc[c] = "prune" /\ receipts' = Newest(receipts) /\ UNCHANGED <<store, ran>>

Effect(c) ==
    Repair(c) \/ Put(c) \/ Delete(c) \/ WriteReceipt(c) \/ SaveRun(c) \/ Prune(c)

Continue(c) ==
    Goto(c, CASE pc[c] = "repair" -> "decide"
              [] pc[c] = "receipt" -> "save"
              [] pc[c] = "save" -> "prune"
              [] OTHER -> "close")

Write(c) ==
    /\ Effect(c) /\ Continue(c)
    /\ UNCHANGED <<now, holder, locals, mishaps>>

\* A file operation fails, a write before or after the new file is in place.
StepFails(c) ==
    /\ Mishap
    /\ \/ Effect(c)
       \/ /\ \/ pc[c] \in {"read", "reconcile", "repair", "receipt", "save", "prune"}
             \/ pc[c] = "decide" /\ KindOf[c] \in {"put", "delete"}
          /\ UNCHANGED <<store, receipts, ran>>
    /\ GiveUp(c)
    /\ UNCHANGED <<now, holder>>

\* The lease is closed; run-due goes on with the next routine.
Close(c) ==
    /\ pc[c] = "close"
    /\ holder' = NoCall
    /\ Goto(c, IF KindOf[c] = "runDue" THEN "next" ELSE "done")
    /\ Drop(c)
    /\ UNCHANGED <<now, store, receipts, ran, due, mishaps>>

-----------------------------------------------------------------------------

\* The process of a call ends; the next caller takes its lease over.
Crash(c) ==
    /\ Live(c) /\ Mishap
    /\ holder' = IF holder = c THEN NoCall ELSE holder
    /\ Goto(c, "done") /\ DropAll(c)
    /\ UNCHANGED <<now, store, receipts, ran>>

Tick ==
    /\ now < MaxTime /\ now' = now + 1
    /\ UNCHANGED <<store, receipts, ran, holder, pc, locals, mishaps>>

Step(c) ==
    \/ BeginLeased(c) \/ BeginOpen(c)
    \/ Read(c) \/ Reconcile(c)
    \/ Answer(c) \/ Due(c) \/ Pick(c) \/ NothingLeft(c)
    \/ StartRun(c) \/ Finish(c)
    \/ Write(c) \/ StepFails(c)
    \/ Close(c)
    \/ Crash(c)

Next == Tick \/ \E c \in Call : Step(c)

Spec == Init /\ [][Next]_vars

-----------------------------------------------------------------------------
(* Properties *)

\* The variables have their types, and a call that holds the lease (fabric.go:32)
\* is under way: no error path leaves the lease behind.
TypeOK ==
    /\ now \in Start .. MaxTime
    /\ store # NoFile => IsMap(store, Id, Routine)
    /\ receipts \subseteq [routine : Id, finished : 1 .. MaxTime]
    /\ ran \in [Id -> 0 .. MaxTime]
    /\ holder \in Call \cup {NoCall} /\ (holder # NoCall => Live(holder))
    /\ pc \in [Call -> {"idle", "read", "reconcile", "repair", "decide", "next", "running",
                        "receipt", "save", "prune", "close", "done"}]
    /\ \A c \in Call : IsMap(loaded[c], Id, Routine) /\ IsMap(due[c], Id, 1 .. MaxTime)
    /\ target \in [Call -> Id \cup {NoId}]
    /\ slot \in [Call -> 0 .. MaxTime]
    /\ mishaps \in 0 .. MaxMishaps

\* The book of routines that a load would return now.
Book == IF store = NoFile THEN Empty ELSE Reconciled(store, receipts)

RB == INSTANCE RoutineBook WITH book <- Book

\* The files implement the book: a run takes effect as a whole with its receipt
\* (manager.go:247), a put or remove with its save, and nothing else that calls,
\* crashes, failed writes, repairs and pruning do changes a schedule.
ImplementsRoutineBook == RB!Spec

\* run-due does not run a routine for a due time that a run with a receipt has
\* covered (OPERATIONS.md:69), also when the process that ran it died before it
\* advanced the schedule, or a listing wrote an older schedule back.
NotDueAgain ==
    [][\A c \in Call : KindOf[c] = "runDue" /\ pc[c] = "decide" /\ pc'[c] = "running"
                         => ran[target[c]] < slot[c]]_vars

\* The stored next run is the first time after the last change of the routine at
\* which its schedule falls due (schedule.go:10-49).
NextRunExact == store # NoFile => \A id \in DOMAIN store : Exact(store[id])
=============================================================================
