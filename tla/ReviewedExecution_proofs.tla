----------------------- MODULE ReviewedExecution_proofs ----------------------
(***************************************************************************)
(* Proofs about the runs of reviewed plans, for any number of operations,  *)
(* any plans and any dependencies: a plan is consumed once, it is applied  *)
(* to the state that was reviewed, nothing is installed after what it      *)
(* needs failed, the journal is true, and start-up leaves live             *)
(* transactions alone.                                                     *)
(***************************************************************************)
EXTENDS ReviewedExecution, TLAPS

ApplyPlaces == {"publish", "act", "running", "checkpoint", "final", "save", "record", "recordSave"}
ReviewPlaces == {"inventory", "scan", "reconcile", "revalidate", "consume"}
RouterPlaces == {"routerWrite", "routerLoad", "routerSave", "register"}
EarlyPlaces == {"new", "load", "savePlan", "dropPlan"} \cup ReviewPlaces
Positions == 1 .. Len(Actions)

\* Where a run holds the lease.
UnderLease(o) ==
    \/ pc[o] \in ApplyPlaces \cup {"load", "closeOk", "removeLoad", "remove", "uninstalled", "recover", "recovered"}
    \/ KindOf[o] = "apply" /\ pc[o] \in ReviewPlaces

OneHolder ==
    /\ \A o, q \in holders : o = q
    /\ \A o \in Op : UnderLease(o) => o \in holders

\* Only the run of a plan gets to the places of Execute.
RightKind == \A o \in Op :
    /\ pc[o] \in ApplyPlaces \cup {"load", "revalidate", "consume", "closeOk"} => KindOf[o] = "apply"
    /\ pc[o] \in {"savePlan", "dropPlan"} => KindOf[o] # "apply"

\* A run has no transaction before it consumed its plan, and one from then on.
HasTransaction == \A o \in Op :
    /\ pc[o] \in EarlyPlaces \/ KindOf[o] # "apply" \/ ~Consumed(o) => tx[o] = NoTx
    /\ pc[o] \in EarlyPlaces => next[o] = 1
    /\ KindOf[o] = "apply" /\ pc[o] \in ApplyPlaces \cup RouterPlaces \cup {"closeOk"} => Consumed(o)
    /\ Consumed(o) \/ (KindOf[o] = "apply" /\ pc[o] \in ReviewPlaces) => plan[o] \in Plan

\* A consumed plan is gone, and a run that is about to consume one is the first.
PlanGone ==
    /\ \A o \in Op : Consumed(o) => plan[o] \notin saved
    /\ \A o, q \in Op : Consumed(o) /\ KindOf[q] = "apply" /\ pc[q] \in ReviewPlaces => plan[o] # plan[q]

\* What is installed, as the run of a plan knows it.
Reviewed == \A o \in Op : \A c \in Installs :
    /\ KindOf[o] = "apply" /\ pc[o] \in {"reconcile", "revalidate"} =>
          (c \in installed <=> c \in scan[o].installed)
    /\ pc[o] = "consume" => (c \in installed <=> c \in sealed[plan[o]].installed)
    /\ pc[o] \in ApplyPlaces /\ tx[o].out[c] = "pending" =>
          (c \in installed <=> c \in sealed[plan[o]].installed)

\* How far the run of a plan has got.
Located == \A o \in Op : pc[o] \in {"running", "checkpoint"} => next[o] \in Positions
Progress == \A o \in Op :
    /\ \A i \in Positions :
          /\ pc[o] \in {"publish", "act", "running"} /\ i >= next[o] => tx[o].out[Actions[i]] = "pending"
          /\ pc[o] = "checkpoint" /\ i > next[o] => tx[o].out[Actions[i]] = "pending"
          /\ pc[o] \in {"act", "running", "checkpoint"} /\ i < next[o] => tx[o].out[Actions[i]] # "pending"
          /\ pc[o] = "checkpoint" /\ i = next[o] => tx[o].out[Actions[i]] # "pending"
    /\ pc[o] = "publish" => next[o] = 1

\* What was kept was there, and what was installed had its needs installed before.
NeedsFirst == \A o \in Op :
    /\ \A c \in Component : tx[o].out[c] = "kept" => c \notin ToInstall(plan[o])
    /\ \A c \in Component : tx[o].out[c] = "ok" =>
          \A d \in DependsOn[c] \cap ToInstall(plan[o]) : tx[o].out[d] = "ok"
    /\ pc[o] = "running" =>
          /\ Actions[next[o]] \in ToInstall(plan[o])
          /\ ~DependencyFailed(o, Actions[next[o]])

\* The status of a transaction is borne out by its records.
StatusTrue == \A o \in Op :
    /\ tx[o].status \in {"none", "running", "succeeded", "partial", "failed"}
    /\ tx[o].status = "running" => \A c \in Component : tx[o].out[c] # "failed"
    /\ tx[o].status \in {"succeeded", "partial"} => \A c \in Planned : tx[o].out[c] \in {"ok", "kept"}
    /\ pc[o] = "publish" => tx[o].status = "running"
    /\ pc[o] \in {"act", "running", "checkpoint"} => tx[o].status \in {"running", "failed"}
    /\ pc[o] = "final" => tx[o].status = "failed"
    /\ pc[o] \in {"save", "record", "recordSave"} => tx[o].status \in {"failed", "succeeded"}
    /\ KindOf[o] = "apply" /\ pc[o] \in RouterPlaces \cup {"closeOk"} => tx[o].status = "succeeded"

\* The journal follows the transaction in memory.
JournalBehind == \A o \in Op :
    /\ \A c \in Component : journal[o].out[c] = "ok" => tx[o].out[c] = "ok"
    /\ journal[o].status \in {"succeeded", "partial"} => \A c \in Planned : journal[o].out[c] \in {"ok", "kept"}
    /\ pc[o] \in {"record", "recordSave"} => journal[o].out = tx[o].out
    /\ pc[o] = "recovered" => \A t \in Op : journal[t].status # "running"

\* What is owned, or is about to be saved as owned.
Good(c) == c \in Routers \/ \E t \in Op : journal[t].out[c] = "ok"
OwnedGood ==
    /\ router \subseteq Routers
    /\ \A c \in owned : Good(c)
    /\ \A o \in Op : \A c \in snap[o] : Good(c)

ExecInv ==
    /\ TypeOK /\ Located
    /\ OneHolder
    /\ RightKind
    /\ HasTransaction
    /\ PlanGone /\ ConsumedOnce
    /\ Reviewed
    /\ Progress
    /\ NeedsFirst
    /\ StatusTrue
    /\ JournalBehind
    /\ OwnedGood

-----------------------------------------------------------------------------
(* Types.                                                                   *)

LEMMA Constants ==
  /\ \A i \in Positions : Actions[i] \in Component
  /\ Planned \subseteq Component /\ Routers \subseteq Component /\ Installs \subseteq Component
  /\ Len(Actions) \in Nat
  /\ \A i, j \in Positions : Actions[i] = Actions[j] => i = j
  BY ExecutionAssumption DEF Positions, Planned

LEMMA Labels ==
  /\ ApplyPlaces \cup ReviewPlaces \cup RouterPlaces \cup EarlyPlaces \subseteq PC
  /\ \A label \in {"removeLoad", "remove", "uninstalled", "recover", "recovered", "close", "closeOk", "done"} : label \in PC
  BY DEF ApplyPlaces, ReviewPlaces, RouterPlaces, EarlyPlaces, PC

\* Everything but a run's own locals stays with the run.
LEMMA Others ==
  ASSUME TypeOK, NEW o \in Op, Step(o), NEW q \in Op, q # o
  PROVE  /\ pc'[q] = pc[q] /\ plan'[q] = plan[q] /\ scan'[q] = scan[q]
         /\ snap'[q] = snap[q] /\ tx'[q] = tx[q] /\ next'[q] = next[q]
<1> USE DEF Goto, TypeOK, locals, DropLocals, Step, ExecuteStep, Acquire, Busy, StartUnlocked, Close, Crash, LoadOwnership, Scan, Reconcile,
            SavePlan, DropTransientPlan, FailsEarly, LoadPlan, PlanRefused, Revalidate, Consume, Publish, Act,
            RunAction, Checkpoint, Finish, SaveFinal, RecordLoad, RecordSave, WriteRouterConfig,
            RouterLoadOwnership, RouterSaveOwnership, RegisterClients, RouterFails, RemoveLoad, RemoveOne,
            RemoveCheckpoint, RemoveStops, RecoverOne, Recovered, PrunePlan
<1>1. pc'[q] = pc[q] /\ plan'[q] = plan[q]
  OBVIOUS
<1>2. scan'[q] = scan[q] /\ snap'[q] = snap[q]
  OBVIOUS
<1>3. next'[q] = next[q] /\ tx'[q] = tx[q]
  OBVIOUS
<1> QED BY <1>1, <1>2, <1>3

LEMMA TypeInit == Init => TypeOK
  BY Constants DEF Init, TypeOK, NoInventory, Inventory, NoTx, Tx, Status, Outcome, PC

LEMMA TxUpdates ==
  /\ NoTx \in Tx /\ NoInventory \in Inventory
  /\ \A t \in Tx, status \in Status : [t EXCEPT !.status = status] \in Tx
  /\ \A t \in Tx, c \in Component, outcome \in Outcome, status \in Status :
        /\ [t EXCEPT !.out[c] = outcome] \in Tx
        /\ [t EXCEPT !.out[c] = outcome, !.status = status] \in Tx
  BY DEF NoTx, NoInventory, Tx, Inventory, Status, Outcome

\* Writing one transaction keeps the types.
LEMMA TxWrites ==
  ASSUME TypeOK, NEW o \in Op, NEW status \in Status
  PROVE  /\ [tx EXCEPT ![o].status = status] \in [Op -> Tx]
         /\ [journal EXCEPT ![o].status = status] \in [Op -> Tx]
         /\ [tx[o] EXCEPT !.status = status] \in Tx
         /\ \A t \in Tx : [tx EXCEPT ![o] = t] \in [Op -> Tx] /\ [journal EXCEPT ![o] = t] \in [Op -> Tx]
         /\ \A c \in Component, outcome \in Outcome :
                /\ [tx EXCEPT ![o].out[c] = outcome] \in [Op -> Tx]
                /\ [tx EXCEPT ![o].out[c] = outcome, ![o].status = status] \in [Op -> Tx]
<1>1. tx[o] \in Tx /\ journal[o] \in Tx /\ tx \in [Op -> Tx] /\ journal \in [Op -> Tx]
  BY DEF TypeOK
<1>2. \A t \in Tx : [tx EXCEPT ![o] = t] \in [Op -> Tx] /\ [journal EXCEPT ![o] = t] \in [Op -> Tx]
  BY <1>1
<1>3. [tx[o] EXCEPT !.status = status] \in Tx /\ [journal[o] EXCEPT !.status = status] \in Tx
  BY <1>1, TxUpdates
<1>4. ASSUME NEW c \in Component, NEW outcome \in Outcome
      PROVE  /\ [tx EXCEPT ![o].out[c] = outcome] \in [Op -> Tx]
             /\ [tx EXCEPT ![o].out[c] = outcome, ![o].status = status] \in [Op -> Tx]
  <2>1. [tx[o] EXCEPT !.out[c] = outcome] \in Tx /\ [tx[o] EXCEPT !.out[c] = outcome, !.status = status] \in Tx
    BY <1>1, TxUpdates
  <2>2. [tx EXCEPT ![o].out[c] = outcome] = [tx EXCEPT ![o] = [tx[o] EXCEPT !.out[c] = outcome]]
    BY <1>1
  <2>3. [tx EXCEPT ![o].out[c] = outcome, ![o].status = status]
          = [tx EXCEPT ![o] = [tx[o] EXCEPT !.out[c] = outcome, !.status = status]]
    BY <1>1
  <2> QED BY <1>2, <2>1, <2>2, <2>3
<1> QED BY <1>1, <1>2, <1>3, <1>4

LEMMA TypeTransactions ==
  ASSUME TypeOK, Located, NEW o \in Op, Step(o)
  PROVE  tx' \in [Op -> Tx] /\ journal' \in [Op -> Tx]
<1>1. tx[o] \in Tx /\ FinalStatus(o) \in Status /\ tx \in [Op -> Tx] /\ journal \in [Op -> Tx]
  BY DEF TypeOK, FinalStatus, Tx, Status
<1>2. "running" \in Status /\ "failed" \in Status /\ "partial" \in Status /\ "interrupted" \in Status
      /\ "ok" \in Outcome /\ "kept" \in Outcome /\ "failed" \in Outcome
  BY DEF Status, Outcome
<1>3. CASE Act(o) \/ RunAction(o)
  <2>1. DEFINE c == Actions[next[o]]
  <2>2. c \in Component
    BY <1>3, Constants DEF Act, RunAction, Located, TypeOK, At, Positions
  <2>3. journal' = journal
    BY <1>3 DEF Act, RunAction, files
  <2>4. \/ tx' = tx
        \/ tx' = [tx EXCEPT ![o].out[c] = "kept"]
        \/ tx' = [tx EXCEPT ![o].out[c] = "ok"]
        \/ tx' = [tx EXCEPT ![o].out[c] = "failed", ![o].status = "failed"]
    BY <1>3 DEF Act, RunAction
  <2>5. [tx EXCEPT ![o].out[c] = "kept"] \in [Op -> Tx] /\ [tx EXCEPT ![o].out[c] = "ok"] \in [Op -> Tx]
    BY <1>2, <2>2, TxWrites, Zenon
  <2>6. [tx EXCEPT ![o].out[c] = "failed", ![o].status = "failed"] \in [Op -> Tx]
    BY <1>2, <2>2, TxWrites, Zenon
  <2> HIDE DEF c
  <2> QED BY <1>1, <2>3, <2>4, <2>5, <2>6
<1>4. CASE Finish(o) \/ RouterFails(o)
  <2>1. PICK status \in Status : \/ tx' = tx
                               \/ tx' = [tx EXCEPT ![o] = [tx[o] EXCEPT !.status = status]]
                               \/ tx' = [tx EXCEPT ![o].status = status]
    BY <1>1, <1>2, <1>4 DEF Finish, RouterFails
  <2>2. PICK status2 \in Status : \/ journal' = journal
                                \/ journal' = [journal EXCEPT ![o] = [tx[o] EXCEPT !.status = status2]]
    BY <1>1, <1>2, <1>4 DEF Finish, RouterFails
  <2>3. /\ [tx EXCEPT ![o].status = status] \in [Op -> Tx]
        /\ [tx[o] EXCEPT !.status = status] \in Tx /\ [tx[o] EXCEPT !.status = status2] \in Tx
    BY TxWrites, Zenon
  <2>4. /\ [tx EXCEPT ![o] = [tx[o] EXCEPT !.status = status]] \in [Op -> Tx]
        /\ [journal EXCEPT ![o] = [tx[o] EXCEPT !.status = status2]] \in [Op -> Tx]
    BY <1>1, <2>3
  <2> QED BY <1>1, <2>1, <2>2, <2>3, <2>4
<1>5. CASE Consume(o) \/ Publish(o) \/ Checkpoint(o)
  <2>1. PICK status \in Status : tx' = tx \/ tx' = [tx EXCEPT ![o].status = status]
    BY <1>2, <1>5 DEF Consume, Publish, Checkpoint
  <2>2. journal' = journal \/ journal' = [journal EXCEPT ![o] = tx[o]]
    BY <1>5 DEF Consume, Publish, Checkpoint
  <2>3. [tx EXCEPT ![o].status = status] \in [Op -> Tx]
    BY TxWrites, Zenon
  <2> QED BY <1>1, <2>1, <2>2, <2>3
<1>6. CASE RecoverOne(o)
  <2>1. PICK t \in Op : journal' = [journal EXCEPT ![t].status = "interrupted"]
    BY <1>6 DEF RecoverOne
  <2>2. tx' = tx
    BY <1>6 DEF RecoverOne, locals
  <2> QED BY <1>1, <1>2, <2>1, <2>2, TxWrites
<1>7. CASE SaveFinal(o)
  BY <1>1, <1>7, TxWrites DEF SaveFinal, locals
<1>8. CASE tx' = tx /\ journal' = journal
  BY <1>1, <1>8
<1> QED BY <1>3, <1>4, <1>5, <1>6, <1>7, <1>8 DEF files, locals, DropLocals, Step, ExecuteStep, Acquire, Busy, StartUnlocked, Close, Crash, LoadOwnership, Scan, Reconcile,
            SavePlan, DropTransientPlan, FailsEarly, LoadPlan, PlanRefused, Revalidate, Consume, Publish, Act,
            RunAction, Checkpoint, Finish, SaveFinal, RecordLoad, RecordSave, WriteRouterConfig,
            RouterLoadOwnership, RouterSaveOwnership, RegisterClients, RouterFails, RemoveLoad, RemoveOne,
            RemoveCheckpoint, RemoveStops, RecoverOne, Recovered, PrunePlan

LEMMA TypeStep ==
  ASSUME TypeOK, Located, NEW o \in Op, Step(o)
  PROVE  TypeOK' /\ Located'
<1> USE DEF Goto, At, locals, files, DropLocals, Step, ExecuteStep, Acquire, Busy, StartUnlocked, Close, Crash, LoadOwnership, Scan, Reconcile,
            SavePlan, DropTransientPlan, FailsEarly, LoadPlan, PlanRefused, Revalidate, Consume, Publish, Act,
            RunAction, Checkpoint, Finish, SaveFinal, RecordLoad, RecordSave, WriteRouterConfig,
            RouterLoadOwnership, RouterSaveOwnership, RegisterClients, RouterFails, RemoveLoad, RemoveOne,
            RemoveCheckpoint, RemoveStops, RecoverOne, Recovered, PrunePlan
<1>0. DOMAIN pc = Op /\ pc[o] \in PC /\ tx[o] \in Tx /\ next[o] \in 1 .. Len(Actions) + 1
      /\ (At(o, "running") \/ (At(o, "act") /\ next[o] <= Len(Actions)) => Actions[next[o]] \in Component)
  BY Constants DEF TypeOK, Located, Positions
<1>1. holders' \in SUBSET Op /\ saved' \in SUBSET Plan /\ sealed' \in [Plan -> Inventory]
  BY DEF TypeOK, DeletePlan, Lease!Acquire, Lease!Release
<1>2. installed' \in SUBSET Component /\ owned' \in SUBSET Component /\ router' \in SUBSET Component
  BY <1>0, Constants DEF TypeOK, Recorded
<1>3. pc' \in [Op -> PC]
  <2>1. FirstStep(o) \in PC /\ AfterRouter(o) \in PC
    BY DEF FirstStep, AfterRouter, PC
  <2>2. pc' = pc \/ \E label \in PC : pc' = [pc EXCEPT ![o] = label]
    BY <2>1 DEF PC
  <2> QED BY <2>2 DEF TypeOK
<1>3a. plan' \in [Op -> Plan \cup {NoPlan}]
  BY DEF TypeOK
<1>4. scan' \in [Op -> Inventory]
  <2>1. [installed |-> installed \cup (snap[o] \cap router), managed |-> snap[o]] \in Inventory
    BY DEF TypeOK, Inventory
  <2>2. scan' = scan \/ \E inventory \in Inventory : scan' = [scan EXCEPT ![o] = inventory]
    BY <2>1, TxUpdates
  <2> QED BY <2>2 DEF TypeOK
<1>5. snap' \in [Op -> SUBSET Component]
  <2>1. snap[o] \subseteq Component /\ owned \subseteq Component
    BY DEF TypeOK
  <2>2. snap' = snap \/ \E S \in SUBSET Component : snap' = [snap EXCEPT ![o] = S]
    BY <2>1
  <2> QED BY <2>2 DEF TypeOK
<1>6. tx' \in [Op -> Tx] /\ journal' \in [Op -> Tx]
  BY TypeTransactions
<1>9. next' \in [Op -> 1 .. Len(Actions) + 1]
  <2>1. pc[o] = "checkpoint" => next[o] + 1 \in 1 .. Len(Actions) + 1
    BY Constants DEF Located, Positions
  <2>2. next' = next \/ (pc[o] = "checkpoint" /\ next' = [next EXCEPT ![o] = @ + 1])
    OBVIOUS
  <2> QED BY <2>1, <2>2 DEF TypeOK
<1>11. TypeOK'
  BY <1>1, <1>2, <1>3, <1>3a, <1>4, <1>5, <1>6, <1>9 DEF TypeOK
<1>12. pc'[o] \in {"running", "checkpoint"} => next'[o] \in Positions
  BY <1>0, <1>9, Constants DEF Located, TypeOK, Positions, FirstStep, AfterRouter
<1> QED BY <1>11, <1>12, Others DEF Located
-----------------------------------------------------------------------------
(* One holder of the lease, and the places a run gets to.                   *)

LEMMA OneHolderStep ==
  ASSUME TypeOK, OneHolder, RightKind, NEW o \in Op, Step(o)
  PROVE  OneHolder'
<1>1. DOMAIN pc = Op
  BY DEF TypeOK
<1>2. \/ holders' = holders
      \/ holders = {} /\ holders' = {o}
      \/ holders' = holders \ {o}
  BY DEF Lease!Acquire, Lease!Release, Step, ExecuteStep, Acquire, Busy, StartUnlocked, Close, Crash, LoadOwnership, Scan, Reconcile,
            SavePlan, DropTransientPlan, FailsEarly, LoadPlan, PlanRefused, Revalidate, Consume, Publish, Act,
            RunAction, Checkpoint, Finish, SaveFinal, RecordLoad, RecordSave, WriteRouterConfig,
            RouterLoadOwnership, RouterSaveOwnership, RegisterClients, RouterFails, RemoveLoad, RemoveOne,
            RemoveCheckpoint, RemoveStops, RecoverOne, Recovered, PrunePlan
<1>3. holders' # holders => \/ holders' = {o}
                            \/ pc'[o] \in {"done", "routerWrite"}
  BY <1>1 DEF Goto, Lease!Acquire, Step, ExecuteStep, Acquire, Busy, StartUnlocked, Close, Crash, LoadOwnership, Scan, Reconcile,
            SavePlan, DropTransientPlan, FailsEarly, LoadPlan, PlanRefused, Revalidate, Consume, Publish, Act,
            RunAction, Checkpoint, Finish, SaveFinal, RecordLoad, RecordSave, WriteRouterConfig,
            RouterLoadOwnership, RouterSaveOwnership, RegisterClients, RouterFails, RemoveLoad, RemoveOne,
            RemoveCheckpoint, RemoveStops, RecoverOne, Recovered, PrunePlan
<1>4. UnderLease(o)' => UnderLease(o) \/ o \in holders'
  BY <1>1 DEF Goto, At, FirstStep, AfterRouter, UnderLease, RightKind, ApplyPlaces, ReviewPlaces, Lease!Acquire, Unlocked, Step, ExecuteStep, Acquire, Busy, StartUnlocked, Close, Crash, LoadOwnership, Scan, Reconcile,
            SavePlan, DropTransientPlan, FailsEarly, LoadPlan, PlanRefused, Revalidate, Consume, Publish, Act,
            RunAction, Checkpoint, Finish, SaveFinal, RecordLoad, RecordSave, WriteRouterConfig,
            RouterLoadOwnership, RouterSaveOwnership, RegisterClients, RouterFails, RemoveLoad, RemoveOne,
            RemoveCheckpoint, RemoveStops, RecoverOne, Recovered, PrunePlan
<1>5. \A q \in Op \ {o} : UnderLease(q)' = UnderLease(q)
  BY Others DEF UnderLease
<1>6. pc'[o] \in {"done", "routerWrite"} => ~UnderLease(o)'
  BY DEF UnderLease, ApplyPlaces, ReviewPlaces
<1>7. UnderLease(o)' => o \in holders'
  BY <1>2, <1>3, <1>4, <1>6 DEF OneHolder
<1>8. \A q \in Op \ {o} : UnderLease(q)' => q \in holders'
  BY <1>2, <1>5 DEF OneHolder
<1>9. \A p, q \in holders' : p = q
  BY <1>2 DEF OneHolder
<1> QED BY <1>7, <1>8, <1>9 DEF OneHolder

LEMMA RightKindStep ==
  ASSUME TypeOK, RightKind, NEW o \in Op, Step(o)
  PROVE  RightKind'
<1>1. DOMAIN pc = Op /\ KindOf[o] \in Kind
  BY ExecutionAssumption DEF TypeOK
<1>2. /\ pc'[o] \in ApplyPlaces \cup {"load", "revalidate", "consume", "closeOk"} => KindOf[o] = "apply"
      /\ pc'[o] \in {"savePlan", "dropPlan"} => KindOf[o] # "apply"
  BY <1>1 DEF RightKind, Goto, At, FirstStep, AfterRouter, ApplyPlaces, Kind, Step, ExecuteStep, Acquire, Busy, StartUnlocked, Close, Crash, LoadOwnership, Scan, Reconcile,
            SavePlan, DropTransientPlan, FailsEarly, LoadPlan, PlanRefused, Revalidate, Consume, Publish, Act,
            RunAction, Checkpoint, Finish, SaveFinal, RecordLoad, RecordSave, WriteRouterConfig,
            RouterLoadOwnership, RouterSaveOwnership, RegisterClients, RouterFails, RemoveLoad, RemoveOne,
            RemoveCheckpoint, RemoveStops, RecoverOne, Recovered, PrunePlan
<1> QED BY <1>2, Others DEF RightKind

LEMMA HasTransactionStep ==
  ASSUME TypeOK, RightKind, HasTransaction, NEW o \in Op, Step(o)
  PROVE  HasTransaction'
<1>1. DOMAIN pc = Op /\ DOMAIN tx = Op /\ DOMAIN next = Op /\ DOMAIN plan = Op /\ KindOf[o] \in Kind
      /\ tx[o] \in Tx /\ pc[o] \in PC /\ NoPlan \notin Plan
  BY ExecutionAssumption DEF TypeOK
<1> USE DEF Goto, At, locals, DropLocals
<1>2. pc'[o] \in EarlyPlaces \/ KindOf[o] # "apply" => tx'[o] = NoTx
  BY <1>1 DEF RightKind, HasTransaction, FirstStep, AfterRouter, ApplyPlaces, ReviewPlaces, EarlyPlaces, RouterPlaces, Step, ExecuteStep, Acquire, Busy, StartUnlocked, Close, Crash, LoadOwnership, Scan, Reconcile,
            SavePlan, DropTransientPlan, FailsEarly, LoadPlan, PlanRefused, Revalidate, Consume, Publish, Act,
            RunAction, Checkpoint, Finish, SaveFinal, RecordLoad, RecordSave, WriteRouterConfig,
            RouterLoadOwnership, RouterSaveOwnership, RegisterClients, RouterFails, RemoveLoad, RemoveOne,
            RemoveCheckpoint, RemoveStops, RecoverOne, Recovered, PrunePlan
<1>3. pc'[o] \in EarlyPlaces => next'[o] = 1
  BY <1>1 DEF RightKind, HasTransaction, FirstStep, AfterRouter, ApplyPlaces, ReviewPlaces, EarlyPlaces, RouterPlaces, Step, ExecuteStep, Acquire, Busy, StartUnlocked, Close, Crash, LoadOwnership, Scan, Reconcile,
            SavePlan, DropTransientPlan, FailsEarly, LoadPlan, PlanRefused, Revalidate, Consume, Publish, Act,
            RunAction, Checkpoint, Finish, SaveFinal, RecordLoad, RecordSave, WriteRouterConfig,
            RouterLoadOwnership, RouterSaveOwnership, RegisterClients, RouterFails, RemoveLoad, RemoveOne,
            RemoveCheckpoint, RemoveStops, RecoverOne, Recovered, PrunePlan
<1>4. KindOf[o] = "apply" /\ pc'[o] \in ApplyPlaces \cup RouterPlaces \cup {"closeOk"} => Consumed(o)'
  <2>1. CASE tx' = tx /\ ~Consume(o)
    <3>1. KindOf[o] = "apply" /\ pc'[o] \in ApplyPlaces \cup RouterPlaces \cup {"closeOk"} =>
              pc[o] \in ApplyPlaces \cup RouterPlaces \cup {"closeOk"}
      BY <1>1, <2>1 DEF RightKind, FirstStep, AfterRouter, ApplyPlaces, RouterPlaces, Step, ExecuteStep, Acquire, Busy, StartUnlocked, Close, Crash, LoadOwnership, Scan, Reconcile,
            SavePlan, DropTransientPlan, FailsEarly, LoadPlan, PlanRefused, Revalidate, Consume, Publish, Act,
            RunAction, Checkpoint, Finish, SaveFinal, RecordLoad, RecordSave, WriteRouterConfig,
            RouterLoadOwnership, RouterSaveOwnership, RegisterClients, RouterFails, RemoveLoad, RemoveOne,
            RemoveCheckpoint, RemoveStops, RecoverOne, Recovered, PrunePlan
    <3> QED BY <2>1, <3>1 DEF HasTransaction, Consumed
  <2>2. CASE Consume(o)
    BY <1>1, <2>2 DEF Consumed, Consume, Tx
  <2>3. CASE Publish(o) \/ Act(o) \/ RunAction(o) \/ Checkpoint(o) \/ Finish(o)
    <3>1. Consumed(o)
      BY <2>3 DEF HasTransaction, RightKind, ApplyPlaces, Publish, Act, RunAction, Checkpoint, Finish
    <3>2. tx'[o].status \in {tx[o].status, "failed", "succeeded"}
      BY <1>1, <2>3 DEF Publish, Act, RunAction, Checkpoint, Finish, FinalStatus, Tx
    <3> QED BY <3>1, <3>2 DEF Consumed
  <2>4. CASE RouterFails(o)
    BY <1>1, <2>1, <2>4 DEF RouterFails, Consumed, Tx, RouterPlaces
  <2> QED BY <2>1, <2>2, <2>3, <2>4 DEF Step, ExecuteStep, Acquire, Busy, StartUnlocked, Close, Crash, LoadOwnership, Scan, Reconcile,
            SavePlan, DropTransientPlan, FailsEarly, LoadPlan, PlanRefused, Revalidate, Consume, Publish, Act,
            RunAction, Checkpoint, Finish, SaveFinal, RecordLoad, RecordSave, WriteRouterConfig,
            RouterLoadOwnership, RouterSaveOwnership, RegisterClients, RouterFails, RemoveLoad, RemoveOne,
            RemoveCheckpoint, RemoveStops, RecoverOne, Recovered, PrunePlan
<1>5. Consumed(o)' \/ (KindOf[o] = "apply" /\ pc'[o] \in ReviewPlaces) => plan'[o] \in Plan
  BY <1>1 DEF Consumed, RightKind, HasTransaction, FirstStep, AfterRouter, ApplyPlaces, ReviewPlaces, EarlyPlaces, RouterPlaces, Tx, TypeOK, Step, ExecuteStep, Acquire, Busy, StartUnlocked, Close, Crash, LoadOwnership, Scan, Reconcile,
            SavePlan, DropTransientPlan, FailsEarly, LoadPlan, PlanRefused, Revalidate, Consume, Publish, Act,
            RunAction, Checkpoint, Finish, SaveFinal, RecordLoad, RecordSave, WriteRouterConfig,
            RouterLoadOwnership, RouterSaveOwnership, RegisterClients, RouterFails, RemoveLoad, RemoveOne,
            RemoveCheckpoint, RemoveStops, RecoverOne, Recovered, PrunePlan
<1>6. ~Consumed(o)' => tx'[o] = NoTx
  <2>1. CASE tx' = tx
    BY <2>1 DEF HasTransaction, Consumed
  <2>2. CASE Consume(o)
    BY <1>1, <2>2 DEF Consumed, Consume, Tx
  <2>3. CASE Publish(o) \/ Act(o) \/ RunAction(o) \/ Checkpoint(o) \/ Finish(o)
    <3>1. Consumed(o)
      BY <2>3 DEF HasTransaction, RightKind, ApplyPlaces, Publish, Act, RunAction, Checkpoint, Finish
    <3>2. tx'[o].status \in {tx[o].status, "failed", "succeeded"}
      BY <1>1, <2>3 DEF Publish, Act, RunAction, Checkpoint, Finish, FinalStatus, Tx
    <3> QED BY <3>1, <3>2 DEF Consumed
  <2>4. CASE RouterFails(o)
    BY <1>1, <2>1, <2>4 DEF RouterFails, Consumed, Tx, RouterPlaces
  <2> QED BY <2>1, <2>2, <2>3, <2>4 DEF Step, ExecuteStep, Acquire, Busy, StartUnlocked, Close, Crash, LoadOwnership, Scan, Reconcile,
            SavePlan, DropTransientPlan, FailsEarly, LoadPlan, PlanRefused, Revalidate, Consume, Publish, Act,
            RunAction, Checkpoint, Finish, SaveFinal, RecordLoad, RecordSave, WriteRouterConfig,
            RouterLoadOwnership, RouterSaveOwnership, RegisterClients, RouterFails, RemoveLoad, RemoveOne,
            RemoveCheckpoint, RemoveStops, RecoverOne, Recovered, PrunePlan
<1> QED BY <1>2, <1>3, <1>4, <1>5, <1>6, Others DEF HasTransaction, Consumed

-----------------------------------------------------------------------------
(* A plan is consumed once.                                                 *)

LEMMA PlanEffects ==
  ASSUME TypeOK, RightKind, HasTransaction, NEW o \in Op, Step(o)
  PROVE  /\ ~SavePlan(o) /\ ~LoadPlan(o) => plan' = plan /\ saved' \subseteq saved
         /\ ~SavePlan(o) => sealed' = sealed
         /\ ~Consume(o) /\ Consumed(o)' => Consumed(o)
         /\ ~LoadPlan(o) /\ KindOf[o] = "apply" /\ pc'[o] \in ReviewPlaces => pc[o] \in ReviewPlaces
<1>1. DOMAIN pc = Op /\ DOMAIN tx = Op /\ tx[o] \in Tx /\ tx \in [Op -> Tx]
  BY DEF TypeOK
<1>2. ~SavePlan(o) /\ ~LoadPlan(o) => plan' = plan /\ saved' \subseteq saved
  BY DEF locals, files, DropLocals, DeletePlan, Step, ExecuteStep, Acquire, Busy, StartUnlocked, Close, Crash, LoadOwnership, Scan, Reconcile,
            SavePlan, DropTransientPlan, FailsEarly, LoadPlan, PlanRefused, Revalidate, Consume, Publish, Act,
            RunAction, Checkpoint, Finish, SaveFinal, RecordLoad, RecordSave, WriteRouterConfig,
            RouterLoadOwnership, RouterSaveOwnership, RegisterClients, RouterFails, RemoveLoad, RemoveOne,
            RemoveCheckpoint, RemoveStops, RecoverOne, Recovered, PrunePlan
<1>3. ~SavePlan(o) => sealed' = sealed
  BY DEF files, Step, ExecuteStep, Acquire, Busy, StartUnlocked, Close, Crash, LoadOwnership, Scan, Reconcile,
            SavePlan, DropTransientPlan, FailsEarly, LoadPlan, PlanRefused, Revalidate, Consume, Publish, Act,
            RunAction, Checkpoint, Finish, SaveFinal, RecordLoad, RecordSave, WriteRouterConfig,
            RouterLoadOwnership, RouterSaveOwnership, RegisterClients, RouterFails, RemoveLoad, RemoveOne,
            RemoveCheckpoint, RemoveStops, RecoverOne, Recovered, PrunePlan
<1>4. ~Consume(o) /\ Consumed(o)' => Consumed(o)
  <2>1. CASE tx' = tx
    BY <2>1 DEF Consumed
  <2>2. CASE pc[o] \in ApplyPlaces \/ (KindOf[o] = "apply" /\ pc[o] \in RouterPlaces)
    BY <2>2 DEF HasTransaction, RightKind
  <2>3. ~Consume(o) /\ tx' # tx => pc[o] \in ApplyPlaces \/ (KindOf[o] = "apply" /\ pc[o] \in RouterPlaces)
    BY DEF At, locals, DropLocals, ApplyPlaces, RouterPlaces, Step, ExecuteStep, Acquire, Busy, StartUnlocked, Close, Crash, LoadOwnership, Scan, Reconcile,
            SavePlan, DropTransientPlan, FailsEarly, LoadPlan, PlanRefused, Revalidate, Consume, Publish, Act,
            RunAction, Checkpoint, Finish, SaveFinal, RecordLoad, RecordSave, WriteRouterConfig,
            RouterLoadOwnership, RouterSaveOwnership, RegisterClients, RouterFails, RemoveLoad, RemoveOne,
            RemoveCheckpoint, RemoveStops, RecoverOne, Recovered, PrunePlan
  <2> QED BY <2>1, <2>2, <2>3
<1>5. ~LoadPlan(o) /\ KindOf[o] = "apply" /\ pc'[o] \in ReviewPlaces => pc[o] \in ReviewPlaces
  BY <1>1 DEF Goto, At, RightKind, FirstStep, AfterRouter, ReviewPlaces, Unlocked, Step, ExecuteStep, Acquire, Busy, StartUnlocked, Close, Crash, LoadOwnership, Scan, Reconcile,
            SavePlan, DropTransientPlan, FailsEarly, LoadPlan, PlanRefused, Revalidate, Consume, Publish, Act,
            RunAction, Checkpoint, Finish, SaveFinal, RecordLoad, RecordSave, WriteRouterConfig,
            RouterLoadOwnership, RouterSaveOwnership, RegisterClients, RouterFails, RemoveLoad, RemoveOne,
            RemoveCheckpoint, RemoveStops, RecoverOne, Recovered, PrunePlan
<1> QED BY <1>2, <1>3, <1>4, <1>5

LEMMA PlanGoneStep ==
  ASSUME TypeOK, OneHolder, RightKind, HasTransaction, PlanGone, ConsumedOnce, NEW o \in Op, Step(o)
  PROVE  PlanGone' /\ ConsumedOnce'
<1>1. plan \in [Op -> Plan \cup {NoPlan}] /\ DOMAIN pc = Op /\ DOMAIN tx = Op /\ tx[o] \in Tx
  BY DEF TypeOK
<1>2. \A q \in Op \ {o} : pc'[q] = pc[q] /\ plan'[q] = plan[q] /\ Consumed(q)' = Consumed(q)
  BY Others DEF Consumed
<1>3. CASE SavePlan(o)
  <2>1. PICK p \in Plan : /\ p \notin saved /\ \A q \in Op : plan[q] # p
                          /\ saved' = saved \cup {p} /\ plan' = [plan EXCEPT ![o] = p]
    BY <1>3 DEF SavePlan
  <2>2. KindOf[o] # "apply" /\ ~Consumed(o)'
    BY <1>3 DEF SavePlan, RightKind, HasTransaction, At, EarlyPlaces, Consumed, NoTx
  <2> QED BY <1>1, <1>2, <2>1, <2>2 DEF PlanGone, ConsumedOnce
<1>4. CASE LoadPlan(o)
  <2>1. PICK p \in saved : plan' = [plan EXCEPT ![o] = p]
    BY <1>4 DEF LoadPlan
  <2>2. saved' = saved /\ ~Consumed(o)'
    BY <1>4 DEF LoadPlan, files, HasTransaction, At, EarlyPlaces, Consumed, NoTx
  <2>3. plan'[o] = p
    BY <1>1, <2>1
  <2> QED BY <1>2, <2>2, <2>3 DEF PlanGone, ConsumedOnce
<1>5. CASE Consume(o)
  <2>1. plan' = plan /\ saved' = saved \ {plan[o]} /\ pc'[o] = "publish" /\ pc[o] = "consume"
    BY <1>1, <1>5 DEF Consume, DeletePlan, Goto, At
  <2>2. KindOf[o] = "apply" /\ o \in holders
    BY <2>1 DEF RightKind, OneHolder, UnderLease, ReviewPlaces
  <2>3. \A q \in Op : KindOf[q] = "apply" /\ pc[q] \in ReviewPlaces => q = o
    BY <2>2 DEF OneHolder, UnderLease
  <2>4. \A q \in Op : Consumed(q) => plan[q] # plan[o]
    BY <2>1, <2>2 DEF PlanGone, ReviewPlaces
  <2>5. pc'[o] \notin ReviewPlaces
    BY <2>1 DEF ReviewPlaces
  <2>6. PlanGone'
    BY <1>2, <2>1, <2>3, <2>5 DEF PlanGone
  <2> QED BY <1>2, <2>1, <2>4, <2>6 DEF ConsumedOnce
<1>6. CASE ~SavePlan(o) /\ ~LoadPlan(o) /\ ~Consume(o)
  <2>1. /\ plan' = plan /\ saved' \subseteq saved /\ \A q \in Op : Consumed(q)' => Consumed(q)
        /\ \A q \in Op : KindOf[q] = "apply" /\ pc'[q] \in ReviewPlaces => pc[q] \in ReviewPlaces
    BY <1>2, <1>6, PlanEffects
  <2> QED BY <2>1 DEF PlanGone, ConsumedOnce
<1> QED BY <1>3, <1>4, <1>5, <1>6

-----------------------------------------------------------------------------
(* A plan is applied to the state that was reviewed.                        *)

\* What writing one record of a transaction changes.
Wrote(o, c, outcome) ==
    \/ tx' = [tx EXCEPT ![o].out[c] = outcome]
    \/ tx' = [tx EXCEPT ![o].out[c] = outcome, ![o].status = "failed"]

LEMMA OutWritten ==
  ASSUME TypeOK, NEW o \in Op, NEW c \in Component, NEW outcome, Wrote(o, c, outcome)
  PROVE  tx'[o].out[c] = outcome /\ \A d \in Component \ {c} : tx'[o].out[d] = tx[o].out[d]
<1>1. DOMAIN tx = Op /\ tx[o] \in Tx /\ tx[o].out \in [Component -> Outcome]
  BY DEF TypeOK, Tx
<1>2. tx'[o].out = [tx[o].out EXCEPT ![c] = outcome]
  BY <1>1 DEF Wrote, Tx
<1> QED BY <1>1, <1>2

LEMMA ReviewedStep ==
  ASSUME TypeOK, Located, OneHolder, RightKind, HasTransaction, Reviewed, OwnedGood, NEW o \in Op, Step(o)
  PROVE  Reviewed'
<1>1. /\ DOMAIN pc = Op /\ DOMAIN tx = Op /\ DOMAIN scan = Op /\ tx[o] \in Tx
      /\ pc[o] \in PC /\ Installs \cap Routers = {}
  BY ExecutionAssumption DEF TypeOK
<1>2. installed' # installed => UnderLease(o)
  BY <1>1 DEF Goto, At, UnderLease, ApplyPlaces, Step, ExecuteStep, Acquire, Busy, StartUnlocked, Close, Crash, LoadOwnership, Scan, Reconcile,
            SavePlan, DropTransientPlan, FailsEarly, LoadPlan, PlanRefused, Revalidate, Consume, Publish, Act,
            RunAction, Checkpoint, Finish, SaveFinal, RecordLoad, RecordSave, WriteRouterConfig,
            RouterLoadOwnership, RouterSaveOwnership, RegisterClients, RouterFails, RemoveLoad, RemoveOne,
            RemoveCheckpoint, RemoveStops, RecoverOne, Recovered, PrunePlan
<1>3. \A q \in Op \ {o} : plan[q] \in Plan => sealed'[plan[q]] = sealed[plan[q]]
  <2>1. CASE SavePlan(o)
    BY <2>1 DEF SavePlan, TypeOK
  <2> QED BY <2>1, PlanEffects
<1>4. ASSUME NEW q \in Op \ {o}, NEW c \in Installs
      PROVE  /\ KindOf[q] = "apply" /\ pc'[q] \in {"reconcile", "revalidate"} =>
                    (c \in installed' <=> c \in scan'[q].installed)
             /\ pc'[q] = "consume" => (c \in installed' <=> c \in sealed'[plan'[q]].installed)
             /\ pc'[q] \in ApplyPlaces /\ tx'[q].out[c] = "pending" =>
                    (c \in installed' <=> c \in sealed'[plan'[q]].installed)
  <2>1. pc'[q] = pc[q] /\ scan'[q] = scan[q] /\ plan'[q] = plan[q] /\ tx'[q] = tx[q]
    BY Others
  <2>2. UnderLease(q) => installed' = installed
    <3>1. SUFFICES ASSUME UnderLease(q), installed' # installed
                   PROVE  FALSE
      OBVIOUS
    <3>2. UnderLease(o)
      BY <1>2, <3>1
    <3>3. o \in holders /\ q \in holders
      BY <3>1, <3>2 DEF OneHolder
    <3> QED BY <3>3 DEF OneHolder
  <2>3. pc[q] = "consume" \/ pc[q] \in ApplyPlaces => plan[q] \in Plan /\ UnderLease(q)
    BY DEF HasTransaction, RightKind, UnderLease, ReviewPlaces
  <2>4. KindOf[q] = "apply" /\ pc[q] \in {"reconcile", "revalidate"} => UnderLease(q)
    BY DEF UnderLease, ReviewPlaces
  <2> QED BY <1>3, <2>1, <2>2, <2>3, <2>4 DEF Reviewed
<1>5. ASSUME NEW c \in Installs
      PROVE  /\ KindOf[o] = "apply" /\ pc'[o] \in {"reconcile", "revalidate"} =>
                    (c \in installed' <=> c \in scan'[o].installed)
             /\ pc'[o] = "consume" => (c \in installed' <=> c \in sealed'[plan'[o]].installed)
             /\ pc'[o] \in ApplyPlaces /\ tx'[o].out[c] = "pending" =>
                    (c \in installed' <=> c \in sealed'[plan'[o]].installed)
  <2>1. CASE Scan(o)
    <3>1. /\ pc'[o] = "reconcile" /\ installed' = installed
          /\ scan'[o].installed = installed \cup (snap[o] \cap router)
      BY <1>1, <2>1 DEF Scan, Goto
    <3>2. c \notin router
      BY <1>1 DEF OwnedGood
    <3> QED BY <3>1, <3>2 DEF ApplyPlaces
  <2>2. CASE Reconcile(o) \/ Revalidate(o)
    <3>1. installed' = installed /\ sealed' = sealed /\ plan' = plan
      BY <2>2 DEF Reconcile, Revalidate, files
    <3>2. CASE Reconcile(o)
      BY <1>1, <2>2, <3>1, <3>2 DEF Reconcile, Goto, At, Reviewed, ApplyPlaces
    <3>3. CASE Revalidate(o)
      BY <1>1, <2>2, <3>1, <3>3 DEF Revalidate, Goto, At, Reviewed, ApplyPlaces, StillReviewed, RightKind
    <3> QED BY <2>2, <3>2, <3>3
  <2>3. CASE Consume(o)
    BY <1>1, <2>3 DEF Consume, Goto, At, Reviewed, ApplyPlaces
  <2>4. CASE RunAction(o)
    <3>1. /\ plan' = plan /\ sealed' = sealed /\ pc'[o] = "checkpoint" /\ pc[o] = "running"
      BY <1>1, <2>4 DEF RunAction, files, Goto, At
    <3>2. Actions[next[o]] \in Component
      BY <2>4, Constants DEF RunAction, Located, At
    <3>3. /\ tx'[o].out[Actions[next[o]]] # "pending"
          /\ \A d \in Component \ {Actions[next[o]]} : tx'[o].out[d] = tx[o].out[d]
      <4>1. Wrote(o, Actions[next[o]], "ok") \/ Wrote(o, Actions[next[o]], "failed")
        BY <2>4 DEF RunAction, Wrote
      <4> QED BY <3>2, <4>1, OutWritten
    <3>4. c # Actions[next[o]] => (c \in installed' <=> c \in installed)
      BY <2>4 DEF RunAction
    <3>5. c \in Component
      BY Constants
    <3> QED BY <3>1, <3>3, <3>4, <3>5 DEF Reviewed, ApplyPlaces
  <2>5. CASE pc[o] \in ApplyPlaces /\ ~RunAction(o)
    <3>1. installed' = installed /\ plan' = plan /\ sealed' = sealed
      BY <2>5 DEF ApplyPlaces, files, locals, DropLocals, At, FirstStep, Unlocked, Step, ExecuteStep, Acquire, Busy, StartUnlocked, Close, Crash, LoadOwnership, Scan, Reconcile,
            SavePlan, DropTransientPlan, FailsEarly, LoadPlan, PlanRefused, Revalidate, Consume, Publish, Act,
            RunAction, Checkpoint, Finish, SaveFinal, RecordLoad, RecordSave, WriteRouterConfig,
            RouterLoadOwnership, RouterSaveOwnership, RegisterClients, RouterFails, RemoveLoad, RemoveOne,
            RemoveCheckpoint, RemoveStops, RecoverOne, Recovered, PrunePlan
    <3>2. pc'[o] \notin {"reconcile", "revalidate", "consume"}
      BY <1>1, <2>5 DEF ApplyPlaces, At, Goto, Step, ExecuteStep, Acquire, Busy, StartUnlocked, Close, Crash, LoadOwnership, Scan, Reconcile,
            SavePlan, DropTransientPlan, FailsEarly, LoadPlan, PlanRefused, Revalidate, Consume, Publish, Act,
            RunAction, Checkpoint, Finish, SaveFinal, RecordLoad, RecordSave, WriteRouterConfig,
            RouterLoadOwnership, RouterSaveOwnership, RegisterClients, RouterFails, RemoveLoad, RemoveOne,
            RemoveCheckpoint, RemoveStops, RecoverOne, Recovered, PrunePlan
    <3>3. tx'[o].out[c] = "pending" => tx[o].out[c] = "pending"
      <4>1. CASE Act(o)
        <5>1. Actions[next[o]] \in Component /\ c \in Component
          BY <4>1, Constants DEF TypeOK, Positions, Act
        <5>2. \/ tx' = tx
              \/ Wrote(o, Actions[next[o]], "kept") \/ Wrote(o, Actions[next[o]], "failed")
          BY <4>1 DEF Act, Wrote
        <5> QED BY <5>1, <5>2, OutWritten
      <4>2. CASE Publish(o) \/ Checkpoint(o) \/ Finish(o)
        BY <1>1, <4>2 DEF Publish, Checkpoint, Finish, Tx
      <4>3. CASE tx' = tx
        BY <4>3
      <4> QED BY <2>5, <4>1, <4>2, <4>3 DEF ApplyPlaces, locals, DropLocals, At, Step, ExecuteStep, Acquire, Busy, StartUnlocked, Close, Crash, LoadOwnership, Scan, Reconcile,
            SavePlan, DropTransientPlan, FailsEarly, LoadPlan, PlanRefused, Revalidate, Consume, Publish, Act,
            RunAction, Checkpoint, Finish, SaveFinal, RecordLoad, RecordSave, WriteRouterConfig,
            RouterLoadOwnership, RouterSaveOwnership, RegisterClients, RouterFails, RemoveLoad, RemoveOne,
            RemoveCheckpoint, RemoveStops, RecoverOne, Recovered, PrunePlan
    <3> QED BY <2>5, <3>1, <3>2, <3>3 DEF Reviewed
  <2>6. CASE /\ pc[o] \notin ApplyPlaces /\ ~Scan(o) /\ ~Reconcile(o) /\ ~Revalidate(o) /\ ~Consume(o)
    <3>1. pc'[o] \notin ApplyPlaces \cup {"reconcile", "revalidate", "consume"}
      BY <1>1, <2>6 DEF ApplyPlaces, At, Goto, FirstStep, AfterRouter, Unlocked, Step, ExecuteStep, Acquire, Busy, StartUnlocked, Close, Crash, LoadOwnership, Scan, Reconcile,
            SavePlan, DropTransientPlan, FailsEarly, LoadPlan, PlanRefused, Revalidate, Consume, Publish, Act,
            RunAction, Checkpoint, Finish, SaveFinal, RecordLoad, RecordSave, WriteRouterConfig,
            RouterLoadOwnership, RouterSaveOwnership, RegisterClients, RouterFails, RemoveLoad, RemoveOne,
            RemoveCheckpoint, RemoveStops, RecoverOne, Recovered, PrunePlan
    <3> QED BY <3>1
  <2> QED BY <2>1, <2>2, <2>3, <2>4, <2>5, <2>6 DEF Scan, Reconcile, Revalidate, Consume, At, ApplyPlaces
<1> QED BY <1>4, <1>5 DEF Reviewed

-----------------------------------------------------------------------------
(* How far a run has got, and that what is needed is installed first.       *)

\* Only the actions of the plan write records.
LEMMA OutKept ==
  ASSUME TypeOK, NEW o \in Op, Step(o), ~Act(o), ~RunAction(o)
  PROVE  tx'[o].out = tx[o].out
<1>1. DOMAIN tx = Op /\ tx[o] \in Tx
  BY DEF TypeOK
<1>2. CASE tx' = tx
  BY <1>2
<1>3. CASE Consume(o) \/ Publish(o) \/ Checkpoint(o) \/ Finish(o) \/ RouterFails(o)
  BY <1>1, <1>3 DEF Consume, Publish, Checkpoint, Finish, RouterFails, Tx
<1> QED BY <1>2, <1>3 DEF locals, DropLocals, Step, ExecuteStep, Acquire, Busy, StartUnlocked, Close, Crash, LoadOwnership, Scan, Reconcile,
            SavePlan, DropTransientPlan, FailsEarly, LoadPlan, PlanRefused, Revalidate, Consume, Publish, Act,
            RunAction, Checkpoint, Finish, SaveFinal, RecordLoad, RecordSave, WriteRouterConfig,
            RouterLoadOwnership, RouterSaveOwnership, RegisterClients, RouterFails, RemoveLoad, RemoveOne,
            RemoveCheckpoint, RemoveStops, RecoverOne, Recovered, PrunePlan

\* The record an action of the plan writes, if any.
LEMMA ActionWrites ==
  ASSUME TypeOK, Located, NEW o \in Op, Act(o) \/ RunAction(o)
  PROVE  /\ Actions[next[o]] \in Component /\ next[o] \in Positions
         /\ next' = next /\ plan' = plan /\ sealed' = sealed
         /\ \/ pc'[o] = "running" /\ tx' = tx
            \/ /\ pc'[o] = "checkpoint" /\ tx'[o].out[Actions[next[o]]] \in {"kept", "ok", "failed"}
               /\ \A d \in Component \ {Actions[next[o]]} : tx'[o].out[d] = tx[o].out[d]
<1>1. DOMAIN pc = Op /\ next[o] \in 1 .. Len(Actions) + 1
  BY DEF TypeOK
<1>2. next[o] \in Positions
  BY <1>1, Constants DEF Act, RunAction, Located, At, Positions
<1>3. next' = next /\ plan' = plan /\ sealed' = sealed
  BY DEF Act, RunAction, files
<1>4. \/ pc'[o] = "running" /\ tx' = tx
      \/ pc'[o] = "checkpoint" /\ \E outcome \in {"kept", "ok", "failed"} : Wrote(o, Actions[next[o]], outcome)
  BY <1>1 DEF Act, RunAction, Goto, Wrote
<1> QED BY <1>2, <1>3, <1>4, Constants, OutWritten

LEMMA ProgressStep ==
  ASSUME TypeOK, Located, HasTransaction, Progress, NEW o \in Op, Step(o)
  PROVE  Progress'
<1>1. /\ DOMAIN pc = Op /\ DOMAIN tx = Op /\ DOMAIN next = Op /\ next[o] \in Nat /\ Positions \subseteq Nat
      /\ \A i \in Positions : Actions[i] \in Component
  BY Constants DEF TypeOK, Positions
<1>2. CASE Consume(o)
  <2>1. /\ pc[o] = "consume" /\ pc'[o] = "publish" /\ next' = next /\ tx'[o].out = tx[o].out
    BY <1>1, <1>2, OutKept DEF Consume, Goto, At, Act, RunAction
  <2>2. tx[o] = NoTx /\ next[o] = 1
    BY <2>1 DEF HasTransaction, EarlyPlaces, ReviewPlaces
  <2> QED BY <1>1, <2>1, <2>2, Others DEF Progress, NoTx
<1>3. CASE Act(o) \/ RunAction(o)
  <2>1. /\ pc[o] \in {"act", "running"} /\ pc'[o] \in {"running", "checkpoint"} /\ next' = next
        /\ \/ pc'[o] = "running" /\ tx' = tx
           \/ /\ pc'[o] = "checkpoint" /\ tx'[o].out[Actions[next[o]]] # "pending"
              /\ \A d \in Component \ {Actions[next[o]]} : tx'[o].out[d] = tx[o].out[d]
    BY <1>3, ActionWrites DEF Act, RunAction, At
  <2>2. \A i \in Positions : i # next[o] => Actions[i] # Actions[next[o]]
    BY <1>3, Constants, ActionWrites
  <2>3. ASSUME NEW i \in Positions
        PROVE  /\ i # next[o] => tx'[o].out[Actions[i]] = tx[o].out[Actions[i]]
               /\ i < next[o] => tx[o].out[Actions[i]] # "pending"
               /\ i > next[o] => tx[o].out[Actions[i]] = "pending"
               /\ pc'[o] = "running" /\ i = next[o] => tx'[o].out[Actions[i]] = "pending"
               /\ pc'[o] = "checkpoint" /\ i = next[o] => tx'[o].out[Actions[i]] # "pending"
    BY <1>1, <2>1, <2>2 DEF Progress
  <2>4. \A i \in Positions : i < next[o] \/ i = next[o] \/ i > next[o]
    BY <1>1
  <2> QED BY <1>1, <2>1, <2>3, <2>4, Others DEF Progress
<1>4. CASE Publish(o) \/ Checkpoint(o)
  <2>1. tx'[o].out = tx[o].out
    BY <1>4, OutKept DEF Publish, Checkpoint, Act, RunAction, At
  <2>2. \/ pc'[o] \in {"save", "final"}
        \/ pc[o] = "publish" /\ pc'[o] = "act" /\ next'[o] = next[o]
        \/ pc[o] = "checkpoint" /\ pc'[o] = "act" /\ next'[o] = next[o] + 1
    BY <1>1, <1>4 DEF Publish, Checkpoint, Goto, At
  <2>3. pc[o] = "publish" => next[o] = 1
    BY DEF Progress
  <2>4. \A i \in Positions : i >= 1
    BY DEF Positions
  <2> QED BY <1>1, <2>1, <2>2, <2>3, <2>4, Others DEF Progress
<1>5. CASE ~(Consume(o) \/ Act(o) \/ RunAction(o) \/ Publish(o) \/ Checkpoint(o))
  <2>1. pc'[o] \notin {"publish", "act", "running", "checkpoint"}
    BY <1>1, <1>5 DEF Goto, At, FirstStep, AfterRouter, Step, ExecuteStep, Acquire, Busy, StartUnlocked, Close, Crash, LoadOwnership, Scan, Reconcile,
            SavePlan, DropTransientPlan, FailsEarly, LoadPlan, PlanRefused, Revalidate, Consume, Publish, Act,
            RunAction, Checkpoint, Finish, SaveFinal, RecordLoad, RecordSave, WriteRouterConfig,
            RouterLoadOwnership, RouterSaveOwnership, RegisterClients, RouterFails, RemoveLoad, RemoveOne,
            RemoveCheckpoint, RemoveStops, RecoverOne, Recovered, PrunePlan
  <2> QED BY <2>1, Others DEF Progress
<1> QED BY <1>2, <1>3, <1>4, <1>5

\* What the plan of a run installs stays what it was.
LEMMA PlanStays ==
  ASSUME TypeOK, RightKind, HasTransaction, NEW o \in Op, Step(o), NEW q \in Op
  PROVE  \/ tx'[q].out = NoTx.out /\ pc'[q] # "running"
         \/ plan'[q] = plan[q] /\ ToInstall(plan[q])' = ToInstall(plan[q])
<1>1. CASE SavePlan(o)
  <2>1. PICK p \in Plan : /\ \A x \in Op : plan[x] # p
                          /\ sealed' = [sealed EXCEPT ![p] = scan[o]] /\ plan' = [plan EXCEPT ![o] = p]
    BY <1>1 DEF SavePlan
  <2>2. tx' = tx /\ pc'[o] # "running" /\ tx[o] = NoTx
    BY <1>1 DEF SavePlan, Goto, At, HasTransaction, EarlyPlaces, TypeOK
  <2>3. CASE q = o
    BY <2>2, <2>3
  <2>4. CASE q # o /\ plan[q] \in Plan
    BY <2>1, <2>4, Others DEF TypeOK, ToInstall
  <2>5. CASE q # o /\ plan[q] \notin Plan
    <3>1. ~Consumed(q) /\ pc[q] # "running"
      BY <2>5 DEF HasTransaction, RightKind, ApplyPlaces
    <3> QED BY <2>2, <2>5, <3>1, Others DEF HasTransaction
  <2> QED BY <2>3, <2>4, <2>5
<1>2. CASE LoadPlan(o)
  <2>1. tx' = tx /\ pc'[o] = "inventory" /\ pc[o] = "load" /\ sealed' = sealed
    BY <1>2 DEF LoadPlan, Goto, At, TypeOK, files
  <2>2. tx[o] = NoTx
    BY <2>1 DEF HasTransaction, EarlyPlaces
  <2> QED BY <2>1, <2>2, Others DEF ToInstall
<1>3. CASE ~SavePlan(o) /\ ~LoadPlan(o)
  BY <1>3, PlanEffects DEF ToInstall
<1> QED BY <1>1, <1>2, <1>3

LEMMA NeedsFirstStep ==
  ASSUME TypeOK, Located, RightKind, HasTransaction, Progress, NeedsFirst, NEW o \in Op, Step(o)
  PROVE  NeedsFirst'
<1>1. ASSUME NEW q \in Op,
             \/ tx'[q].out = NoTx.out /\ pc'[q] # "running"
             \/ /\ tx'[q].out = tx[q].out /\ plan'[q] = plan[q] /\ ToInstall(plan[q])' = ToInstall(plan[q])
                /\ pc'[q] = "running" => pc[q] = "running" /\ next'[q] = next[q]
      PROVE  /\ \A c \in Component : tx'[q].out[c] = "kept" => c \notin ToInstall(plan[q])'
             /\ \A c \in Component : tx'[q].out[c] = "ok" =>
                   \A d \in DependsOn[c] \cap ToInstall(plan[q])' : tx'[q].out[d] = "ok"
             /\ pc'[q] = "running" =>
                   /\ Actions[next'[q]] \in ToInstall(plan[q])'
                   /\ \A d \in DependsOn[Actions[next'[q]]] : tx'[q].out[d] # "failed"
  <2>1. CASE tx'[q].out = NoTx.out /\ pc'[q] # "running"
    BY <2>1 DEF NoTx
  <2>2. CASE /\ tx'[q].out = tx[q].out /\ plan'[q] = plan[q] /\ ToInstall(plan[q])' = ToInstall(plan[q])
             /\ pc'[q] = "running" => pc[q] = "running" /\ next'[q] = next[q]
    BY <2>2 DEF NeedsFirst, DependencyFailed
  <2> QED BY <1>1, <2>1, <2>2
<1>2. CASE ~Act(o) /\ ~RunAction(o)
  <2>1. tx'[o].out = tx[o].out /\ pc'[o] # "running"
    BY <1>2, OutKept DEF TypeOK, Goto, At, FirstStep, AfterRouter, Step, ExecuteStep, Acquire, Busy, StartUnlocked, Close, Crash, LoadOwnership, Scan, Reconcile,
            SavePlan, DropTransientPlan, FailsEarly, LoadPlan, PlanRefused, Revalidate, Consume, Publish, Act,
            RunAction, Checkpoint, Finish, SaveFinal, RecordLoad, RecordSave, WriteRouterConfig,
            RouterLoadOwnership, RouterSaveOwnership, RegisterClients, RouterFails, RemoveLoad, RemoveOne,
            RemoveCheckpoint, RemoveStops, RecoverOne, Recovered, PrunePlan
  <2>2. \A q \in Op : \/ tx'[q].out = NoTx.out /\ pc'[q] # "running"
                      \/ /\ tx'[q].out = tx[q].out /\ plan'[q] = plan[q] /\ ToInstall(plan[q])' = ToInstall(plan[q])
                         /\ pc'[q] = "running" => pc[q] = "running" /\ next'[q] = next[q]
    BY <2>1, PlanStays, Others
  <2> QED BY <1>1, <2>2 DEF NeedsFirst, DependencyFailed
<1>3. CASE Act(o) \/ RunAction(o)
  <2> DEFINE c == Actions[next[o]]
  <2>1. /\ c \in Component /\ next[o] \in Positions /\ next' = next /\ plan' = plan /\ sealed' = sealed
        /\ \/ pc'[o] = "running" /\ tx' = tx
           \/ /\ pc'[o] = "checkpoint" /\ tx'[o].out[c] \in {"kept", "ok", "failed"}
              /\ \A d \in Component \ {c} : tx'[o].out[d] = tx[o].out[d]
    BY <1>3, ActionWrites
  <2>2. tx[o].out[c] = "pending" /\ tx[o].out \in [Component -> Outcome] /\ pc[o] \in {"act", "running"}
    BY <1>3, <2>1 DEF Progress, Act, RunAction, At, TypeOK, Tx
  <2>3. \A q \in Op : ToInstall(plan[q])' = ToInstall(plan[q])
    BY <2>1 DEF ToInstall
  <2>4. \A q \in Op \ {o} : /\ tx'[q].out = tx[q].out /\ plan'[q] = plan[q]
                            /\ pc'[q] = "running" => pc[q] = "running" /\ next'[q] = next[q]
    BY Others
  <2>5. /\ pc'[o] = "running" => c \in ToInstall(plan[o]) /\ ~DependencyFailed(o, c)
        /\ tx'[o].out[c] = "kept" => c \notin ToInstall(plan[o])
        /\ pc'[o] = "checkpoint" /\ tx'[o].out[c] = "ok" => pc[o] = "running"
    <3>1. CASE Act(o)
      <4>1. \/ c \notin ToInstall(plan[o]) /\ Wrote(o, c, "kept") /\ pc'[o] = "checkpoint"
            \/ Wrote(o, c, "failed") /\ pc'[o] = "checkpoint"
            \/ c \in ToInstall(plan[o]) /\ ~DependencyFailed(o, c) /\ pc'[o] = "running" /\ tx' = tx
        BY <3>1 DEF Act, Goto, Wrote, TypeOK
      <4> QED BY <2>1, <2>2, <4>1, OutWritten
    <3>2. CASE RunAction(o)
      <4>1. /\ pc[o] = "running" /\ pc'[o] = "checkpoint"
            /\ Wrote(o, c, "ok") \/ Wrote(o, c, "failed")
        BY <3>2 DEF RunAction, At, Goto, Wrote, TypeOK
      <4> QED BY <2>1, <4>1, OutWritten
    <3> QED BY <1>3, <3>1, <3>2
  <2>6. ASSUME pc[o] = "running", NEW d \in DependsOn[c] \cap ToInstall(plan[o])
        PROVE  tx[o].out[d] = "ok"
    <3>1. PICK j \in 1 .. next[o] - 1 : Actions[j] = d
      BY <2>1, PlanOrdered DEF Positions
    <3>2. j \in Positions /\ j < next[o] /\ d \in Component
      BY <2>1, <3>1, Constants DEF Positions
    <3>3. tx[o].out[d] # "pending"
      BY <2>6, <3>1, <3>2 DEF Progress
    <3>4. tx[o].out[d] # "failed"
      BY <2>6 DEF NeedsFirst, DependencyFailed
    <3>5. tx[o].out[d] # "kept"
      BY <2>6, <3>2 DEF NeedsFirst
    <3> QED BY <2>2, <3>2, <3>3, <3>4, <3>5 DEF Outcome
  <2>7. \A e \in Component : tx[o].out[e] = "ok" => c \notin DependsOn[e] \cap ToInstall(plan[o])
    BY <2>2 DEF NeedsFirst
  <2>8. \A e \in Component : DependsOn[e] \subseteq Component
    BY ExecutionAssumption
  <2>9. /\ \A e \in Component : tx'[o].out[e] = "kept" => e \notin ToInstall(plan[o])
        /\ \A e \in Component : tx'[o].out[e] = "ok" =>
              \A d \in DependsOn[e] \cap ToInstall(plan[o]) : tx'[o].out[d] = "ok"
    <3>1. CASE tx' = tx
      BY <3>1 DEF NeedsFirst
    <3>2. CASE /\ pc'[o] = "checkpoint" /\ tx'[o].out[c] \in {"kept", "ok", "failed"}
               /\ \A d \in Component \ {c} : tx'[o].out[d] = tx[o].out[d]
      <4>1. \A e \in Component : tx'[o].out[e] = "kept" => e \notin ToInstall(plan[o])
        BY <2>5, <3>2 DEF NeedsFirst
      <4>2. ASSUME NEW e \in Component, tx'[o].out[e] = "ok", NEW d \in DependsOn[e] \cap ToInstall(plan[o])
            PROVE  tx'[o].out[d] = "ok"
        <5>1. d \in Component
          BY <2>8
        <5>2. tx[o].out[d] = "ok"
          BY <2>5, <2>6, <3>2, <4>2 DEF NeedsFirst
        <5> QED BY <2>2, <3>2, <5>1, <5>2
      <4> QED BY <4>1, <4>2
    <3> QED BY <2>1, <3>1, <3>2
  <2>10. pc'[o] = "running" => tx' = tx
    BY <2>1
  <2> HIDE DEF c
  <2>11. pc'[o] = "running" => /\ Actions[next'[o]] \in ToInstall(plan[o]) /\ Actions[next'[o]] = c
                               /\ \A d \in DependsOn[c] : tx'[o].out[d] # "failed"
    BY <2>1, <2>5, <2>10 DEF DependencyFailed, c
  <2>12. /\ \A e \in Component : tx'[o].out[e] = "kept" => e \notin ToInstall(plan[o])'
         /\ \A e \in Component : tx'[o].out[e] = "ok" =>
               \A d \in DependsOn[e] \cap ToInstall(plan[o])' : tx'[o].out[d] = "ok"
         /\ pc'[o] = "running" =>
               /\ Actions[next'[o]] \in ToInstall(plan[o])'
               /\ \A d \in DependsOn[Actions[next'[o]]] : tx'[o].out[d] # "failed"
    BY <2>3, <2>9, <2>11
  <2> QED BY <1>1, <2>3, <2>4, <2>12 DEF NeedsFirst, DependencyFailed
<1> QED BY <1>2, <1>3

-----------------------------------------------------------------------------
(* The status, the journal and the ownership are borne out.                 *)

LEMMA Finishing ==
  ASSUME TypeOK, Progress, StatusTrue, NEW o \in Op, Finish(o)
  PROVE  /\ tx'[o].out = tx[o].out /\ tx'[o].status \in {"failed", "succeeded"}
         /\ tx'[o].status = "succeeded" => \A c \in Planned : tx[o].out[c] \in {"ok", "kept"}
<1>1. DOMAIN tx = Op /\ tx[o] \in Tx /\ next[o] \in 1 .. Len(Actions) + 1 /\ Len(Actions) \in Nat
  BY Constants DEF TypeOK
<1>2. tx'[o].out = tx[o].out /\ (tx'[o].status = FinalStatus(o) \/ tx'[o].status = "failed")
  BY <1>1 DEF Finish, Tx
<1>3. tx[o].status \in {"running", "failed"} /\ (tx[o].status = "running" => At(o, "act") /\ next[o] > Len(Actions))
  BY DEF Finish, StatusTrue, At
<1>4. CASE tx[o].status = "running"
  <2>1. ASSUME NEW c \in Planned
        PROVE  tx[o].out[c] \in {"ok", "kept"}
    <3>1. PICK i \in Positions : Actions[i] = c
      BY DEF Planned, Positions
    <3>2. i < next[o]
      BY <1>1, <1>3, <1>4 DEF Positions
    <3>3. tx[o].out[c] # "pending" /\ tx[o].out[c] # "failed" /\ tx[o].out[c] \in Outcome
      BY <1>1, <1>3, <1>4, <3>1, <3>2, Constants DEF Progress, At, StatusTrue, Tx
    <3> QED BY <3>3 DEF Outcome
  <2> QED BY <1>2, <1>4, <2>1 DEF FinalStatus
<1>5. CASE tx[o].status = "failed"
  BY <1>2, <1>5 DEF FinalStatus
<1> QED BY <1>3, <1>4, <1>5

LEMMA StatusTrueStep ==
  ASSUME TypeOK, Located, RightKind, HasTransaction, Progress, StatusTrue, NEW o \in Op, Step(o)
  PROVE  StatusTrue'
<1> DEFINE Own == /\ tx'[o].status \in {"none", "running", "succeeded", "partial", "failed"}
                  /\ tx'[o].status = "running" => \A c \in Component : tx'[o].out[c] # "failed"
                  /\ tx'[o].status \in {"succeeded", "partial"} => \A c \in Planned : tx'[o].out[c] \in {"ok", "kept"}
                  /\ pc'[o] = "publish" => tx'[o].status = "running"
                  /\ pc'[o] \in {"act", "running", "checkpoint"} => tx'[o].status \in {"running", "failed"}
                  /\ pc'[o] = "final" => tx'[o].status = "failed"
                  /\ pc'[o] \in {"save", "record", "recordSave"} => tx'[o].status \in {"failed", "succeeded"}
                  /\ KindOf[o] = "apply" /\ pc'[o] \in RouterPlaces \cup {"closeOk"} => tx'[o].status = "succeeded"
<1>1. DOMAIN pc = Op /\ DOMAIN tx = Op /\ tx[o] \in Tx
  BY DEF TypeOK
<1>2. CASE Consume(o)
  <2>1. tx[o] = NoTx /\ pc'[o] = "publish"
    BY <1>1, <1>2 DEF Consume, HasTransaction, At, Goto, EarlyPlaces, ReviewPlaces
  <2>2. tx'[o].out = tx[o].out /\ tx'[o].status = "running"
    BY <1>1, <1>2 DEF Consume, Tx
  <2>3. Own
    BY <2>1, <2>2 DEF NoTx, RouterPlaces
  <2> QED BY <2>3, Others DEF StatusTrue
<1>3. CASE Act(o) \/ RunAction(o)
  <2>1. /\ Actions[next[o]] \in Component /\ pc[o] \in {"act", "running"}
        /\ pc'[o] \in {"running", "checkpoint"}
    BY <1>3, ActionWrites DEF Act, RunAction, At
  <2>2. \/ tx' = tx
        \/ /\ tx'[o].status = tx[o].status
           /\ Wrote(o, Actions[next[o]], "kept") \/ Wrote(o, Actions[next[o]], "ok")
        \/ tx'[o].status = "failed"
    BY <1>1, <1>3 DEF Act, RunAction, Wrote, Tx
  <2>3. \/ tx' = tx
        \/ /\ tx'[o].status = tx[o].status
           /\ \A c \in Component : tx'[o].out[c] # "failed" \/ tx'[o].out[c] = tx[o].out[c]
        \/ tx'[o].status = "failed"
    BY <2>1, <2>2, OutWritten
  <2>4. tx[o].status \in {"running", "failed"}
    BY <2>1 DEF StatusTrue
  <2>5. Own
    BY <2>1, <2>3, <2>4 DEF StatusTrue, RouterPlaces
  <2> QED BY <2>5, Others DEF StatusTrue
<1>4. CASE Publish(o) \/ Checkpoint(o)
  <2>1. \/ tx' = tx /\ pc[o] \in {"publish", "checkpoint"} /\ pc'[o] = "act"
        \/ tx'[o].status = "failed" /\ pc'[o] \in {"save", "final"}
    BY <1>1, <1>4 DEF Publish, Checkpoint, At, Goto, Tx
  <2>2. Own
    BY <2>1 DEF StatusTrue, RouterPlaces
  <2> QED BY <2>2, Others DEF StatusTrue
<1>5. CASE Finish(o)
  <2>1. pc'[o] = "save"
    BY <1>1, <1>5 DEF Finish, Goto
  <2>2. Own
    BY <1>5, <2>1, Finishing DEF RouterPlaces
  <2> QED BY <2>2, Others DEF StatusTrue
<1>6. CASE RouterFails(o)
  <2>1. /\ pc'[o] \in {"close", "done"} /\ tx'[o].out = tx[o].out
        /\ tx' = tx \/ (tx'[o].status = "partial" /\ tx[o].status = "succeeded")
    BY <1>1, <1>6 DEF RouterFails, AfterRouter, Goto, Tx, StatusTrue, RouterPlaces
  <2>2. Own
    BY <2>1 DEF StatusTrue, RouterPlaces
  <2> QED BY <2>2, Others DEF StatusTrue
<1>7. CASE ~(Consume(o) \/ Act(o) \/ RunAction(o) \/ Publish(o) \/ Checkpoint(o) \/ Finish(o) \/ RouterFails(o))
  <2>1. tx' = tx
    BY <1>7 DEF locals, DropLocals, Step, ExecuteStep, Acquire, Busy, StartUnlocked, Close, Crash, LoadOwnership, Scan, Reconcile,
            SavePlan, DropTransientPlan, FailsEarly, LoadPlan, PlanRefused, Revalidate, Consume, Publish, Act,
            RunAction, Checkpoint, Finish, SaveFinal, RecordLoad, RecordSave, WriteRouterConfig,
            RouterLoadOwnership, RouterSaveOwnership, RegisterClients, RouterFails, RemoveLoad, RemoveOne,
            RemoveCheckpoint, RemoveStops, RecoverOne, Recovered, PrunePlan
  <2>2. /\ pc'[o] \notin {"publish", "act", "running", "checkpoint", "final"}
        /\ pc'[o] \in {"save", "record", "recordSave"} => pc[o] \in {"save", "record", "recordSave"}
    BY <1>1, <1>7 DEF Goto, At, FirstStep, AfterRouter, Step, ExecuteStep, Acquire, Busy, StartUnlocked, Close, Crash, LoadOwnership, Scan, Reconcile,
            SavePlan, DropTransientPlan, FailsEarly, LoadPlan, PlanRefused, Revalidate, Consume, Publish, Act,
            RunAction, Checkpoint, Finish, SaveFinal, RecordLoad, RecordSave, WriteRouterConfig,
            RouterLoadOwnership, RouterSaveOwnership, RegisterClients, RouterFails, RemoveLoad, RemoveOne,
            RemoveCheckpoint, RemoveStops, RecoverOne, Recovered, PrunePlan
  <2>3. KindOf[o] = "apply" /\ pc'[o] \in RouterPlaces \cup {"closeOk"} =>
           \/ pc[o] \in RouterPlaces \cup {"closeOk"}
           \/ pc[o] = "recordSave" /\ tx[o].status # "failed"
    BY <1>1, <1>7 DEF Goto, At, FirstStep, AfterRouter, RouterPlaces, RightKind, Step, ExecuteStep, Acquire, Busy, StartUnlocked, Close, Crash, LoadOwnership, Scan, Reconcile,
            SavePlan, DropTransientPlan, FailsEarly, LoadPlan, PlanRefused, Revalidate, Consume, Publish, Act,
            RunAction, Checkpoint, Finish, SaveFinal, RecordLoad, RecordSave, WriteRouterConfig,
            RouterLoadOwnership, RouterSaveOwnership, RegisterClients, RouterFails, RemoveLoad, RemoveOne,
            RemoveCheckpoint, RemoveStops, RecoverOne, Recovered, PrunePlan
  <2>4. Own
    BY <2>1, <2>2, <2>3 DEF StatusTrue
  <2> QED BY <2>4, Others DEF StatusTrue
<1> QED BY <1>2, <1>3, <1>4, <1>5, <1>6, <1>7

\* What a step writes to the journal.
LEMMA JournalEffects ==
  ASSUME TypeOK, RightKind, NEW o \in Op, Step(o), NEW q \in Op
  PROVE  \/ journal'[q] = journal[q]
         \/ journal'[q].out = journal[q].out /\ journal'[q].status = "interrupted" /\ pc[o] = "recover"
         \/ q = o /\ journal'[q] = tx[q] /\ pc[o] \in {"publish", "checkpoint", "save"}
         \/ q = o /\ journal'[q] = tx'[q] /\ (Finish(o) \/ (RouterFails(o) /\ KindOf[o] = "apply"))
<1>1. DOMAIN journal = Op /\ journal[q] \in Tx /\ DOMAIN tx = Op
  BY DEF TypeOK
<1>2. CASE RecoverOne(o)
  BY <1>1, <1>2 DEF RecoverOne, At, Tx
<1>3. CASE Publish(o) \/ Checkpoint(o) \/ SaveFinal(o)
  BY <1>1, <1>3 DEF Publish, Checkpoint, SaveFinal, At
<1>4. CASE Finish(o)
  <2> DEFINE final == [tx[o] EXCEPT !.status = FinalStatus(o)]
  <2>1. \/ journal' = journal
        \/ journal' = [journal EXCEPT ![o] = final] /\ tx' = [tx EXCEPT ![o] = final]
    BY <1>4 DEF Finish
  <2> HIDE DEF final
  <2>2. journal'[q] = journal[q] \/ (q = o /\ journal'[q] = tx'[q])
    BY <1>1, <2>1
  <2> QED BY <1>4, <2>2
<1>5. CASE RouterFails(o)
  BY <1>1, <1>5 DEF RouterFails
<1>6. CASE journal' = journal
  BY <1>6
<1> QED BY <1>2, <1>3, <1>4, <1>5, <1>6 DEF files, Step, ExecuteStep, Acquire, Busy, StartUnlocked, Close, Crash, LoadOwnership, Scan, Reconcile,
            SavePlan, DropTransientPlan, FailsEarly, LoadPlan, PlanRefused, Revalidate, Consume, Publish, Act,
            RunAction, Checkpoint, Finish, SaveFinal, RecordLoad, RecordSave, WriteRouterConfig,
            RouterLoadOwnership, RouterSaveOwnership, RegisterClients, RouterFails, RemoveLoad, RemoveOne,
            RemoveCheckpoint, RemoveStops, RecoverOne, Recovered, PrunePlan

\* A success that was recorded stays recorded.
LEMMA SuccessStays ==
  ASSUME TypeOK, Located, RightKind, Progress, JournalBehind, NEW o \in Op, Step(o), NEW q \in Op, NEW c \in Component
  PROVE  /\ tx[q].out[c] = "ok" => tx'[q].out[c] = "ok"
         /\ journal[q].out[c] = "ok" => journal'[q].out[c] = "ok"
<1>1. tx[q].out[c] = "ok" => tx'[q].out[c] = "ok"
  <2>1. CASE q # o
    BY <2>1, Others
  <2>2. CASE q = o /\ ~Act(o) /\ ~RunAction(o)
    BY <2>2, OutKept
  <2>3. CASE q = o /\ (Act(o) \/ RunAction(o))
    <3>1. tx[o].out[Actions[next[o]]] = "pending"
      <4>1. next[o] \in Positions
        BY <2>3, ActionWrites
      <4>2. pc[o] \in {"act", "running"}
        BY <2>3 DEF Act, RunAction, At
      <4>3. next[o] >= next[o]
        BY <4>1, Constants DEF Positions
      <4> QED BY <4>1, <4>2, <4>3 DEF Progress
    <3> QED BY <2>3, <3>1, ActionWrites
  <2> QED BY <2>1, <2>2, <2>3
<1>2. journal[q].out[c] = "ok" => tx[q].out[c] = "ok"
  BY DEF JournalBehind
<1> QED BY <1>1, <1>2, JournalEffects

LEMMA JournalBehindStep ==
  ASSUME TypeOK, Located, OneHolder, RightKind, HasTransaction, Progress, StatusTrue, StatusTrue', JournalBehind,
         NEW o \in Op, Step(o)
  PROVE  JournalBehind'
<1>1. DOMAIN pc = Op /\ DOMAIN tx = Op /\ tx[o] \in Tx
  BY DEF TypeOK
<1>2. ASSUME NEW q \in Op, NEW c \in Component, journal'[q].out[c] = "ok"
      PROVE  tx'[q].out[c] = "ok"
  <2>1. journal'[q] = tx'[q] \/ tx[q].out[c] = "ok"
    BY <1>2, JournalEffects DEF JournalBehind
  <2> QED BY <1>2, <2>1, SuccessStays
<1>3. ASSUME NEW q \in Op, journal'[q].status \in {"succeeded", "partial"}, NEW c \in Planned
      PROVE  journal'[q].out[c] \in {"ok", "kept"}
  BY <1>3, JournalEffects DEF JournalBehind, StatusTrue
<1>4. ASSUME NEW q \in Op, pc'[q] \in {"record", "recordSave"}
      PROVE  journal'[q].out = tx'[q].out
  <2>1. CASE q # o
    <3>1. pc[q] \in {"record", "recordSave"} /\ tx'[q] = tx[q] /\ journal'[q].out = journal[q].out
      BY <1>4, <2>1, Others, JournalEffects
    <3> QED BY <3>1 DEF JournalBehind
  <2>2. CASE q = o
    <3>1. SaveFinal(o) \/ RecordLoad(o) \/ ((RecoverOne(o) \/ PrunePlan(o)) /\ pc' = pc)
      BY <1>1, <1>4, <2>2 DEF Goto, At, FirstStep, AfterRouter, Step, ExecuteStep, Acquire, Busy, StartUnlocked, Close, Crash, LoadOwnership, Scan, Reconcile,
            SavePlan, DropTransientPlan, FailsEarly, LoadPlan, PlanRefused, Revalidate, Consume, Publish, Act,
            RunAction, Checkpoint, Finish, SaveFinal, RecordLoad, RecordSave, WriteRouterConfig,
            RouterLoadOwnership, RouterSaveOwnership, RegisterClients, RouterFails, RemoveLoad, RemoveOne,
            RemoveCheckpoint, RemoveStops, RecoverOne, Recovered, PrunePlan
    <3>2. CASE SaveFinal(o)
      BY <1>1, <1>4, <2>2, <3>2 DEF SaveFinal, locals, Goto, TypeOK
    <3>3. CASE RecordLoad(o)
      BY <2>2, <3>3 DEF RecordLoad, files, At, JournalBehind
    <3>4. CASE (RecoverOne(o) \/ PrunePlan(o)) /\ pc' = pc
      BY <1>4, <2>2, <3>4 DEF RecoverOne, PrunePlan, At
    <3> QED BY <3>1, <3>2, <3>3, <3>4
  <2> QED BY <2>1, <2>2
<1>5. ASSUME NEW q \in Op, pc'[q] = "recovered", NEW t \in Op
      PROVE  journal'[t].status # "running"
  <2>1. CASE q # o
    <3>1. pc[q] = "recovered" /\ UnderLease(q)
      BY <1>5, <2>1, Others DEF UnderLease
    <3>2. ~UnderLease(o)
      BY <2>1, <3>1 DEF OneHolder
    <3>3. pc[o] \notin {"publish", "checkpoint", "save"} /\ ~Finish(o)
      BY <3>2 DEF UnderLease, ApplyPlaces, Finish, At
    <3>4. journal[t].status # "running"
      BY <3>1 DEF JournalBehind
    <3>5. RouterFails(o) /\ KindOf[o] = "apply" => tx'[o].status = "partial"
      BY <1>1 DEF RouterFails, Tx
    <3> QED BY <3>3, <3>4, <3>5, JournalEffects
  <2>2. CASE q = o
    <3>1. Recovered(o) \/ PrunePlan(o)
      BY <1>1, <1>5, <2>2 DEF Goto, At, FirstStep, AfterRouter, Step, ExecuteStep, Acquire, Busy, StartUnlocked, Close, Crash, LoadOwnership, Scan, Reconcile,
            SavePlan, DropTransientPlan, FailsEarly, LoadPlan, PlanRefused, Revalidate, Consume, Publish, Act,
            RunAction, Checkpoint, Finish, SaveFinal, RecordLoad, RecordSave, WriteRouterConfig,
            RouterLoadOwnership, RouterSaveOwnership, RegisterClients, RouterFails, RemoveLoad, RemoveOne,
            RemoveCheckpoint, RemoveStops, RecoverOne, Recovered, PrunePlan
    <3> QED BY <2>2, <3>1 DEF Recovered, PrunePlan, files, LeftRunning, At, JournalBehind
  <2> QED BY <2>1, <2>2
<1> QED BY <1>2, <1>3, <1>4, <1>5 DEF JournalBehind

LEMMA OwnedGoodStep ==
  ASSUME TypeOK, Located, RightKind, Progress, JournalBehind, OwnedGood, NEW o \in Op, Step(o)
  PROVE  OwnedGood'
<1>1. DOMAIN snap = Op /\ owned \subseteq Component /\ \A q \in Op : snap[q] \subseteq Component
  BY DEF TypeOK
<1>2. \A c \in Component : Good(c) => Good(c)'
  BY SuccessStays DEF Good
<1>3. router' \subseteq Routers
  BY DEF OwnedGood, files, Step, ExecuteStep, Acquire, Busy, StartUnlocked, Close, Crash, LoadOwnership, Scan, Reconcile,
            SavePlan, DropTransientPlan, FailsEarly, LoadPlan, PlanRefused, Revalidate, Consume, Publish, Act,
            RunAction, Checkpoint, Finish, SaveFinal, RecordLoad, RecordSave, WriteRouterConfig,
            RouterLoadOwnership, RouterSaveOwnership, RegisterClients, RouterFails, RemoveLoad, RemoveOne,
            RemoveCheckpoint, RemoveStops, RecoverOne, Recovered, PrunePlan
<1>4. owned' \subseteq owned \cup snap[o] \cup Routers \cup (IF At(o, "recordSave") THEN Recorded(o) ELSE {})
  BY DEF files, Step, ExecuteStep, Acquire, Busy, StartUnlocked, Close, Crash, LoadOwnership, Scan, Reconcile,
            SavePlan, DropTransientPlan, FailsEarly, LoadPlan, PlanRefused, Revalidate, Consume, Publish, Act,
            RunAction, Checkpoint, Finish, SaveFinal, RecordLoad, RecordSave, WriteRouterConfig,
            RouterLoadOwnership, RouterSaveOwnership, RegisterClients, RouterFails, RemoveLoad, RemoveOne,
            RemoveCheckpoint, RemoveStops, RecoverOne, Recovered, PrunePlan
<1>5. ASSUME At(o, "recordSave"), NEW c \in Recorded(o)
      PROVE  Good(c) /\ c \in Component
  BY <1>5, Constants DEF JournalBehind, Recorded, Good, At
<1>6. \A c \in Routers : Good(c)'
  BY DEF Good
<1>7. ASSUME NEW c \in owned'
      PROVE  Good(c)'
  BY <1>1, <1>2, <1>4, <1>5, <1>6, <1>7 DEF OwnedGood
<1>8. snap'[o] \subseteq owned \cup snap[o]
  BY <1>1 DEF locals, DropLocals, Step, ExecuteStep, Acquire, Busy, StartUnlocked, Close, Crash, LoadOwnership, Scan, Reconcile,
            SavePlan, DropTransientPlan, FailsEarly, LoadPlan, PlanRefused, Revalidate, Consume, Publish, Act,
            RunAction, Checkpoint, Finish, SaveFinal, RecordLoad, RecordSave, WriteRouterConfig,
            RouterLoadOwnership, RouterSaveOwnership, RegisterClients, RouterFails, RemoveLoad, RemoveOne,
            RemoveCheckpoint, RemoveStops, RecoverOne, Recovered, PrunePlan
<1>9. ASSUME NEW q \in Op, NEW c \in snap'[q]
      PROVE  Good(c)'
  <2>1. c \in owned \/ c \in snap[q]
    BY <1>8, <1>9, Others
  <2> QED BY <1>1, <1>2, <2>1 DEF OwnedGood
<1> QED BY <1>3, <1>7, <1>9 DEF OwnedGood

-----------------------------------------------------------------------------
(* The invariant, and what follows from it.                                 *)

LEMMA ExecInvInit == Init => ExecInv
<1> SUFFICES ASSUME Init
             PROVE  ExecInv
  OBVIOUS
<1>1. TypeOK
  BY TypeInit
<1>2. \A o \in Op : /\ pc[o] \in {"new", "done"} /\ next[o] = 1 /\ tx[o] = NoTx
                    /\ snap[o] = {} /\ journal[o] = NoTx
  BY DEF Init
<1>3. holders = {} /\ owned = {} /\ router = {} /\ saved = {}
  BY DEF Init
<1>4. NoTx.status = "none" /\ \A c \in Component : NoTx.out[c] = "pending"
  BY DEF NoTx
<1>5. Located /\ OneHolder /\ RightKind
  BY <1>2, <1>3 DEF Located, OneHolder, RightKind, UnderLease, ApplyPlaces, ReviewPlaces
<1>6. HasTransaction /\ PlanGone /\ ConsumedOnce
  BY <1>2, <1>4 DEF HasTransaction, PlanGone, ConsumedOnce, Consumed, ApplyPlaces, ReviewPlaces, RouterPlaces
<1>7. Reviewed /\ Progress /\ NeedsFirst
  BY <1>2, <1>4 DEF Reviewed, Progress, NeedsFirst, ApplyPlaces
<1>8. StatusTrue /\ JournalBehind
  BY <1>2, <1>4 DEF StatusTrue, JournalBehind, RouterPlaces
<1>9. OwnedGood
  BY <1>2, <1>3 DEF OwnedGood
<1> QED BY <1>1, <1>5, <1>6, <1>7, <1>8, <1>9 DEF ExecInv

LEMMA ExecInvStep == ExecInv /\ [Next]_vars => ExecInv'
<1>1. ASSUME ExecInv, NEW o \in Op, Step(o)
      PROVE  ExecInv'
  <2> USE <1>1 DEF ExecInv
  <2>1. TypeOK' /\ Located'
    BY TypeStep
  <2>2. OneHolder' /\ RightKind' /\ HasTransaction'
    BY OneHolderStep, RightKindStep, HasTransactionStep
  <2>3. PlanGone' /\ ConsumedOnce'
    BY PlanGoneStep
  <2>4. Reviewed'
    BY ReviewedStep
  <2>5. Progress' /\ NeedsFirst'
    BY ProgressStep, NeedsFirstStep
  <2>6. StatusTrue'
    BY StatusTrueStep
  <2>7. JournalBehind' /\ OwnedGood'
    BY <2>6, JournalBehindStep, OwnedGoodStep
  <2> QED BY <2>1, <2>2, <2>3, <2>4, <2>5, <2>6, <2>7
<1>2. ASSUME ExecInv, UNCHANGED vars
      PROVE  ExecInv'
  <2> USE <1>2 DEF vars, files, locals
  <2>1. TypeOK' /\ Located' /\ OneHolder' /\ RightKind'
    BY DEF ExecInv, TypeOK, Located, OneHolder, RightKind, UnderLease
  <2>2. HasTransaction' /\ PlanGone' /\ ConsumedOnce'
    BY DEF ExecInv, HasTransaction, PlanGone, ConsumedOnce, Consumed
  <2>3. Reviewed' /\ Progress' /\ NeedsFirst'
    BY DEF ExecInv, Reviewed, Progress, NeedsFirst, ToInstall, DependencyFailed
  <2>4. StatusTrue' /\ JournalBehind' /\ OwnedGood'
    BY DEF ExecInv, StatusTrue, JournalBehind, OwnedGood, Good
  <2> QED BY <2>1, <2>2, <2>3, <2>4 DEF ExecInv
<1> QED BY <1>1, <1>2 DEF Next

\* Every run stays in its states, whichever operations meet, crash or fail to
\* write (internal/app/service.go, internal/reviewedplan/executor.go).
THEOREM ExecutionTypeCorrect == Spec => []TypeOK
<1>1. ExecInv => TypeOK
  BY DEF ExecInv
<1> QED BY <1>1, ExecInvInit, ExecInvStep, PTL DEF Spec

\* An approval is used once: DeletePlan comes before the first change to the
\* machine, and under the lease (reviewedplan/executor.go).
THEOREM ApprovalConsumedOnce == Spec => []ConsumedOnce
<1>1. ExecInv => ConsumedOnce
  BY DEF ExecInv
<1> QED BY <1>1, ExecInvInit, ExecInvStep, PTL DEF Spec

\* A plan is applied to the state the user reviewed: between the inventory it
\* was sealed with and its commands nobody else installs or removes anything.
THEOREM ReviewedStateApplied == Spec => []AppliesReviewedState
<1>1. ExecInv => AppliesReviewedState
  <2> SUFFICES ASSUME ExecInv, NEW o \in Op, Applying(o), NEW c \in Installs,
                      tx[o].out[c] = "pending"
               PROVE  c \in installed <=> c \in sealed[plan[o]].installed
    BY DEF AppliesReviewedState
  <2>1. pc[o] \in ApplyPlaces
    BY DEF Applying, ApplyPlaces
  <2> QED BY <2>1 DEF ExecInv, Reviewed
<1> QED BY <1>1, ExecInvInit, ExecInvStep, PTL DEF Spec

\* Nothing is installed after something it needs, directly or through others,
\* failed in the same run (failedDependency of runner/engine.go).
THEOREM NothingAfterFailedNeed == Spec => []NoInstallAfterFailedNeed
<1>1. ExecInv => NoInstallAfterFailedNeed
  <2> SUFFICES ASSUME ExecInv, NEW o \in Op, NEW c \in Installs, tx[o].out[c] = "ok",
                      NEW d \in InstallNeeds(plan[o], c)
               PROVE  tx[o].out[d] = "ok"
    BY DEF NoInstallAfterFailedNeed
  <2> DEFINE S == {e \in Component : e \in ToInstall(plan[o]) => tx[o].out[e] = "ok"}
  <2>1. c \in Component /\ \A e \in Component : DependsOn[e] \subseteq Component
    BY ExecutionAssumption
  <2>2. ASSUME NEW e \in Component, tx[o].out[e] = "ok"
        PROVE  DependsOn[e] \subseteq S
    BY <2>1, <2>2 DEF ExecInv, NeedsFirst
  <2>3. DependsOn[c] \subseteq S
    BY <2>1, <2>2
  <2>4. \A e \in S \cap ToInstall(plan[o]) : DependsOn[e] \subseteq S
    BY <2>2
  <2>5. S \in SUBSET Component
    OBVIOUS
  <2>6. d \in S /\ d \in ToInstall(plan[o])
    <3> HIDE DEF S
    <3> QED BY <2>3, <2>4, <2>5 DEF InstallNeeds
  <2> QED BY <2>6
<1> QED BY <1>1, ExecInvInit, ExecInvStep, PTL DEF Spec

\* The journal can be believed, and what is owned was installed by a run with a
\* durable record of it, or is a router entry (state/store.go, app/service.go).
THEOREM JournalCorrect == Spec => []JournalIsTrue
<1>1. ExecInv => JournalIsTrue
  BY DEF ExecInv, JournalBehind, OwnedGood, Good, JournalIsTrue, At
<1> QED BY <1>1, ExecInvInit, ExecInvStep, PTL DEF Spec

\* Start-up never marks a transaction as interrupted whose run is alive
\* (docs/architecture.md, app/bootstrap.go).
THEOREM LiveTransactionsSpared == Spec => StartupSparesLive
<1> DEFINE Spared == \A t \in Op : journal'[t].status = "interrupted" /\ journal[t].status # "interrupted"
                                      => ~Applying(t)
<1>1. ASSUME ExecInv, ExecInv', NEW o \in Op, Step(o)
      PROVE  Spared
  <2> SUFFICES ASSUME NEW t \in Op, journal'[t].status = "interrupted", journal[t].status # "interrupted"
               PROVE  ~Applying(t)
    OBVIOUS
  <2>1. tx[t].status # "interrupted" /\ tx'[t].status # "interrupted"
    BY <1>1 DEF ExecInv, StatusTrue
  <2>2. pc[o] = "recover"
    BY <1>1, <2>1, JournalEffects DEF ExecInv
  <2>3. UnderLease(o) /\ (Applying(t) => UnderLease(t) /\ t # o)
    BY <2>2 DEF UnderLease, Applying, ApplyPlaces
  <2> QED BY <1>1, <2>3 DEF ExecInv, OneHolder
<1>2. UNCHANGED vars => Spared
  BY DEF vars, files
<1>3. ExecInv /\ ExecInv' /\ [Next]_vars => [Spared]_vars
  BY <1>1, <1>2 DEF Next
<1> QED BY <1>3, ExecInvInit, ExecInvStep, PTL DEF Spec, StartupSparesLive
=============================================================================
