-------------------------------- MODULE Desk --------------------------------
(***************************************************************************)
(* internal/ui: the manager page's mutations.  A request takes the gate,   *)
(* starts an operation in a goroutine and answers with a receipt; the page *)
(* then asks for the operation until it has ended.  The store keeps a      *)
(* bounded number of operations.  Planning and shutting down hold the gate *)
(* for the time of their request.                                          *)
(***************************************************************************)
EXTENDS Naturals, FiniteSets, FiniteSetsExt

CONSTANTS
    OperationId,      \* the operations that are started, as the numbers of their order
    MaxRetained     \* maxRetainedOperations; 64 in the code

ASSUME DeskAssumption == OperationId \subseteq Nat /\ IsFiniteSet(OperationId) /\ MaxRetained \in Nat

VARIABLES
    operations,     \* the store: what it keeps of each operation
    working,        \* operations whose work goes on
    returned,       \* operations whose work returned, before its outcome is stored
    gate,           \* what is in the gate's channel
    request,        \* the request that holds the gate while it is handled
    page            \* "open", "closing" once a shutdown was asked for, "closed"

deskVars == <<operations, working, returned, gate, request, page>>

\* finished: 0 while it runs, and then its place in the order of the ends.
Fresh == [status |-> "unknown", finished |-> 0]
Receipts == {o \in OperationId : operations[o].status # "unknown"}
Retained(ops) == {o \in OperationId : ops[o].status \in {"running", "succeeded", "failed"}}
EndedOps(ops) == {o \in Retained(ops) : ops[o].status # "running"}

DeskInit ==
    /\ operations = [o \in OperationId |-> Fresh]
    /\ working = {} /\ returned = {}
    /\ gate = 0 /\ request = "none" /\ page = "open"

\* Mutant of Compact: the newest ones that ended make room.
CompactNewest(ops) ==
    LET excess == Cardinality(Retained(ops)) - MaxRetained
        newer(o) == Cardinality({p \in EndedOps(ops) : ops[p].finished > ops[o].finished})
    IN  [o \in OperationId |->
            IF o \in EndedOps(ops) /\ newer(o) < excess THEN [ops[o] EXCEPT !.status = "evicted"] ELSE ops[o]]

\* compactLocked
Compact(ops) ==
    LET excess == Cardinality(Retained(ops)) - MaxRetained
        older(o) == Cardinality({p \in EndedOps(ops) : ops[p].finished < ops[o].finished})
    IN  [o \in OperationId |->
            IF o \in EndedOps(ops) /\ older(o) < excess THEN [ops[o] EXCEPT !.status = "evicted"] ELSE ops[o]]

\* startMutation, and operationStore.start, whose id may fail to be made.
StartMutation ==
    /\ page # "closed" /\ gate = 0
    /\ Receipts # OperationId
    /\ LET o == Min(OperationId \ Receipts) IN
         \/ /\ operations' = Compact([operations EXCEPT ![o].status = "running"])
            /\ working' = working \cup {o}
            /\ gate' = 1
         \/ UNCHANGED <<operations, working, gate>>
    /\ UNCHANGED <<returned, request, page>>

\* Mutant of WorkReturns: the gate is given back after the work, and a panic passes by.
WorkReturnsOrPanics(o) ==
    /\ page # "closed" /\ o \in working
    /\ working' = working \ {o} /\ returned' = returned \cup {o}
    /\ gate' \in {0, gate}
    /\ UNCHANGED <<operations, request, page>>

\* The deferred receive from the gate comes before the outcome is stored.
WorkReturns(o) ==
    /\ page # "closed" /\ o \in working
    /\ working' = working \ {o} /\ returned' = returned \cup {o}
    /\ gate' = 0
    /\ UNCHANGED <<operations, request, page>>

\* A panic of the work was turned into an error by runOperationWork.
StoreOutcome(o) ==
    /\ page # "closed" /\ o \in returned
    /\ returned' = returned \ {o}
    /\ \E outcome \in {"succeeded", "failed"} :
         operations' = [operations EXCEPT
            ![o] = [status |-> outcome, finished |-> 1 + Max({operations[p].finished : p \in OperationId})]]
    /\ UNCHANGED <<working, gate, request, page>>

\* A request that holds the gate while it is handled.
Handle(kind) ==
    /\ page # "closed" /\ gate = 0
    /\ gate' = 1 /\ request' = kind
    /\ page' = IF kind = "shutdown" THEN "closing" ELSE page
    /\ UNCHANGED <<operations, working, returned>>

Handled ==
    /\ page # "closed" /\ request # "none"
    /\ gate' = 0 /\ request' = "none"
    /\ UNCHANGED <<operations, working, returned, page>>

\* server.Shutdown returned, or the manager's context was cancelled; the process ends.
ClosePage ==
    /\ page # "closed"
    /\ page' = "closed"
    /\ UNCHANGED <<operations, working, returned, gate, request>>

DeskNext ==
    \/ StartMutation
    \/ \E o \in OperationId : WorkReturns(o) \/ StoreOutcome(o)
    \/ \E kind \in {"plan", "shutdown"} : Handle(kind)
    \/ Handled \/ ClosePage

DeskSpec == DeskInit /\ [][DeskNext]_deskVars

-----------------------------------------------------------------------------
DeskTypeOK ==
    /\ operations \in [OperationId -> [status : {"unknown", "running", "succeeded", "failed", "evicted"},
                                     finished : 0 .. Cardinality(OperationId)]]
    /\ working \subseteq OperationId /\ returned \subseteq OperationId
    /\ gate \in {0, 1}
    /\ request \in {"none", "plan", "shutdown"} /\ page \in {"open", "closing", "closed"}

\* Whoever got a receipt can read the outcome until as many operations as the store keeps
\* have ended after it or still run; and the page is locked exactly while a worker or a
\* request is at work, so that no operation leaves it locked for good.
OperationsAnswered ==
    /\ \A o \in OperationId : operations[o].status = "evicted" =>
          Cardinality({p \in Retained(operations) :
              p \notin EndedOps(operations) \/ operations[p].finished > operations[o].finished}) >= MaxRetained
    /\ gate = Cardinality(working) + (IF request = "none" THEN 0 ELSE 1)
=============================================================================
