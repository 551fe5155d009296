------------------------------ MODULE ChildPool ------------------------------
(***************************************************************************)
(* The managed MCP child runtime of internal/mcp: ManagedChildRuntime      *)
(* (runtime.go) in front of PooledChildClient (child_pool.go), which keeps *)
(* one persistent child process per server configuration, and the request  *)
(* gate of childSession (child_session.go).                                *)
(*                                                                         *)
(* A call of ListTools or CallTool is one member of Call.  A call creates  *)
(* at most one pooledWorker, so the worker it creates is named after it.   *)
(* Every critical section of PooledChildClient.mu is one action; what a    *)
(* call does outside the lock (starting a child, using it, closing it) is  *)
(* an action of its own, so the sections of different calls, of the idle   *)
(* timers and of Close interleave as goroutines do.                        *)
(***************************************************************************)
EXTENDS Naturals, FiniteSets

CONSTANTS
    Call,          \* calls of the runtime
    Key,           \* digests of server configurations (serverKey)
    None,          \* no worker, no key, no call
    ChildrenRead   \* does every child keep reading its standard input?

ASSUME PoolAssumption ==
    /\ None \notin Call /\ None \notin Key
    /\ ChildrenRead \in BOOLEAN
    /\ IsFiniteSet(Call)

VARIABLES
    \* the runtime and its pool
    closer,     \* where ManagedChildRuntime.Close is
    closing,    \* the workers PooledChildClient.Close has still to close
    workers,    \* p.workers: the current worker of each key
    \* the workers, by the call that created them
    session,    \* worker.session: none, open on a live or a terminated child, closed
    ready,      \* worker.ready: an open channel, a closed channel, nil
    startErr,   \* worker.startErr # nil
    cancelled,  \* worker.startCancel was called
    active,     \* worker.active
    generation, \* worker.generation
    timer,      \* the generation the armed idle timer carries; 0 when none is armed
    fired,      \* timers that fired and wait for the lock, as <<worker, generation>>
    expiring,   \* workers an expire call has removed and not closed yet
    gate,       \* who holds the request gate of the worker's session
    \* the calls
    pc, key, use, ctx, result

poolVars == <<closer, closing, workers>>
workerVars == <<session, ready, startErr, cancelled, active, generation>>
timerVars == <<timer, fired, expiring>>
callVars == <<pc, key, use, ctx, result>>
vars == <<poolVars, workerVars, timerVars, gate, callVars>>

PC == {"new", "lookup", "starting", "waiting", "entering", "queued", "writing",
       "reading", "releasing", "disposing", "done"}

\* Outcomes of a call; "notStarted" is errRequestNotStarted, "failed" any other
\* error of the request, "closed" is ErrChildRuntimeClosed.
Result == {"none", "ok", "notStarted", "failed", "startFailed", "gaveUp", "closed"}

\* Between the section that counts the call in and the one that counts it out.
Using(c) == pc[c] \in {"queued", "writing", "reading", "releasing"}

\* p.closed.
PoolClosed == closer \in {"closing", "closed"}

\* Mutant of Done: only Close ends a wait, the deadline of the call does not.
DoneOnClose(c) == closer # "open"

\* The call's context is done: its deadline passed, its parent was cancelled, or
\* Close cancelled the root context.
Done(c) == ctx[c] = "done" \/ closer # "open"

Current(w) == \E k \in Key : workers[k] = w

TypeOK ==
    /\ closer \in {"open", "cancelled", "closing", "closed"}
    /\ closing \in SUBSET Call
    /\ workers \in [Key -> Call \cup {None}]
    /\ session \in [Call -> {"none", "live", "killed", "closed"}]
    /\ ready \in [Call -> {"open", "closed", "nil"}]
    /\ startErr \in [Call -> BOOLEAN]
    /\ cancelled \in [Call -> BOOLEAN]
    /\ active \in [Call -> Nat]
    /\ generation \in [Call -> Nat]
    /\ timer \in [Call -> Nat]
    /\ fired \in SUBSET (Call \X Nat)
    /\ expiring \in SUBSET Call
    /\ gate \in [Call -> Call \cup {None}]
    /\ pc \in [Call -> PC]
    /\ key \in [Call -> Key \cup {None}]
    /\ use \in [Call -> Call \cup {None}]
    /\ ctx \in [Call -> {"live", "done"}]
    /\ result \in [Call -> Result]

Init ==
    /\ closer = "open"
    /\ closing = {}
    /\ workers = [k \in Key |-> None]
    /\ session = [w \in Call |-> "none"]
    /\ ready = [w \in Call |-> "open"]
    /\ startErr = [w \in Call |-> FALSE]
    /\ cancelled = [w \in Call |-> FALSE]
    /\ active = [w \in Call |-> 0]
    /\ generation = [w \in Call |-> 0]
    /\ timer = [w \in Call |-> 0]
    /\ fired = {}
    /\ expiring = {}
    /\ gate = [w \in Call |-> None]
    /\ pc = [c \in Call |-> "new"]
    /\ key = [c \in Call |-> None]
    /\ use = [c \in Call |-> None]
    /\ ctx = [c \in Call |-> "live"]
    /\ result = [c \in Call |-> "none"]

Goto(c, label) == pc' = [pc EXCEPT ![c] = label]

Return(c, r) ==
    /\ pc' = [pc EXCEPT ![c] = "done"]
    /\ result' = [result EXCEPT ![c] = r]

-----------------------------------------------------------------------------
(* ManagedChildRuntime.operationContext *)

Begin(c) ==
    /\ pc[c] = "new"
    /\ \E k \in Key : key' = [key EXCEPT ![c] = k]
    /\ IF closer = "open" THEN Goto(c, "lookup") /\ UNCHANGED result
                          ELSE Return(c, "closed")
    /\ UNCHANGED <<poolVars, workerVars, timerVars, gate, use, ctx>>

\* The deadline of the call passes, or its caller cancels it.
Expires(c) ==
    /\ pc[c] \notin {"new", "done"}
    /\ ctx[c] = "live"
    /\ ctx' = [ctx EXCEPT ![c] = "done"]
    /\ UNCHANGED <<poolVars, workerVars, timerVars, gate, pc, key, use, result>>

-----------------------------------------------------------------------------
(* PooledChildClient.acquireWorker *)

\* First section: the pool is closed.
LookupClosed(c) ==
    /\ pc[c] = "lookup"
    /\ PoolClosed
    /\ Return(c, "closed")
    /\ UNCHANGED <<poolVars, workerVars, timerVars, gate, key, use, ctx>>

\* First section: no worker for the key, so this call publishes one and starts
\* its child outside the lock.
LookupCreates(c) ==
    /\ pc[c] = "lookup"
    /\ ~PoolClosed
    /\ workers[key[c]] = None
    /\ workers' = [workers EXCEPT ![key[c]] = c]
    /\ use' = [use EXCEPT ![c] = c]
    /\ Goto(c, "starting")
    /\ UNCHANGED <<closer, closing, workerVars, timerVars, gate, key, ctx, result>>

\* First section: a worker is there, ready or still starting.
LookupFinds(c) ==
    /\ pc[c] = "lookup"
    /\ ~PoolClosed
    /\ workers[key[c]] # None
    /\ use' = [use EXCEPT ![c] = workers[key[c]]]
    /\ Goto(c, IF ready[workers[key[c]]] = "nil" THEN "entering" ELSE "waiting")
    /\ UNCHANGED <<poolVars, workerVars, timerVars, gate, key, ctx, result>>

\* The ready channel is closed on every path; the mutant misses the error path.
ReadyIfStarted(c, started) == IF started THEN [ready EXCEPT ![c] = "closed"] ELSE ready
ReadyAfterStart(c, started) == [ready EXCEPT ![c] = "closed"]

\* Base.start returned and the second section publishes what it returned.  A
\* session of a pool closed meanwhile is closed by the starter.
Publish(c, started) ==
    LET usable == started /\ ~PoolClosed /\ workers[key[c]] = c
    IN /\ pc[c] = "starting"
       /\ session' = [session EXCEPT ![c] = IF started THEN "live" ELSE "none"]
       /\ startErr' = [startErr EXCEPT ![c] = ~started \/ PoolClosed]
       /\ ready' = ReadyAfterStart(c, started)
       /\ workers' = IF workers[key[c]] = c /\ (~started \/ PoolClosed)
                     THEN [workers EXCEPT ![key[c]] = None]
                     ELSE workers
       /\ \/ /\ usable
             /\ Goto(c, "entering")
             /\ UNCHANGED result
          \/ /\ ~usable /\ started
             /\ Goto(c, "disposing")
             /\ result' = [result EXCEPT ![c] = "closed"]
          \/ /\ ~started
             /\ Return(c, IF PoolClosed THEN "closed" ELSE "startFailed")
       /\ UNCHANGED <<closer, closing, cancelled, active, generation, timerVars,
                      gate, key, use, ctx>>

\* A waiter sees the ready channel closed.
WaitReady(c) ==
    /\ pc[c] = "waiting"
    /\ ready[use[c]] # "open"
    /\ IF startErr[use[c]] THEN Return(c, "startFailed")
                           ELSE Goto(c, "entering") /\ UNCHANGED result
    /\ UNCHANGED <<poolVars, workerVars, timerVars, gate, key, use, ctx>>

\* A waiter whose own context is done gives up.
WaitGivesUp(c) ==
    /\ pc[c] = "waiting"
    /\ Done(c)
    /\ Return(c, "gaveUp")
    /\ UNCHANGED <<poolVars, workerVars, timerVars, gate, key, use, ctx>>

\* Third section: the worker is still the current one, and the call is counted in.
Enter(c) ==
    LET w == use[c]
    IN /\ pc[c] = "entering"
       /\ ~PoolClosed /\ workers[key[c]] = w /\ session[w] # "none"
       /\ timer' = [timer EXCEPT ![w] = 0]
       /\ ready' = [ready EXCEPT ![w] = "nil"]
       /\ generation' = [generation EXCEPT ![w] = @ + 1]
       /\ active' = [active EXCEPT ![w] = @ + 1]
       /\ Goto(c, "queued")
       /\ UNCHANGED <<poolVars, session, startErr, cancelled, fired, expiring, gate,
                      key, use, ctx, result>>

\* Third section: the worker was removed between the sections.
EnterRefused(c) ==
    /\ pc[c] = "entering"
    /\ PoolClosed \/ workers[key[c]] # use[c] \/ session[use[c]] = "none"
    /\ Return(c, "closed")
    /\ UNCHANGED <<poolVars, workerVars, timerVars, gate, key, use, ctx>>

-----------------------------------------------------------------------------
(* childSession.requestRaw *)

Outcome(c, r) ==
    /\ Goto(c, "releasing")
    /\ result' = [result EXCEPT ![c] = r]

TakeGate(c) ==
    /\ pc[c] = "queued"
    /\ gate[use[c]] = None
    /\ gate' = [gate EXCEPT ![use[c]] = c]
    /\ Goto(c, "writing")
    /\ UNCHANGED <<poolVars, workerVars, timerVars, key, use, ctx, result>>

\* errRequestNotStarted: the context was done before the gate was free.
GateGivesUp(c) ==
    /\ pc[c] = "queued"
    /\ Done(c)
    /\ Outcome(c, "notStarted")
    /\ UNCHANGED <<poolVars, workerVars, timerVars, gate, key, use, ctx>>

\* The request line is written to the child's standard input.
Write(c) ==
    /\ pc[c] = "writing"
    /\ session[use[c]] = "live"
    /\ Goto(c, "reading")
    /\ UNCHANGED <<poolVars, workerVars, timerVars, gate, key, use, ctx, result>>

\* The session was closed, the child is gone, or the message is too long.
WriteFails(c) ==
    /\ pc[c] = "writing"
    /\ Outcome(c, "failed")
    /\ gate' = [gate EXCEPT ![use[c]] = None]
    /\ UNCHANGED <<poolVars, workerVars, timerVars, key, use, ctx>>

\* The response arrives: a result, or a JSON-RPC error, a malformed line or EOF.
Reply(c, r) ==
    /\ pc[c] = "reading"
    /\ r = "ok" => session[use[c]] = "live"
    /\ Outcome(c, r)
    /\ gate' = [gate EXCEPT ![use[c]] = None]
    /\ UNCHANGED <<poolVars, workerVars, timerVars, key, use, ctx>>

\* The context is done first: the child process is terminated.
ReadGivesUp(c) ==
    /\ pc[c] = "reading"
    /\ Done(c)
    /\ Outcome(c, "failed")
    /\ gate' = [gate EXCEPT ![use[c]] = None]
    /\ session' = [session EXCEPT ![use[c]] = IF @ = "live" THEN "killed" ELSE @]
    /\ UNCHANGED <<poolVars, ready, startErr, cancelled, active, generation, timerVars,
                   key, use, ctx>>

-----------------------------------------------------------------------------
(* PooledChildClient.withSession, after the operation *)

\* An error of a request that was sent makes the session unusable.  Mutant: so
\* does a request that was never sent.
InvalidUnlessOk(c) == result[c] \in {"failed", "notStarted"}
Invalid(c) == result[c] = "failed"

\* worker.active without this call.
CountOut(c) == [active EXCEPT ![use[c]] = @ - 1]

IsCurrent(c) == workers[key[c]] = use[c]
LastOut(c) == active[use[c]] = 1

\* The last user closes a session that is unusable or no longer pooled.  Mutant:
\* it forgets that another call may have evicted the worker.
ClosesInvalid(c) == LastOut(c) /\ Invalid(c)
ClosesSession(c) == LastOut(c) /\ (Invalid(c) \/ ~IsCurrent(c))

\* The last user of a pooled session arms its idle timer.  Mutant: never.
ArmsNothing(c) == FALSE
ArmsTimer(c) == LastOut(c) /\ IsCurrent(c) /\ ~Invalid(c)

\* The section that counts the call out.
Release(c) ==
    /\ pc[c] = "releasing"
    /\ active' = CountOut(c)
    /\ workers' = IF Invalid(c) /\ IsCurrent(c) THEN [workers EXCEPT ![key[c]] = None]
                                               ELSE workers
    /\ Goto(c, IF ClosesSession(c) THEN "disposing" ELSE "done")
    /\ timer' = IF ArmsTimer(c) THEN [timer EXCEPT ![use[c]] = generation[use[c]]]
                                ELSE timer
    /\ UNCHANGED <<closer, closing, session, ready, startErr, cancelled, generation,
                   fired, expiring, gate, key, use, ctx, result>>

\* Mutant of Dispose: the call is counted out a second time.
DisposeCountsOut(c) ==
    /\ pc[c] = "disposing"
    /\ session' = [session EXCEPT ![use[c]] = "closed"]
    /\ active' = [active EXCEPT ![use[c]] = @ - 1]
    /\ Goto(c, "done")
    /\ UNCHANGED <<poolVars, ready, startErr, cancelled, generation, timerVars,
                   gate, key, use, ctx, result>>

\* session.Close outside the lock; closing twice is harmless.
Dispose(c) ==
    /\ pc[c] = "disposing"
    /\ session' = [session EXCEPT ![use[c]] = "closed"]
    /\ Goto(c, "done")
    /\ UNCHANGED <<poolVars, ready, startErr, cancelled, active, generation, timerVars,
                   gate, key, use, ctx, result>>

-----------------------------------------------------------------------------
(* PooledChildClient.expire *)

TimerFires(w) ==
    /\ timer[w] # 0
    /\ fired' = fired \cup {<<w, timer[w]>>}
    /\ timer' = [timer EXCEPT ![w] = 0]
    /\ UNCHANGED <<poolVars, workerVars, expiring, gate, callVars>>

\* A timer that fired late finds another generation, or users.  Mutant: it looks
\* only at the worker.
StillPooled(w, g) == workers[key[w]] = w
StillIdle(w, g) == workers[key[w]] = w /\ generation[w] = g /\ active[w] = 0

Expire(w, g) ==
    /\ <<w, g>> \in fired
    /\ fired' = fired \ {<<w, g>>}
    /\ IF StillIdle(w, g)
       THEN /\ workers' = [workers EXCEPT ![key[w]] = None]
            /\ expiring' = expiring \cup {w}
       ELSE UNCHANGED <<workers, expiring>>
    /\ UNCHANGED <<closer, closing, workerVars, timer, gate, callVars>>

CloseExpired(w) ==
    /\ w \in expiring
    /\ expiring' = expiring \ {w}
    /\ session' = [session EXCEPT ![w] = "closed"]
    /\ UNCHANGED <<poolVars, ready, startErr, cancelled, active, generation, timer,
                   fired, gate, callVars>>

-----------------------------------------------------------------------------
(* ManagedChildRuntime.Close and PooledChildClient.Close *)

\* r.closed is set and the root context is cancelled.
CloseRuntime ==
    /\ closer = "open"
    /\ closer' = "cancelled"
    /\ UNCHANGED <<closing, workers, workerVars, timerVars, gate, callVars>>

\* The pool is closed: its workers are taken out, timers stopped, starts cancelled.
ClosePool ==
    LET taken == {w \in Call : Current(w)}
    IN /\ closer = "cancelled"
       /\ closer' = "closing"
       /\ closing' = taken
       /\ workers' = [k \in Key |-> None]
       /\ timer' = [w \in Call |-> IF w \in taken THEN 0 ELSE timer[w]]
       /\ cancelled' = [w \in Call |-> cancelled[w] \/ (w \in taken /\ pc[w] = "starting")]
       /\ UNCHANGED <<session, ready, startErr, active, generation, fired, expiring,
                      gate, callVars>>

\* Each taken worker: wait for its ready channel, then close its session.
CloseWorker(w) ==
    /\ closer = "closing"
    /\ w \in closing
    /\ ready[w] # "open"
    /\ closing' = closing \ {w}
    /\ session' = [session EXCEPT ![w] = IF @ = "none" THEN "none" ELSE "closed"]
    /\ UNCHANGED <<closer, workers, ready, startErr, cancelled, active, generation,
                   timerVars, gate, callVars>>

CloseReturns ==
    /\ closer = "closing"
    /\ closing = {}
    /\ closer' = "closed"
    /\ UNCHANGED <<closing, workers, workerVars, timerVars, gate, callVars>>

-----------------------------------------------------------------------------
CallStep(c) ==
    \/ LookupClosed(c) \/ LookupCreates(c) \/ LookupFinds(c)
    \/ WaitReady(c) \/ WaitGivesUp(c)
    \/ Enter(c) \/ EnterRefused(c)
    \/ TakeGate(c) \/ GateGivesUp(c) \/ ReadGivesUp(c)
    \/ Release(c) \/ Dispose(c)

\* What the child answers, and when, is up to the child.
ChildStep(c) ==
    \/ \E started \in BOOLEAN : Publish(c, started)
    \/ Write(c) \/ WriteFails(c)
    \/ \E r \in {"ok", "failed"} : Reply(c, r)

TimerStep(w) ==
    \/ TimerFires(w)
    \/ \E g \in 1 .. Cardinality(Call) : Expire(w, g)
    \/ CloseExpired(w)

CloseStep ==
    \/ ClosePool \/ CloseReturns
    \/ \E w \in Call : CloseWorker(w)

Next ==
    \/ \E c \in Call : Begin(c) \/ Expires(c) \/ CallStep(c) \/ ChildStep(c)
    \/ \E w \in Call : TimerStep(w)
    \/ CloseRuntime \/ CloseStep

(***************************************************************************)
(* Goroutines that can run do run, and every context has a deadline.  A    *)
(* start ends once its context is done or cancelled; a read ends with the  *)
(* session; nothing but the child, or a closed session, ends a blocked     *)
(* write.                                                                  *)
(***************************************************************************)
StartEnds(c) == (Done(c) \/ cancelled[c]) /\ \E started \in BOOLEAN : Publish(c, started)
SessionGone(c) ==
    /\ use[c] # None /\ session[use[c]] \in {"killed", "closed"}
    /\ WriteFails(c) \/ Reply(c, "failed")
WriteEnds(c) == ChildrenRead /\ (Write(c) \/ WriteFails(c))

Fairness ==
    /\ \A c \in Call :
         /\ WF_vars(CallStep(c)) /\ WF_vars(Expires(c))
         /\ WF_vars(StartEnds(c)) /\ WF_vars(SessionGone(c)) /\ WF_vars(WriteEnds(c))
         /\ WF_vars(TimerStep(c))
    /\ WF_vars(CloseStep)

Spec == Init /\ [][Next]_vars /\ Fairness

-----------------------------------------------------------------------------
(* Properties *)

\* Someone will close the worker's session: it is still pooled, a call uses it
\* or is about to close it, an expire call or Close has it in hand.  A pooled
\* session that no call uses has an idle timer that will expire it.
Tracked(w) ==
    \/ Current(w) /\ (ready[w] = "nil" /\ active[w] = 0
                        => timer[w] = generation[w] \/ <<w, generation[w]>> \in fired)
    \/ \E c \in Call : use[c] = w /\ (Using(c) \/ pc[c] = "disposing")
    \/ w \in expiring
    \/ w \in closing

\* No child process is ever left running with nobody to close it, in particular
\* none outlives Close and the calls under way (the second launch-readiness
\* finding, "MCP shutdown left a child process alive").
NoOrphan == \A w \in Call : session[w] \in {"live", "killed"} => Tracked(w)

\* The pool never closes a session under a call that uses it, unless the whole
\* pool is being closed.
NoCloseUnderUse ==
    \A c \in Call : Using(c) /\ session[use[c]] = "closed" => PoolClosed

\* A session with a live child is given up only because the pool is closed, because
\* its worker was taken out idle, or because a request that was sent on it failed.
\* Calls that time out in the queue, or leave in whatever order, never cost the
\* others their child (TestPersistentWaiterTimeoutDoesNotCloseActiveSession).
SessionLostForCause ==
    [][\A w \in Call : session[w] = "live" /\ session'[w] # "live" =>
         \/ PoolClosed
         \/ w \in expiring /\ active[w] = 0
         \/ \E c \in Call : use[c] = w /\ result'[c] = "failed"]_vars

\* Every call returns, however the child behaves, since every context has a
\* deadline (TestConfiguredTimeoutBoundsWholeToolsListOperation).
CallReturns == \A c \in Call : pc[c] # "new" ~> pc[c] = "done"

\* ManagedChildRuntime.Close returns, even while children are being started, and
\* no child process stays.
CloseTerminates ==
    closer = "cancelled" ~> closer = "closed" /\ \A w \in Call : session[w] # "live"

\* An idle child is stopped or used again.
IdleReclaimed ==
    \A w \in Call : session[w] = "live" /\ active[w] = 0
                      ~> session[w] = "closed" \/ active[w] > 0
=============================================================================
