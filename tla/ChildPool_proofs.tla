--------------------------- MODULE ChildPool_proofs --------------------------
(***************************************************************************)
(* Proofs about the pool of MCP children, for any finite set of calls and  *)
(* any server configurations: the use counts are right, no child is left   *)
(* with nobody to stop it, and none is closed under a call.                *)
(***************************************************************************)
EXTENDS ChildPool, FiniteSetTheorems, TLAPS

\* The calls that use a worker's session now; its use count is their number.
Users(w) == {c \in Call : use[c] = w /\ Using(c)}
Counted == \A w \in Call : active[w] = Cardinality(Users(w))

\* A worker is pooled under the key of the call that created it, and a call uses
\* a worker of its own key.
Pooled == \A k \in Key : workers[k] # None => key[workers[k]] = k /\ use[workers[k]] = workers[k]
Keyed == \A c \in Call :
    /\ pc[c] # "new" => key[c] \in Key
    /\ use[c] # None => key[use[c]] = key[c] /\ use[use[c]] = use[c]
    /\ pc[c] \in {"new", "lookup"} => use[c] = None
    /\ pc[c] \notin {"new", "lookup", "done"} => use[c] \in Call
    /\ pc[c] = "starting" => use[c] = c

\* A session that was started belongs to a worker; only such a session is entered,
\* used, closed or taken out by a timer.
Started == \A w \in Call :
    /\ session[w] # "none" => use[w] = w /\ pc[w] # "starting"
    /\ generation[w] # 0 \/ w \in expiring => session[w] # "none"
    /\ Using(w) \/ pc[w] = "disposing" => session[use[w]] # "none"

\* A session that is closed, or about to be, is out of the pool and unused.
Retiring(w) ==
    \/ session[w] = "closed" \/ w \in expiring
    \/ \E c \in Call : pc[c] = "disposing" /\ use[c] = w
Retired == \A w \in Call : Retiring(w) => PoolClosed \/ (~Current(w) /\ Users(w) = {})

\* Nothing is taken out for Close before the pool is closed.
Unclosed == closer \in {"open", "cancelled"} => closing = {}

PoolInv ==
    /\ TypeOK
    /\ Counted
    /\ Pooled /\ Keyed
    /\ Started
    /\ Retired
    /\ Unclosed
    /\ NoOrphan

-----------------------------------------------------------------------------
(* Who changes what.                                                        *)

Publishes(c) == \E started \in BOOLEAN : Publish(c, started)
TimesOut(w) == \E g \in 1 .. Cardinality(Call) : Expire(w, g)

LEMMA PoolFrames ==
  ASSUME Next
  PROVE  /\ workers' = workers \/ ClosePool
              \/ \E c \in Call : LookupCreates(c) \/ Publishes(c) \/ Release(c) \/ TimesOut(c)
         /\ closer' = closer \/ CloseRuntime \/ ClosePool \/ CloseReturns
         /\ closing' = closing \/ ClosePool \/ \E w \in Call : CloseWorker(w)
<1>1. workers' = workers \/ ClosePool
         \/ \E c \in Call : LookupCreates(c) \/ Publishes(c) \/ Release(c) \/ TimesOut(c)
  BY DEF Publishes, TimesOut, Next, poolVars, workerVars, timerVars, callVars, Begin, Expires, CallStep, LookupClosed, LookupCreates, LookupFinds, WaitReady, WaitGivesUp, Enter,
            EnterRefused, TakeGate, GateGivesUp, ReadGivesUp, Release, Dispose, ChildStep, Publish, Write,
            WriteFails, Reply, TimerStep, TimerFires, Expire, CloseExpired, CloseRuntime, CloseStep, ClosePool,
            CloseWorker, CloseReturns
<1>2. closer' = closer \/ CloseRuntime \/ ClosePool \/ CloseReturns
  BY DEF Next, poolVars, workerVars, timerVars, callVars, Begin, Expires, CallStep, LookupClosed, LookupCreates, LookupFinds, WaitReady, WaitGivesUp, Enter,
            EnterRefused, TakeGate, GateGivesUp, ReadGivesUp, Release, Dispose, ChildStep, Publish, Write,
            WriteFails, Reply, TimerStep, TimerFires, Expire, CloseExpired, CloseRuntime, CloseStep, ClosePool,
            CloseWorker, CloseReturns
<1>3. closing' = closing \/ ClosePool \/ \E w \in Call : CloseWorker(w)
  BY DEF Next, poolVars, workerVars, timerVars, callVars, Begin, Expires, CallStep, LookupClosed, LookupCreates, LookupFinds, WaitReady, WaitGivesUp, Enter,
            EnterRefused, TakeGate, GateGivesUp, ReadGivesUp, Release, Dispose, ChildStep, Publish, Write,
            WriteFails, Reply, TimerStep, TimerFires, Expire, CloseExpired, CloseRuntime, CloseStep, ClosePool,
            CloseWorker, CloseReturns
<1> QED BY <1>1, <1>2, <1>3

\* Once the pool is closed it stays closed.
LEMMA PoolStaysOpen ==
  ASSUME Next, ~PoolClosed'
  PROVE  ~PoolClosed /\ ~ClosePool
BY PoolFrames DEF PoolClosed, CloseRuntime, ClosePool, CloseReturns

LEMMA WorkerFrames ==
  ASSUME Next
  PROVE  /\ generation' = generation \/ \E c \in Call : Enter(c)
         /\ active' = active \/ \E c \in Call : Enter(c) \/ Release(c)
         /\ ready' = ready \/ \E c \in Call : Enter(c) \/ Publishes(c)
         /\ timer' = timer \/ ClosePool \/ \E c \in Call : Enter(c) \/ Release(c) \/ TimerFires(c)
         /\ fired' = fired \/ \E w \in Call : TimerFires(w) \/ TimesOut(w)
         /\ expiring' = expiring \/ \E w \in Call : CloseExpired(w) \/ TimesOut(w)
<1>1. generation' = generation \/ \E c \in Call : Enter(c)
  BY DEF Next, poolVars, workerVars, timerVars, callVars, Begin, Expires, CallStep, LookupClosed, LookupCreates, LookupFinds, WaitReady, WaitGivesUp, Enter,
            EnterRefused, TakeGate, GateGivesUp, ReadGivesUp, Release, Dispose, ChildStep, Publish, Write,
            WriteFails, Reply, TimerStep, TimerFires, Expire, CloseExpired, CloseRuntime, CloseStep, ClosePool,
            CloseWorker, CloseReturns
<1>2. active' = active \/ \E c \in Call : Enter(c) \/ Release(c)
  BY DEF Next, poolVars, workerVars, timerVars, callVars, Begin, Expires, CallStep, LookupClosed, LookupCreates, LookupFinds, WaitReady, WaitGivesUp, Enter,
            EnterRefused, TakeGate, GateGivesUp, ReadGivesUp, Release, Dispose, ChildStep, Publish, Write,
            WriteFails, Reply, TimerStep, TimerFires, Expire, CloseExpired, CloseRuntime, CloseStep, ClosePool,
            CloseWorker, CloseReturns
<1>3. ready' = ready \/ \E c \in Call : Enter(c) \/ Publishes(c)
  BY DEF Publishes, Next, poolVars, workerVars, timerVars, callVars, Begin, Expires, CallStep, LookupClosed, LookupCreates, LookupFinds, WaitReady, WaitGivesUp, Enter,
            EnterRefused, TakeGate, GateGivesUp, ReadGivesUp, Release, Dispose, ChildStep, Publish, Write,
            WriteFails, Reply, TimerStep, TimerFires, Expire, CloseExpired, CloseRuntime, CloseStep, ClosePool,
            CloseWorker, CloseReturns
<1>4. timer' = timer \/ ClosePool \/ \E c \in Call : Enter(c) \/ Release(c) \/ TimerFires(c)
  BY DEF Next, poolVars, workerVars, timerVars, callVars, Begin, Expires, CallStep, LookupClosed, LookupCreates, LookupFinds, WaitReady, WaitGivesUp, Enter,
            EnterRefused, TakeGate, GateGivesUp, ReadGivesUp, Release, Dispose, ChildStep, Publish, Write,
            WriteFails, Reply, TimerStep, TimerFires, Expire, CloseExpired, CloseRuntime, CloseStep, ClosePool,
            CloseWorker, CloseReturns
<1>5. fired' = fired \/ \E w \in Call : TimerFires(w) \/ TimesOut(w)
  BY DEF TimesOut, Next, poolVars, workerVars, timerVars, callVars, Begin, Expires, CallStep, LookupClosed, LookupCreates, LookupFinds, WaitReady, WaitGivesUp, Enter,
            EnterRefused, TakeGate, GateGivesUp, ReadGivesUp, Release, Dispose, ChildStep, Publish, Write,
            WriteFails, Reply, TimerStep, TimerFires, Expire, CloseExpired, CloseRuntime, CloseStep, ClosePool,
            CloseWorker, CloseReturns
<1>6. expiring' = expiring \/ \E w \in Call : CloseExpired(w) \/ TimesOut(w)
  BY DEF TimesOut, Next, poolVars, workerVars, timerVars, callVars, Begin, Expires, CallStep, LookupClosed, LookupCreates, LookupFinds, WaitReady, WaitGivesUp, Enter,
            EnterRefused, TakeGate, GateGivesUp, ReadGivesUp, Release, Dispose, ChildStep, Publish, Write,
            WriteFails, Reply, TimerStep, TimerFires, Expire, CloseExpired, CloseRuntime, CloseStep, ClosePool,
            CloseWorker, CloseReturns
<1> QED BY <1>1, <1>2, <1>3, <1>4, <1>5, <1>6

\* What a step does to where a call is.
LEMMA PlaceChange ==
  ASSUME TypeOK, Next, NEW c \in Call
  PROVE  \/ pc'[c] = pc[c]
         \/ Begin(c) /\ pc'[c] \in {"lookup", "done"}
         \/ pc[c] \in {"lookup", "waiting", "entering"} /\ pc'[c] = "done" /\ use' = use
         \/ LookupCreates(c) /\ pc'[c] = "starting"
         \/ LookupFinds(c) /\ pc'[c] \in {"waiting", "entering"}
         \/ pc[c] = "waiting" /\ pc'[c] = "entering"
         \/ Publishes(c) /\ pc'[c] \in {"entering", "disposing", "done"}
         \/ Enter(c) /\ pc'[c] = "queued"
         \/ pc[c] \in {"queued", "writing", "reading"} /\ pc'[c] \in {"writing", "reading", "releasing"}
         \/ Release(c) /\ pc'[c] = (IF ClosesSession(c) THEN "disposing" ELSE "done")
         \/ Dispose(c) /\ pc'[c] = "done"
<1> DEFINE Change ==
         \/ pc'[c] = pc[c]
         \/ Begin(c) /\ pc'[c] \in {"lookup", "done"}
         \/ pc[c] \in {"lookup", "waiting", "entering"} /\ pc'[c] = "done" /\ use' = use
         \/ LookupCreates(c) /\ pc'[c] = "starting"
         \/ LookupFinds(c) /\ pc'[c] \in {"waiting", "entering"}
         \/ pc[c] = "waiting" /\ pc'[c] = "entering"
         \/ Publishes(c) /\ pc'[c] \in {"entering", "disposing", "done"}
         \/ Enter(c) /\ pc'[c] = "queued"
         \/ pc[c] \in {"queued", "writing", "reading"} /\ pc'[c] \in {"writing", "reading", "releasing"}
         \/ Release(c) /\ pc'[c] = (IF ClosesSession(c) THEN "disposing" ELSE "done")
         \/ Dispose(c) /\ pc'[c] = "done"
<1>0. DOMAIN pc = Call
  BY DEF TypeOK
<1>1. ASSUME NEW d \in Call, Begin(d)
      PROVE  pc'[c] = pc[c] \/ (d = c /\ pc'[c] \in {"lookup", "done"})
  BY <1>0, <1>1 DEF Begin, Goto, Return
<1>2. ASSUME NEW d \in Call, LookupClosed(d) \/ WaitGivesUp(d) \/ EnterRefused(d)
      PROVE  Change
  BY <1>0, <1>2 DEF LookupClosed, WaitGivesUp, EnterRefused, Return
<1>3. ASSUME NEW d \in Call, LookupCreates(d)
      PROVE  pc'[c] = pc[c] \/ (d = c /\ pc'[c] = "starting")
  BY <1>0, <1>3 DEF LookupCreates, Goto
<1>4. ASSUME NEW d \in Call, LookupFinds(d)
      PROVE  pc'[c] = pc[c] \/ (d = c /\ pc'[c] \in {"waiting", "entering"})
  BY <1>0, <1>4 DEF LookupFinds, Goto
<1>5. ASSUME NEW d \in Call, WaitReady(d)
      PROVE  Change
  BY <1>0, <1>5 DEF WaitReady, Goto, Return
<1>6. ASSUME NEW d \in Call, Publishes(d)
      PROVE  pc'[c] = pc[c] \/ (d = c /\ pc'[c] \in {"entering", "disposing", "done"})
  BY <1>0, <1>6 DEF Publishes, Publish, Goto, Return
<1>7. ASSUME NEW d \in Call, Enter(d)
      PROVE  pc'[c] = pc[c] \/ (d = c /\ pc'[c] = "queued")
  BY <1>0, <1>7 DEF Enter, Goto
<1>8. ASSUME NEW d \in Call, TakeGate(d) \/ GateGivesUp(d) \/ Write(d) \/ WriteFails(d) \/ ReadGivesUp(d)
                                \/ \E r \in {"ok", "failed"} : Reply(d, r)
      PROVE  Change
  BY <1>0, <1>8 DEF TakeGate, GateGivesUp, Write, WriteFails, ReadGivesUp, Reply, Outcome, Goto
<1>9. ASSUME NEW d \in Call, Release(d)
      PROVE  pc'[c] = pc[c] \/ (d = c /\ pc'[c] = (IF ClosesSession(c) THEN "disposing" ELSE "done"))
  BY <1>0, <1>9 DEF Release, Goto
<1>10. ASSUME NEW d \in Call, Dispose(d)
       PROVE  pc'[c] = pc[c] \/ (d = c /\ pc'[c] = "done")
  BY <1>0, <1>10 DEF Dispose, Goto
<1>11. \/ pc' = pc
       \/ \E d \in Call : \/ Begin(d) \/ LookupClosed(d) \/ WaitGivesUp(d) \/ EnterRefused(d)
                          \/ LookupCreates(d) \/ LookupFinds(d) \/ WaitReady(d) \/ Publishes(d) \/ Enter(d)
                          \/ TakeGate(d) \/ GateGivesUp(d) \/ Write(d) \/ WriteFails(d) \/ ReadGivesUp(d)
                          \/ (\E r \in {"ok", "failed"} : Reply(d, r)) \/ Release(d) \/ Dispose(d)
  BY DEF Publishes, Next, CallStep, ChildStep, TimerStep, CloseStep, Expires, TimerFires, Expire, CloseExpired,
         CloseRuntime, ClosePool, CloseReturns, CloseWorker, callVars
<1> QED BY <1>1, <1>2, <1>3, <1>4, <1>5, <1>6, <1>7, <1>8, <1>9, <1>10, <1>11

\* A key and a worker are chosen once.
LEMMA Choices ==
  ASSUME TypeOK, Keyed, Next, NEW c \in Call
  PROVE  /\ key'[c] = key[c] \/ (Begin(c) /\ pc[c] = "new")
         /\ \/ use'[c] = use[c]
            \/ LookupCreates(c) /\ pc[c] = "lookup" /\ use'[c] = c /\ workers'[key[c]] = c
            \/ LookupFinds(c) /\ pc[c] = "lookup" /\ use'[c] = workers[key[c]] /\ use'[c] \in Call
         /\ pc'[c] = pc[c] \/ pc[c] # "done"
<1>1. key' = key \/ \E d \in Call : Begin(d)
  BY DEF Next, poolVars, workerVars, timerVars, callVars, Begin, Expires, CallStep, LookupClosed, LookupCreates, LookupFinds, WaitReady, WaitGivesUp, Enter,
            EnterRefused, TakeGate, GateGivesUp, ReadGivesUp, Release, Dispose, ChildStep, Publish, Write,
            WriteFails, Reply, TimerStep, TimerFires, Expire, CloseExpired, CloseRuntime, CloseStep, ClosePool,
            CloseWorker, CloseReturns
<1>2. key'[c] = key[c] \/ (Begin(c) /\ pc[c] = "new")
  BY <1>1 DEF Begin, TypeOK
<1>3. use' = use \/ \E d \in Call : LookupCreates(d) \/ LookupFinds(d)
  BY DEF Next, poolVars, workerVars, timerVars, callVars, Begin, Expires, CallStep, LookupClosed, LookupCreates, LookupFinds, WaitReady, WaitGivesUp, Enter,
            EnterRefused, TakeGate, GateGivesUp, ReadGivesUp, Release, Dispose, ChildStep, Publish, Write,
            WriteFails, Reply, TimerStep, TimerFires, Expire, CloseExpired, CloseRuntime, CloseStep, ClosePool,
            CloseWorker, CloseReturns
<1>4. ASSUME NEW d \in Call, LookupCreates(d)
      PROVE  use'[c] = use[c] \/ (d = c /\ pc[c] = "lookup" /\ use'[c] = c /\ workers'[key[c]] = c)
  BY <1>4 DEF LookupCreates, TypeOK, Keyed
<1>5. ASSUME NEW d \in Call, LookupFinds(d)
      PROVE  use'[c] = use[c] \/ (d = c /\ pc[c] = "lookup" /\ use'[c] = workers[key[c]] /\ use'[c] \in Call)
  BY <1>5 DEF LookupFinds, TypeOK, Keyed
<1>6. pc'[c] = pc[c] \/ pc[c] # "done"
  BY PlaceChange DEF Begin, LookupCreates, LookupFinds, Publishes, Publish, Enter, Release, Dispose
<1> QED BY <1>2, <1>3, <1>4, <1>5, <1>6

\* Where a worker enters the pool.
LEMMA PoolChange ==
  ASSUME TypeOK, Keyed, Next, NEW k \in Key, workers'[k] # None
  PROVE  \/ workers'[k] = workers[k]
         \/ \E c \in Call : LookupCreates(c) /\ key[c] = k /\ workers'[k] = c
<1>1. ASSUME NEW c \in Call, LookupCreates(c)
      PROVE  workers'[k] = workers[k] \/ (key[c] = k /\ workers'[k] = c)
  BY <1>1 DEF LookupCreates, TypeOK
<1>2. ASSUME NEW c \in Call, Publishes(c) \/ Release(c) \/ TimesOut(c)
      PROVE  workers'[k] = workers[k]
  BY <1>2 DEF Publishes, Publish, Release, TimesOut, Expire, TypeOK
<1>3. ~ClosePool
  BY DEF ClosePool
<1> QED BY <1>1, <1>2, <1>3, PoolFrames

-----------------------------------------------------------------------------
(* Users and use counts.                                                    *)

LEMMA UserCounts ==
  ASSUME TypeOK, Counted, NEW w \in Call
  PROVE  /\ IsFiniteSet(Users(w))
         /\ active[w] = 0 <=> Users(w) = {}
         /\ \A c \in Users(w) : active[w] > 0 /\ (active[w] = 1 <=> Users(w) = {c})
<1>1. IsFiniteSet(Call) /\ Users(w) \in SUBSET Call
  BY PoolAssumption DEF Users
<1>2. IsFiniteSet(Users(w))
  BY <1>1, FS_Subset
<1>3. active[w] = Cardinality(Users(w)) /\ active[w] \in Nat
  BY DEF Counted, TypeOK
<1>4. Cardinality(Users(w)) = 0 <=> Users(w) = {}
  BY <1>2, FS_EmptySet
<1>5. Cardinality(Users(w)) = 1 <=> \E x : Users(w) = {x}
  BY <1>2, FS_Singleton
<1> QED BY <1>2, <1>3, <1>4, <1>5

\* Only entering and releasing change who uses a worker.
LEMMA UsersChange ==
  ASSUME TypeOK, Keyed, Next
  PROVE  \/ \E c \in Call :
              /\ Enter(c) /\ c \notin Users(use[c])
              /\ \A w \in Call : Users(w)' = IF w = use[c] THEN Users(w) \cup {c} ELSE Users(w)
         \/ \E c \in Call :
              /\ Release(c) /\ c \in Users(use[c])
              /\ \A w \in Call : Users(w)' = IF w = use[c] THEN Users(w) \ {c} ELSE Users(w)
         \/ active' = active /\ \A w \in Call : Users(w)' = Users(w)
<1>1. ASSUME NEW c \in Call, Enter(c)
      PROVE  /\ c \notin Users(use[c])
             /\ \A w \in Call : Users(w)' = IF w = use[c] THEN Users(w) \cup {c} ELSE Users(w)
  BY <1>1 DEF Enter, Users, Using, Goto, TypeOK
<1>2. ASSUME NEW c \in Call, Release(c)
      PROVE  /\ c \in Users(use[c])
             /\ \A w \in Call : Users(w)' = IF w = use[c] THEN Users(w) \ {c} ELSE Users(w)
  BY <1>2 DEF Release, Users, Using, Goto, TypeOK
<1>3. ASSUME \A c \in Call : ~Enter(c) /\ ~Release(c)
      PROVE  active' = active /\ \A w \in Call : Users(w)' = Users(w)
  <2>1. active' = active
    BY <1>3 DEF Next, poolVars, workerVars, timerVars, callVars, Begin, Expires, CallStep, LookupClosed, LookupCreates, LookupFinds, WaitReady, WaitGivesUp, Enter,
            EnterRefused, TakeGate, GateGivesUp, ReadGivesUp, Release, Dispose, ChildStep, Publish, Write,
            WriteFails, Reply, TimerStep, TimerFires, Expire, CloseExpired, CloseRuntime, CloseStep, ClosePool,
            CloseWorker, CloseReturns
  <2>2. ASSUME NEW d \in Call
        PROVE  (Using(d)' <=> Using(d)) /\ (Using(d) => use'[d] = use[d])
    <3>1. Using(d)' <=> Using(d)
      BY <1>3, PlaceChange DEF Using, Begin, LookupCreates, LookupFinds, Publishes, Publish, Dispose
    <3>2. Using(d) => use'[d] = use[d]
      BY Choices DEF Using, LookupCreates, LookupFinds
    <3> QED BY <3>1, <3>2
  <2> QED BY <2>1, <2>2 DEF Users
<1> QED BY <1>1, <1>2, <1>3

LEMMA CountedStep ==
  ASSUME TypeOK, Counted, Keyed, Next
  PROVE  Counted'
<1>1. ASSUME NEW c \in Call, Enter(c), c \notin Users(use[c]),
             \A w \in Call : Users(w)' = IF w = use[c] THEN Users(w) \cup {c} ELSE Users(w)
      PROVE  Counted'
  <2>1. ASSUME NEW w \in Call
        PROVE  active'[w] = Cardinality(Users(w)')
    <3>1. Cardinality(Users(w) \cup {c}) = IF c \in Users(w) THEN Cardinality(Users(w)) ELSE Cardinality(Users(w)) + 1
      BY UserCounts, FS_AddElement
    <3>2. active'[w] = IF w = use[c] THEN active[w] + 1 ELSE active[w]
      BY <1>1 DEF Enter, TypeOK
    <3> QED BY <1>1, <3>1, <3>2 DEF Counted
  <2> QED BY <2>1 DEF Counted
<1>2. ASSUME NEW c \in Call, Release(c), c \in Users(use[c]),
             \A w \in Call : Users(w)' = IF w = use[c] THEN Users(w) \ {c} ELSE Users(w)
      PROVE  Counted'
  <2>1. ASSUME NEW w \in Call
        PROVE  active'[w] = Cardinality(Users(w)')
    <3>1. Cardinality(Users(w) \ {c}) = IF c \in Users(w) THEN Cardinality(Users(w)) - 1 ELSE Cardinality(Users(w))
      BY UserCounts, FS_RemoveElement
    <3>2. active'[w] = IF w = use[c] THEN active[w] - 1 ELSE active[w]
      BY <1>2 DEF Release, CountOut, TypeOK
    <3> QED BY <1>2, <3>1, <3>2 DEF Counted
  <2> QED BY <2>1 DEF Counted
<1>3. ASSUME active' = active, \A w \in Call : Users(w)' = Users(w)
      PROVE  Counted'
  BY <1>3 DEF Counted
<1> QED BY <1>1, <1>2, <1>3, UsersChange

-----------------------------------------------------------------------------
(* Types, keys and sessions.                                                *)

LEMMA TypeInit == Init => TypeOK
  BY DEF Init, TypeOK, PC, Result

LEMMA TypeStep ==
  ASSUME TypeOK, Counted, Keyed, Next
  PROVE  TypeOK'
<1> USE DEF TypeOK, Goto, Return, Outcome, PC, Result
<1>1. ASSUME NEW c \in Call, Begin(c) \/ Expires(c)
      PROVE  TypeOK'
  BY <1>1 DEF Begin, Expires, poolVars, workerVars, timerVars, callVars
<1>2. ASSUME NEW c \in Call, LookupClosed(c) \/ LookupCreates(c) \/ LookupFinds(c)
      PROVE  TypeOK'
  <2>1. pc[c] = "lookup" => key[c] \in Key
    BY DEF Keyed
  <2> QED BY <1>2, <2>1 DEF LookupClosed, LookupCreates, LookupFinds, poolVars, workerVars, timerVars, callVars
<1>3. ASSUME NEW c \in Call, WaitReady(c) \/ WaitGivesUp(c) \/ EnterRefused(c)
      PROVE  TypeOK'
  BY <1>3 DEF WaitReady, WaitGivesUp, EnterRefused, poolVars, workerVars, timerVars, callVars
<1>4. ASSUME NEW c \in Call, Enter(c)
      PROVE  TypeOK'
  <2>1. use[c] \in Call
    BY <1>4 DEF Enter, Keyed
  <2> QED BY <1>4, <2>1 DEF Enter, poolVars, workerVars, timerVars, callVars
<1>5. ASSUME NEW c \in Call, TakeGate(c) \/ GateGivesUp(c) \/ ReadGivesUp(c)
      PROVE  TypeOK'
  BY <1>5 DEF TakeGate, GateGivesUp, ReadGivesUp, poolVars, workerVars, timerVars, callVars
<1>6. ASSUME NEW c \in Call, Release(c)
      PROVE  TypeOK'
  <2>1. use[c] \in Call /\ c \in Users(use[c])
    BY <1>6 DEF Release, Keyed, Users, Using
  <2>2. active[use[c]] - 1 \in Nat
    BY <2>1, UserCounts
  <2>3. active' \in [Call -> Nat]
    BY <1>6, <2>1, <2>2 DEF Release, CountOut
  <2> QED BY <1>6, <2>1, <2>3 DEF Release, poolVars, workerVars, timerVars, callVars
<1>7. ASSUME NEW c \in Call, Dispose(c) \/ Write(c) \/ WriteFails(c) \/ \E r \in {"ok", "failed"} : Reply(c, r)
      PROVE  TypeOK'
  BY <1>7 DEF Dispose, Write, WriteFails, Reply, poolVars, workerVars, timerVars, callVars
<1>8. ASSUME NEW c \in Call, NEW started \in BOOLEAN, Publish(c, started)
      PROVE  TypeOK'
  BY <1>8 DEF Publish, ReadyAfterStart, PoolClosed, poolVars, workerVars, timerVars, callVars
<1>9. ASSUME NEW w \in Call, TimerFires(w) \/ CloseExpired(w) \/ TimesOut(w)
      PROVE  TypeOK'
  <2>1. CASE TimerFires(w)
    <3>1. <<w, timer[w]>> \in Call \X Nat
      BY DEF TypeOK
    <3>2. fired' \in SUBSET (Call \X Nat)
      BY <2>1, <3>1 DEF TimerFires
    <3> QED BY <2>1, <3>2 DEF TimerFires, poolVars, workerVars, timerVars, callVars
  <2>2. CASE CloseExpired(w)
    BY <2>2 DEF CloseExpired, poolVars, workerVars, timerVars, callVars
  <2>3. CASE TimesOut(w)
    <3>1. PICK g \in 1 .. Cardinality(Call) : Expire(w, g)
      BY <2>3 DEF TimesOut
    <3>2. fired' \in SUBSET (Call \X Nat)
      BY <3>1 DEF Expire
    <3>3. workers' \in [Key -> Call \cup {None}] /\ expiring' \in SUBSET Call
      BY <3>1 DEF Expire
    <3> QED BY <3>1, <3>2, <3>3 DEF Expire, poolVars, workerVars, timerVars, callVars
  <2> QED BY <1>9, <2>1, <2>2, <2>3
<1>10. ASSUME CloseRuntime \/ ClosePool \/ CloseReturns
       PROVE  TypeOK'
  <2>1. CASE CloseRuntime
    BY <2>1 DEF CloseRuntime, poolVars, workerVars, timerVars, callVars
  <2>2. CASE CloseReturns
    BY <2>2 DEF CloseReturns, poolVars, workerVars, timerVars, callVars
  <2>3. CASE ClosePool
    <3>1. timer' \in [Call -> Nat] /\ workers' \in [Key -> Call \cup {None}]
      BY <2>3 DEF ClosePool
    <3>2. cancelled' \in [Call -> BOOLEAN] /\ closing' \in SUBSET Call
      BY <2>3 DEF ClosePool
    <3> QED BY <2>3, <3>1, <3>2 DEF ClosePool, poolVars, workerVars, timerVars, callVars
  <2> QED BY <1>10, <2>1, <2>2, <2>3
<1>11. ASSUME NEW w \in Call, CloseWorker(w)
       PROVE  TypeOK'
  BY <1>11 DEF CloseWorker, poolVars, workerVars, timerVars, callVars
<1> QED BY <1>1, <1>2, <1>3, <1>4, <1>5, <1>6, <1>7, <1>8, <1>9, <1>10, <1>11
         DEF Next, CallStep, ChildStep, TimerStep, TimesOut, CloseStep

LEMMA KeyedStep ==
  ASSUME TypeOK, Pooled, Keyed, Next
  PROVE  Keyed' /\ Pooled'
<1>1. ASSUME NEW c \in Call
      PROVE  /\ pc'[c] # "new" => key'[c] \in Key
             /\ pc'[c] \in {"new", "lookup"} => use'[c] = None
             /\ pc'[c] \notin {"new", "lookup", "done"} => use'[c] \in Call
             /\ pc'[c] = "starting" => use'[c] = c
  <2>1. pc'[c] # "new" => key'[c] \in Key
    BY PlaceChange, Choices DEF Keyed, Begin, TypeOK, LookupCreates, LookupFinds, Publishes, Publish, Enter, Release, Dispose
  <2>2. pc'[c] \in {"new", "lookup"} => use'[c] = None
    BY PlaceChange, Choices DEF Keyed, Begin, LookupCreates, LookupFinds, Goto, TypeOK
  <2>3. pc'[c] \notin {"new", "lookup", "done"} => use'[c] \in Call
    <3>1. CASE LookupCreates(c)
      BY <3>1 DEF LookupCreates, TypeOK
    <3>2. CASE LookupFinds(c)
      <4>1. pc[c] = "lookup" /\ key[c] \in Key /\ workers[key[c]] # None /\ use' = [use EXCEPT ![c] = workers[key[c]]]
        BY <3>2 DEF LookupFinds, Keyed
      <4> QED BY <4>1 DEF TypeOK
    <3>3. CASE pc[c] \notin {"new", "lookup", "done"}
      BY <3>3, Choices DEF Keyed
    <3> QED BY <3>1, <3>2, <3>3, PlaceChange DEF Begin, Publishes, Publish, Enter, Release, Dispose
  <2>4. pc'[c] = "starting" => use'[c] = c
    <3>1. CASE LookupCreates(c)
      BY <3>1 DEF LookupCreates, TypeOK
    <3>2. CASE pc[c] = "starting"
      BY <3>2, Choices DEF Keyed
    <3> QED BY <3>1, <3>2, PlaceChange
  <2> QED BY <2>1, <2>2, <2>3, <2>4
<1>2. ASSUME NEW c \in Call, use'[c] # None
      PROVE  key'[use'[c]] = key'[c] /\ use'[use'[c]] = use'[c]
  <2>1. CASE use'[c] = use[c]
    <3>1. use[c] \in Call /\ pc[c] # "new" /\ key[use[c]] = key[c] /\ use[use[c]] = use[c]
      BY <1>2, <2>1 DEF Keyed, TypeOK
    <3>2. pc[use[c]] \notin {"new", "lookup"}
      BY <3>1, PoolAssumption DEF Keyed
    <3> QED BY <2>1, <3>1, <3>2, Choices
  <2>2. CASE use'[c] = c
    BY <2>2
  <2>3. CASE LookupFinds(c) /\ use'[c] = workers[key[c]] /\ use'[c] \in Call
    <3>1. pc[c] = "lookup" /\ key[c] \in Key /\ workers[key[c]] # None
      BY <2>3 DEF LookupFinds, Keyed
    <3>2. key[use'[c]] = key[c] /\ use[use'[c]] = use'[c]
      BY <2>3, <3>1 DEF Pooled
    <3>3. pc[use'[c]] \notin {"new", "lookup"}
      <4>1. PICK v \in Call : v = use'[c] /\ use[v] = v
        BY <2>3, <3>2
      <4> QED BY <4>1, PoolAssumption DEF Keyed
    <3> QED BY <2>3, <3>1, <3>2, <3>3, Choices
  <2> QED BY <2>1, <2>2, <2>3, Choices
<1>3. ASSUME NEW k \in Key, workers'[k] # None
      PROVE  key'[workers'[k]] = k /\ use'[workers'[k]] = workers'[k]
  <2>1. CASE workers'[k] = workers[k]
    <3>1. workers[k] \in Call /\ key[workers[k]] = k /\ use[workers[k]] = workers[k]
      BY <1>3, <2>1 DEF Pooled, TypeOK
    <3>2. pc[workers[k]] \notin {"new", "lookup"}
      BY <3>1, PoolAssumption DEF Keyed
    <3> QED BY <2>1, <3>1, <3>2, Choices
  <2>2. ASSUME NEW c \in Call, LookupCreates(c), key[c] = k, workers'[k] = c
        PROVE  key'[workers'[k]] = k /\ use'[workers'[k]] = workers'[k]
    BY <2>2 DEF LookupCreates, TypeOK
  <2> QED BY <1>3, <2>1, <2>2, PoolChange
<1> QED BY <1>1, <1>2, <1>3 DEF Keyed, Pooled

\* What becomes of a session.
LEMMA SessionChange ==
  ASSUME TypeOK, Keyed, Next, NEW w \in Call
  PROVE  \/ session'[w] = session[w]
         \/ /\ pc[w] = "starting"
            /\ \E started \in BOOLEAN : Publish(w, started) /\ session'[w] = (IF started THEN "live" ELSE "none")
         \/ session[w] # "none" /\ session'[w] = "closed" /\ closer = "closing"
         \/ w \in expiring /\ session'[w] = "closed"
         \/ \E c \in Call : Dispose(c) /\ use[c] = w /\ session'[w] = "closed"
         \/ \E c \in Call : ReadGivesUp(c) /\ use[c] = w /\ session[w] = "live" /\ session'[w] = "killed"
<1>1. ASSUME NEW c \in Call, NEW started \in BOOLEAN, Publish(c, started)
      PROVE  \/ w = c /\ pc[c] = "starting" /\ session'[c] = (IF started THEN "live" ELSE "none")
             \/ session'[w] = session[w]
  BY <1>1 DEF Publish, TypeOK
<1>2. ASSUME NEW c \in Call, ReadGivesUp(c)
      PROVE  (use[c] = w /\ session[w] = "live" /\ session'[w] = "killed") \/ session'[w] = session[w]
  BY <1>2 DEF ReadGivesUp, TypeOK
<1>3. ASSUME NEW c \in Call, Dispose(c)
      PROVE  (use[c] = w /\ session'[w] = "closed") \/ session'[w] = session[w]
  BY <1>3 DEF Dispose, TypeOK
<1>4. ASSUME NEW v \in Call, CloseExpired(v)
      PROVE  (w \in expiring /\ session'[w] = "closed") \/ session'[w] = session[w]
  BY <1>4 DEF CloseExpired, TypeOK
<1>5. ASSUME NEW v \in Call, CloseWorker(v)
      PROVE  (session[w] # "none" /\ session'[w] = "closed" /\ closer = "closing") \/ session'[w] = session[w]
  BY <1>5 DEF CloseWorker, TypeOK
<1>6. CASE session' = session
  BY <1>6
<1>7. \/ session' = session
      \/ \E c \in Call : ReadGivesUp(c) \/ Dispose(c) \/ \E started \in BOOLEAN : Publish(c, started)
      \/ \E v \in Call : CloseExpired(v) \/ CloseWorker(v)
  BY DEF Next, poolVars, workerVars, timerVars, callVars, Begin, Expires, CallStep, LookupClosed, LookupCreates, LookupFinds, WaitReady, WaitGivesUp, Enter,
            EnterRefused, TakeGate, GateGivesUp, ReadGivesUp, Release, Dispose, ChildStep, Publish, Write,
            WriteFails, Reply, TimerStep, TimerFires, Expire, CloseExpired, CloseRuntime, CloseStep, ClosePool,
            CloseWorker, CloseReturns
<1> QED BY <1>1, <1>2, <1>3, <1>4, <1>5, <1>6, <1>7

LEMMA StartedStep ==
  ASSUME TypeOK, Pooled, Keyed, Started, Next
  PROVE  Started'
<1>1. ASSUME NEW w \in Call, session'[w] # "none"
      PROVE  use'[w] = w /\ pc'[w] # "starting"
  <2>1. CASE pc[w] = "starting" /\ \E started \in BOOLEAN : Publish(w, started)
    BY <2>1 DEF Publish, Goto, Return, Keyed, TypeOK
  <2>2. CASE session[w] # "none"
    <3>1. use[w] = w /\ pc[w] \notin {"new", "lookup", "starting"}
      BY <2>2, PoolAssumption DEF Started, Keyed
    <3>2. use'[w] = w
      BY <3>1, Choices
    <3>3. pc'[w] = "starting" => pc[w] \in {"starting", "lookup"}
      BY PlaceChange DEF LookupCreates
    <3> QED BY <3>1, <3>2, <3>3
  <2>3. session[w] # "none" \/ (pc[w] = "starting" /\ \E started \in BOOLEAN : Publish(w, started))
    <3>1. ASSUME NEW c \in Call, Dispose(c), use[c] = w
          PROVE  session[w] # "none"
      BY <3>1 DEF Dispose, Started
    <3>2. w \in expiring => session[w] # "none"
      BY DEF Started
    <3> QED BY <1>1, <3>1, <3>2, SessionChange
  <2> QED BY <2>1, <2>2, <2>3
<1>2. ASSUME NEW w \in Call, session[w] # "none"
      PROVE  session'[w] # "none"
  BY <1>2, SessionChange DEF Started
<1>3. ASSUME NEW w \in Call, generation'[w] # 0 \/ w \in expiring'
      PROVE  session'[w] # "none"
  <2>1. CASE \E c \in Call : Enter(c) /\ w = use[c]
    BY <1>2, <2>1 DEF Enter
  <2>2. CASE \E g \in 1 .. Cardinality(Call) : Expire(w, g) /\ StillIdle(w, g)
    <3>1. PICK g \in 1 .. Cardinality(Call) : Expire(w, g) /\ generation[w] = g
      BY <2>2 DEF StillIdle
    <3>2. generation[w] # 0
      BY <3>1
    <3> QED BY <1>2, <3>2 DEF Started
  <2>3. generation'[w] = generation[w] \/ \E c \in Call : Enter(c) /\ w = use[c]
    BY WorkerFrames DEF Enter, TypeOK
  <2>4. w \in expiring' => w \in expiring \/ \E g \in 1 .. Cardinality(Call) : Expire(w, g) /\ StillIdle(w, g)
    BY WorkerFrames DEF TimesOut, Expire, CloseExpired
  <2>5. CASE generation[w] # 0 \/ w \in expiring
    BY <1>2, <2>5 DEF Started
  <2> QED BY <1>3, <2>1, <2>2, <2>3, <2>4, <2>5
<1>4. ASSUME NEW c \in Call, Using(c)' \/ pc'[c] = "disposing"
      PROVE  session'[use'[c]] # "none"
  <2>1. CASE Enter(c)
    <3>1. use[c] \in Call /\ session[use[c]] # "none" /\ use' = use
      BY <2>1 DEF Enter, Keyed
    <3> QED BY <1>2, <3>1
  <2>2. CASE \E started \in BOOLEAN : Publish(c, started)
    <3>1. pc[c] = "starting" /\ use[c] = c /\ use' = use
      BY <2>2 DEF Publish, Keyed
    <3>2. session'[c] = "live"
      BY <1>4, <2>2 DEF Publish, Goto, Return, Using, TypeOK
    <3> QED BY <3>1, <3>2
  <2>3. CASE Using(c) \/ pc[c] = "disposing"
    <3>1. use[c] \in Call /\ session[use[c]] # "none" /\ use'[c] = use[c]
      BY <2>3, Choices DEF Started, Keyed, Using
    <3> QED BY <1>2, <3>1
  <2>4. Using(c) \/ pc[c] = "disposing" \/ Enter(c) \/ \E started \in BOOLEAN : Publish(c, started)
    BY <1>4, PlaceChange DEF Using, Publishes, Release
  <2> QED BY <2>1, <2>2, <2>3, <2>4
<1> QED BY <1>1, <1>2, <1>3, <1>4 DEF Started

-----------------------------------------------------------------------------
(* What is out of the pool stays out, and what runs has somebody.           *)

\* A worker that is not new never returns to the pool.
LEMMA StaysOut ==
  ASSUME TypeOK, Pooled, Keyed, Next, NEW w \in Call, use[w] = w, ~Current(w)
  PROVE  ~Current(w)'
<1> SUFFICES ASSUME NEW k \in Key, workers'[k] = w
             PROVE  FALSE
  BY DEF Current
<1>1. w # None /\ workers[k] # w
  BY PoolAssumption DEF Current
<1>2. PICK c \in Call : LookupCreates(c) /\ workers'[k] = c
  BY <1>1, PoolChange
<1>3. pc[w] = "lookup"
  BY <1>2 DEF LookupCreates
<1> QED BY <1>1, <1>3 DEF Keyed

\* A worker is current exactly when it is the worker of its own key.
LEMMA CurrentKey ==
  ASSUME TypeOK, Pooled, Keyed, NEW c \in Call, use[c] \in Call
  PROVE  /\ key[c] \in Key
         /\ Current(use[c]) <=> workers[key[c]] = use[c]
<1>1. use[c] # None
  BY PoolAssumption
<1>2. key[c] \in Key /\ key[use[c]] = key[c]
  BY <1>1 DEF Keyed
<1>3. \A k \in Key : workers[k] = use[c] => k = key[c]
  BY <1>1, <1>2 DEF Pooled
<1> QED BY <1>2, <1>3 DEF Current

\* What begins to retire is unused and not in the pool, or the pool is closed.
LEMMA RetiredStep ==
  ASSUME TypeOK, Counted, Pooled, Keyed, Started, Retired, Next
  PROVE  Retired'
<1> SUFFICES ASSUME NEW w \in Call, Retiring(w)', ~PoolClosed'
             PROVE  ~Current(w)' /\ Users(w)' = {}
  BY DEF Retired
<1>1. ~PoolClosed
  BY PoolStaysOpen
<1>2. CASE Retiring(w)
  <2>1. ~Current(w) /\ Users(w) = {}
    BY <1>1, <1>2 DEF Retired
  <2>2. use[w] = w
    <3>1. ASSUME NEW c \in Call, pc[c] = "disposing", use[c] = w
          PROVE  use[w] = w
      BY <3>1 DEF Started
    <3>2. session[w] = "closed" \/ w \in expiring => use[w] = w
      BY DEF Started
    <3> QED BY <1>2, <3>1, <3>2 DEF Retiring
  <2>3. ~Current(w)'
    BY <2>1, <2>2, StaysOut
  <2>4. ASSUME NEW c \in Call, Enter(c)
        PROVE  w # use[c]
    BY <2>1, <2>4 DEF Enter, Current, Keyed
  <2>5. Users(w)' = {}
    BY <2>1, <2>4, UsersChange
  <2> QED BY <2>3, <2>5
<1>3. ASSUME NEW g \in 1 .. Cardinality(Call), Expire(w, g), StillIdle(w, g)
      PROVE  ~Current(w)' /\ Users(w)' = {}
  <2>1. workers[key[w]] = w /\ active[w] = 0 /\ w # None
    BY <1>3, PoolAssumption DEF StillIdle
  <2>2. \A k \in Key : workers[k] = w => k = key[w]
    BY <2>1 DEF Pooled
  <2>3. workers' = [workers EXCEPT ![key[w]] = None]
    BY <1>3 DEF Expire
  <2>4. ~Current(w)'
    BY <2>1, <2>2, <2>3 DEF Current, TypeOK
  <2>5. Users(w) = {}
    BY <2>1, UserCounts
  <2>6. use' = use /\ pc' = pc
    BY <1>3 DEF Expire, callVars
  <2> QED BY <2>4, <2>5, <2>6 DEF Users, Using
<1>4. ASSUME NEW c \in Call, Release(c), ClosesSession(c), use[c] = w
      PROVE  ~Current(w)' /\ Users(w)' = {}
  <2>1. c \in Users(w)
    BY <1>4 DEF Release, Users, Using
  <2>2. Users(w) = {c}
    BY <1>4, <2>1, UserCounts DEF ClosesSession, LastOut
  <2>3. Users(w)' = {}
    BY <1>4, <2>2 DEF Release, Users, Using, Goto, TypeOK
  <2>4. key[c] \in Key /\ (Current(w) <=> IsCurrent(c)) /\ use[w] = w /\ w # None
    BY <1>4, CurrentKey, PoolAssumption DEF IsCurrent, Keyed
  <2>5. CASE ~IsCurrent(c)
    BY <2>3, <2>4, <2>5, StaysOut
  <2>6. CASE IsCurrent(c)
    <3>1. workers' = [workers EXCEPT ![key[c]] = None]
      BY <1>4, <2>6 DEF Release, ClosesSession
    <3>2. \A k \in Key : workers[k] = w => k = key[c]
      BY <1>4, <2>4 DEF Pooled, Keyed
    <3>3. ~Current(w)'
      BY <2>4, <3>1, <3>2 DEF Current, TypeOK
    <3> QED BY <2>3, <3>3
  <2> QED BY <2>5, <2>6
<1>5. ASSUME NEW c \in Call, Publish(c, TRUE), pc'[c] = "disposing", use[c] = w
      PROVE  ~Current(w)' /\ Users(w)' = {}
  <2>1. pc[c] = "starting" /\ w = c /\ key[c] \in Key
    BY <1>5 DEF Publish, Keyed
  <2>2. workers[key[c]] # c
    BY <1>1, <1>5 DEF Publish, Goto, TypeOK
  <2>3. ~Current(w)'
    BY <1>5, <2>1, <2>2, CurrentKey, StaysOut
  <2>4. ASSUME NEW d \in Call, Using(d), use[d] = w
        PROVE  FALSE
    BY <2>1, <2>4 DEF Started
  <2>5. Users(w) = {}
    BY <2>4 DEF Users
  <2>6. ~\E d \in Call : Enter(d) /\ use[d] = w
    BY <1>5, <2>1 DEF Enter, Started
  <2> QED BY <2>3, <2>5, <2>6, UsersChange
<1>6. \/ Retiring(w)
      \/ \E g \in 1 .. Cardinality(Call) : Expire(w, g) /\ StillIdle(w, g)
      \/ \E c \in Call : Release(c) /\ ClosesSession(c) /\ use[c] = w
      \/ \E c \in Call : Publish(c, TRUE) /\ pc'[c] = "disposing" /\ use[c] = w
  <2>1. CASE session'[w] = "closed"
    <3>1. session[w] = "closed" \/ w \in expiring \/ \E c \in Call : Dispose(c) /\ use[c] = w
      BY <1>1, <2>1, SessionChange DEF PoolClosed
    <3> QED BY <3>1 DEF Retiring, Dispose
  <2>2. CASE w \in expiring'
    BY <2>2, WorkerFrames DEF Retiring, TimesOut, Expire, CloseExpired
  <2>3. ASSUME NEW c \in Call, pc'[c] = "disposing", use'[c] = w
        PROVE  \/ Retiring(w)
               \/ Release(c) /\ ClosesSession(c) /\ use[c] = w
               \/ Publish(c, TRUE) /\ use[c] = w
    <3>1. \/ pc[c] = "disposing" /\ use'[c] = use[c]
          \/ Release(c) /\ ClosesSession(c) /\ use'[c] = use[c]
          \/ Publish(c, TRUE) /\ use'[c] = use[c]
      <4>1. \/ pc[c] = "disposing"
            \/ Release(c) /\ ClosesSession(c)
            \/ Publishes(c)
        BY <2>3, PlaceChange
      <4>2. use'[c] = use[c]
        BY <4>1, Choices DEF Release, Publishes, Publish, LookupCreates, LookupFinds
      <4>3. ~Publish(c, FALSE)
        BY <2>3 DEF Publish, Goto, Return, TypeOK
      <4> QED BY <4>1, <4>2, <4>3 DEF Publishes
    <3> QED BY <2>3, <3>1 DEF Retiring
  <2> QED BY <2>1, <2>2, <2>3 DEF Retiring
<1> QED BY <1>2, <1>3, <1>4, <1>5, <1>6

\* A child that somebody is responsible for keeps somebody.
Held(w) == \E c \in Call : use[c] = w /\ (Using(c) \/ pc[c] = "disposing")

LEMMA HeldStays ==
  ASSUME TypeOK, Counted, Pooled, Keyed, Next, NEW w \in Call, Held(w), session'[w] # "closed"
  PROVE  Tracked(w)'
<1>1. PICK c \in Call : use[c] = w /\ (Using(c) \/ pc[c] = "disposing")
  BY DEF Held
<1>2. use'[c] = w
  BY <1>1, Choices DEF Using
<1>3. CASE (Using(c) \/ pc[c] = "disposing")'
  BY <1>2, <1>3 DEF Tracked
<1>4. CASE Dispose(c)
  BY <1>1, <1>4 DEF Dispose, TypeOK
<1>5. CASE Release(c) /\ ~ClosesSession(c)
  <2>1. c \in Users(w)
    BY <1>1, <1>5 DEF Release, Users, Using
  <2>2. CASE LastOut(c)
    <3>1. IsCurrent(c) /\ ~Invalid(c)
      BY <1>5, <2>2 DEF ClosesSession
    <3>2. workers' = workers /\ timer' = [timer EXCEPT ![w] = generation[w]] /\ generation' = generation
      BY <1>1, <1>5, <2>2, <3>1 DEF Release, ArmsTimer
    <3>3. Current(w)
      BY <1>1, <3>1, CurrentKey DEF IsCurrent
    <3>4. Current(w)' /\ timer'[w] = generation'[w]
      BY <3>2, <3>3 DEF Current, TypeOK
    <3> QED BY <3>4 DEF Tracked
  <2>3. CASE ~LastOut(c)
    <3>1. Users(w) # {c}
      BY <1>1, <2>1, <2>3, UserCounts DEF LastOut
    <3>2. PICK d \in Users(w) : d # c
      BY <2>1, <3>1
    <3>3. use'[d] = w /\ Using(d)' /\ d \in Call
      BY <1>5, <3>2 DEF Release, Users, Using, Goto, TypeOK
    <3> QED BY <3>3 DEF Tracked
  <2> QED BY <2>2, <2>3
<1>6. (Using(c) \/ pc[c] = "disposing")' \/ Dispose(c) \/ (Release(c) /\ ~ClosesSession(c))
  BY <1>1, PlaceChange DEF Using, Begin, LookupCreates, LookupFinds, Publishes, Publish, Enter
<1> QED BY <1>3, <1>4, <1>5, <1>6

LEMMA PooledStays ==
  ASSUME TypeOK, Counted, Pooled, Keyed, Started, Next,
         NEW w \in Call, session[w] # "none", ~Held(w), Current(w),
         ready[w] = "nil" /\ active[w] = 0 => timer[w] = generation[w] \/ <<w, generation[w]>> \in fired
  PROVE  Tracked(w)'
<1>1. w # None /\ use[w] = w /\ key[w] \in Key /\ workers[key[w]] = w /\ pc[w] \notin {"new", "lookup", "starting"}
  <2>1. w # None /\ use[w] = w /\ pc[w] # "starting"
    BY PoolAssumption DEF Started
  <2>2. workers[key[w]] = w /\ key[w] \in Key
    BY <2>1, CurrentKey
  <2> QED BY <2>1, <2>2 DEF Keyed
<1>2. CASE ClosePool
  BY <1>2 DEF ClosePool, Tracked
<1>3. ASSUME NEW c \in Call, Enter(c), use[c] = w
      PROVE  Tracked(w)'
  BY <1>3 DEF Enter, Goto, Using, Tracked, TypeOK
<1>4. ASSUME NEW g \in 1 .. Cardinality(Call), Expire(w, g)
      PROVE  Tracked(w)'
  <2>1. CASE StillIdle(w, g)
    BY <1>4, <2>1 DEF Expire, Tracked
  <2>2. CASE ~StillIdle(w, g)
    <3>1. workers' = workers /\ fired' = fired \ {<<w, g>>} /\ timer' = timer
          /\ ready' = ready /\ active' = active /\ generation' = generation
      BY <1>4, <2>2 DEF Expire, workerVars
    <3>2. active[w] = 0 => generation[w] # g
      BY <1>1, <2>2 DEF StillIdle
    <3> QED BY <3>1, <3>2 DEF Tracked, Current
  <2> QED BY <2>1, <2>2
<1>5. CASE TimerFires(w)
  <2>1. fired' = fired \cup {<<w, timer[w]>>} /\ workers' = workers
        /\ ready' = ready /\ active' = active /\ generation' = generation
    BY <1>5 DEF TimerFires, poolVars, workerVars
  <2> QED BY <2>1 DEF Tracked, Current
<1>6. CASE /\ ~ClosePool /\ ~TimerFires(w)
           /\ \A c \in Call : ~(Enter(c) /\ use[c] = w)
           /\ \A g \in 1 .. Cardinality(Call) : ~Expire(w, g)
  <2>1. workers'[key[w]] = w
    <3>1. ASSUME NEW c \in Call, Release(c)
          PROVE  workers'[key[w]] = w
      BY <1>1, <3>1 DEF Release, IsCurrent, Held, Using, TypeOK
    <3>2. ASSUME NEW c \in Call, NEW started \in BOOLEAN, Publish(c, started)
          PROVE  workers'[key[w]] = w
      BY <1>1, <3>2 DEF Publish, TypeOK
    <3>3. ASSUME NEW c \in Call, LookupCreates(c)
          PROVE  workers'[key[w]] = w
      BY <1>1, <3>3 DEF LookupCreates, TypeOK
    <3>4. ASSUME NEW v \in Call, NEW g \in 1 .. Cardinality(Call), Expire(v, g)
          PROVE  workers'[key[w]] = w
      BY <1>1, <1>6, <3>4 DEF Expire, StillIdle, TypeOK
    <3>5. \/ workers' = workers
          \/ \E c \in Call : Release(c) \/ LookupCreates(c) \/ \E started \in BOOLEAN : Publish(c, started)
          \/ \E v \in Call : \E g \in 1 .. Cardinality(Call) : Expire(v, g)
      BY <1>6 DEF Next, poolVars, workerVars, timerVars, callVars, Begin, Expires, CallStep, LookupClosed, LookupCreates, LookupFinds, WaitReady, WaitGivesUp, Enter,
            EnterRefused, TakeGate, GateGivesUp, ReadGivesUp, Release, Dispose, ChildStep, Publish, Write,
            WriteFails, Reply, TimerStep, TimerFires, Expire, CloseExpired, CloseRuntime, CloseStep, ClosePool,
            CloseWorker, CloseReturns
    <3> QED BY <1>1, <3>1, <3>2, <3>3, <3>4, <3>5
  <2>2. /\ generation'[w] = generation[w] /\ timer'[w] = timer[w]
        /\ <<w, generation[w]>> \in fired => <<w, generation[w]>> \in fired'
        /\ active'[w] = active[w]
        /\ ready'[w] = "nil" => ready[w] = "nil"
    <3>1. ASSUME NEW c \in Call, Release(c)
          PROVE  use[c] # w
      BY <3>1 DEF Release, Held, Using
    <3>2. generation'[w] = generation[w] /\ active'[w] = active[w] /\ (ready'[w] = "nil" => ready[w] = "nil")
      <4>1. generation'[w] = generation[w]
        BY <1>6, WorkerFrames DEF Enter, TypeOK
      <4>2. active'[w] = active[w]
        BY <1>6, <3>1, WorkerFrames DEF Enter, Release, CountOut, TypeOK
      <4>3. ready'[w] = "nil" => ready[w] = "nil"
        BY <1>6, WorkerFrames DEF Enter, Publishes, Publish, ReadyAfterStart, TypeOK
      <4> QED BY <4>1, <4>2, <4>3
    <3>3. timer'[w] = timer[w]
      BY <1>6, <3>1, WorkerFrames DEF Enter, Release, TimerFires, TypeOK
    <3>4. <<w, generation[w]>> \in fired => <<w, generation[w]>> \in fired'
      <4>1. ASSUME NEW v \in Call, NEW g \in 1 .. Cardinality(Call), Expire(v, g)
            PROVE  <<w, generation[w]>> \in fired => <<w, generation[w]>> \in fired'
        BY <1>6, <4>1 DEF Expire
      <4>2. \/ fired \subseteq fired'
            \/ \E v \in Call : \E g \in 1 .. Cardinality(Call) : Expire(v, g)
        BY DEF Next, poolVars, workerVars, timerVars, callVars, Begin, Expires, CallStep, LookupClosed, LookupCreates, LookupFinds, WaitReady, WaitGivesUp, Enter,
            EnterRefused, TakeGate, GateGivesUp, ReadGivesUp, Release, Dispose, ChildStep, Publish, Write,
            WriteFails, Reply, TimerStep, TimerFires, Expire, CloseExpired, CloseRuntime, CloseStep, ClosePool,
            CloseWorker, CloseReturns
      <4> QED BY <4>1, <4>2
    <3> QED BY <3>2, <3>3, <3>4
  <2> QED BY <1>1, <2>1, <2>2 DEF Tracked, Current
<1> QED BY <1>2, <1>3, <1>4, <1>5, <1>6

LEMMA NoOrphanStep ==
  ASSUME PoolInv, Next
  PROVE  NoOrphan'
<1> USE DEF PoolInv
<1> SUFFICES ASSUME NEW w \in Call, session'[w] \in {"live", "killed"}
             PROVE  Tracked(w)'
  BY DEF NoOrphan
<1>1. CASE pc[w] = "starting" /\ Publish(w, TRUE)
  <2>1. use'[w] = w /\ key[w] \in Key
    BY <1>1 DEF Publish, Keyed
  <2>2. CASE pc'[w] = "disposing"
    BY <2>1, <2>2 DEF Tracked
  <2>3. CASE workers'[key[w]] = w /\ ready'[w] # "nil"
    BY <2>1, <2>3 DEF Tracked, Current
  <2> QED BY <1>1, <2>1, <2>2, <2>3 DEF Publish, Goto, ReadyAfterStart, TypeOK
<1>2. CASE session[w] \in {"live", "killed"}
  <2>1. Tracked(w)
    BY <1>2 DEF NoOrphan
  <2>2. CASE Held(w)
    BY <2>2, HeldStays
  <2>3. CASE w \in expiring
    <3>1. ~CloseExpired(w)
      BY DEF CloseExpired, TypeOK
    <3>2. w \in expiring'
      BY <2>3, <3>1 DEF Next, poolVars, workerVars, timerVars, callVars, Begin, Expires, CallStep, LookupClosed, LookupCreates, LookupFinds, WaitReady, WaitGivesUp, Enter,
            EnterRefused, TakeGate, GateGivesUp, ReadGivesUp, Release, Dispose, ChildStep, Publish, Write,
            WriteFails, Reply, TimerStep, TimerFires, Expire, CloseExpired, CloseRuntime, CloseStep, ClosePool,
            CloseWorker, CloseReturns
    <3> QED BY <3>2 DEF Tracked
  <2>4. CASE w \in closing
    <3>1. ~CloseWorker(w)
      BY <1>2 DEF CloseWorker, TypeOK
    <3>2. ~ClosePool
      BY <2>4 DEF ClosePool, Unclosed
    <3>3. w \in closing'
      BY <2>4, <3>1, <3>2 DEF Next, poolVars, workerVars, timerVars, callVars, Begin, Expires, CallStep, LookupClosed, LookupCreates, LookupFinds, WaitReady, WaitGivesUp, Enter,
            EnterRefused, TakeGate, GateGivesUp, ReadGivesUp, Release, Dispose, ChildStep, Publish, Write,
            WriteFails, Reply, TimerStep, TimerFires, Expire, CloseExpired, CloseRuntime, CloseStep, ClosePool,
            CloseWorker, CloseReturns
    <3> QED BY <3>3 DEF Tracked
  <2>5. CASE ~Held(w) /\ w \notin expiring /\ w \notin closing
    <3>1. Current(w) /\ (ready[w] = "nil" /\ active[w] = 0 => timer[w] = generation[w] \/ <<w, generation[w]>> \in fired)
      BY <2>1, <2>5 DEF Tracked, Held
    <3> QED BY <1>2, <2>5, <3>1, PooledStays
  <2> QED BY <2>2, <2>3, <2>4, <2>5
<1>3. (pc[w] = "starting" /\ Publish(w, TRUE)) \/ session[w] \in {"live", "killed"}
  BY SessionChange
<1> QED BY <1>1, <1>2, <1>3

-----------------------------------------------------------------------------
LEMMA PoolInvInit == Init => PoolInv
<1> SUFFICES ASSUME Init
             PROVE  PoolInv
  OBVIOUS
<1>1. TypeOK
  BY TypeInit
<1>2. \A w \in Call : Users(w) = {}
  BY DEF Init, Users, Using
<1>3. Counted
  BY <1>2, FS_EmptySet DEF Init, Counted
<1>4. Pooled /\ Keyed /\ Started /\ Unclosed
  BY DEF Init, Pooled, Keyed, Started, Unclosed, Using
<1>5. Retired /\ NoOrphan
  BY DEF Init, Retired, Retiring, NoOrphan
<1> QED BY <1>1, <1>3, <1>4, <1>5 DEF PoolInv

LEMMA PoolInvStep == PoolInv /\ [Next]_vars => PoolInv'
<1>1. ASSUME PoolInv, Next
      PROVE  PoolInv'
  <2> USE <1>1 DEF PoolInv
  <2>1. TypeOK' /\ Counted'
    BY TypeStep, CountedStep
  <2>2. Pooled' /\ Keyed' /\ Started'
    BY KeyedStep, StartedStep
  <2>3. Retired' /\ NoOrphan'
    BY RetiredStep, NoOrphanStep
  <2>4. Unclosed'
    BY PoolFrames DEF Unclosed, CloseRuntime, ClosePool, CloseReturns, CloseWorker
  <2> QED BY <2>1, <2>2, <2>3, <2>4
<1>2. ASSUME PoolInv, UNCHANGED vars
      PROVE  PoolInv'
  <2> USE <1>2 DEF vars, poolVars, workerVars, timerVars, callVars
  <2>1. TypeOK' /\ Pooled' /\ Keyed' /\ Started' /\ Unclosed'
    BY DEF PoolInv, TypeOK, Pooled, Keyed, Started, Unclosed, Using
  <2>2. \A w \in Call : Users(w)' = Users(w) /\ (Current(w)' <=> Current(w))
    BY DEF Users, Using, Current
  <2>3. Counted'
    BY <2>2 DEF PoolInv, Counted
  <2>4. Retired'
    BY <2>2 DEF PoolInv, Retired, Retiring, PoolClosed
  <2>5. NoOrphan'
    BY <2>2 DEF PoolInv, NoOrphan, Tracked, Using
  <2> QED BY <2>1, <2>3, <2>4, <2>5 DEF PoolInv
<1> QED BY <1>1, <1>2

\* The variables of the pool keep their types; a use count is never taken below zero
\* (mcp/child_pool.go, withSession).
THEOREM PoolTypeCorrect == Spec => []TypeOK
<1>1. PoolInv => TypeOK
  BY DEF PoolInv
<1> QED BY <1>1, PoolInvInit, PoolInvStep, PTL DEF Spec

\* However starts, evictions, idle timers and Close interleave, a child that runs has
\* somebody who will stop it (mcp/child_pool.go).
THEOREM NoChildOrphaned == Spec => []NoOrphan
<1>1. PoolInv => NoOrphan
  BY DEF PoolInv
<1> QED BY <1>1, PoolInvInit, PoolInvStep, PTL DEF Spec

\* No session is closed under a call that uses it before the whole pool is closed
\* (mcp/child_pool.go).
THEOREM NoChildClosedUnderUse == Spec => []NoCloseUnderUse
<1>1. PoolInv => NoCloseUnderUse
  <2> SUFFICES ASSUME PoolInv, NEW c \in Call, Using(c), session[use[c]] = "closed"
               PROVE  PoolClosed
    BY DEF NoCloseUnderUse
  <2>1. use[c] \in Call /\ c \in Users(use[c])
    BY DEF PoolInv, Keyed, Using, Users
  <2> QED BY <2>1 DEF PoolInv, Retired, Retiring
<1> QED BY <1>1, PoolInvInit, PoolInvStep, PTL DEF Spec

-----------------------------------------------------------------------------
(* Why a live session is given up.                                          *)

\* A request that was sent on the worker's session failed.
Failed(w) == \E c \in Call : use[c] = w /\ result[c] = "failed"

\* A request that failed was sent.
Failures == \A c \in Call : result[c] = "failed" => pc[c] \in {"releasing", "disposing", "done"}

\* A worker whose child is being started is pooled.
StartsPooled == \A c \in Call : pc[c] = "starting" /\ ~PoolClosed => workers[key[c]] = c

\* A live session leaves the pool for a cause.
LeavesForCause ==
    \A w \in Call : session[w] = "live" /\ ~Current(w) /\ ~PoolClosed => w \in expiring \/ Failed(w)

CauseInv ==
    /\ PoolInv
    /\ Failures
    /\ StartsPooled
    /\ LeavesForCause

\* A failure is an outcome of a request, and stays the outcome of its call.
LEMMA ResultChange ==
  ASSUME TypeOK, Next, NEW c \in Call
  PROVE  \/ result'[c] = result[c]
         \/ /\ pc[c] \notin {"releasing", "disposing", "done"}
            /\ result'[c] = "failed" => pc'[c] = "releasing"
<1>0. DOMAIN pc = Call /\ DOMAIN result = Call
  BY DEF TypeOK
<1> DEFINE Change ==
         \/ result'[c] = result[c]
         \/ /\ pc[c] \notin {"releasing", "disposing", "done"}
            /\ result'[c] = "failed" => pc'[c] = "releasing"
<1>1. ASSUME NEW d \in Call, Begin(d) \/ LookupClosed(d) \/ WaitReady(d) \/ WaitGivesUp(d) \/ EnterRefused(d)
      PROVE  Change
  BY <1>0, <1>1 DEF Begin, LookupClosed, WaitReady, WaitGivesUp, EnterRefused, Goto, Return
<1>2. ASSUME NEW d \in Call, Publishes(d)
      PROVE  Change
  BY <1>0, <1>2 DEF Publishes, Publish, Goto, Return
<1>3. ASSUME NEW d \in Call, GateGivesUp(d) \/ WriteFails(d) \/ ReadGivesUp(d) \/ \E r \in {"ok", "failed"} : Reply(d, r)
      PROVE  Change
  BY <1>0, <1>3 DEF GateGivesUp, WriteFails, ReadGivesUp, Reply, Outcome, Goto
<1>4. \/ result' = result
      \/ \E d \in Call : \/ Begin(d) \/ LookupClosed(d) \/ WaitReady(d) \/ WaitGivesUp(d) \/ EnterRefused(d)
                         \/ Publishes(d) \/ GateGivesUp(d) \/ WriteFails(d) \/ ReadGivesUp(d)
                         \/ \E r \in {"ok", "failed"} : Reply(d, r)
  BY DEF Publishes, Next, poolVars, workerVars, timerVars, callVars, Expires, CallStep, LookupCreates, LookupFinds, Enter,
            TakeGate, Release, Dispose, ChildStep, Write, TimerStep, TimerFires, Expire, CloseExpired,
            CloseRuntime, CloseStep, ClosePool, CloseWorker, CloseReturns
<1> QED BY <1>1, <1>2, <1>3, <1>4

LEMMA FailuresStep ==
  ASSUME TypeOK, Failures, Next
  PROVE  Failures'
<1> SUFFICES ASSUME NEW c \in Call, result'[c] = "failed"
             PROVE  pc'[c] \in {"releasing", "disposing", "done"}
  BY DEF Failures
<1>1. CASE result[c] = "failed"
  <2>1. pc[c] \in {"releasing", "disposing", "done"}
    BY <1>1 DEF Failures
  <2> QED BY <2>1, PlaceChange DEF Begin, LookupCreates, LookupFinds, Publishes, Publish, Enter
<1> QED BY <1>1, ResultChange

LEMMA FailedStays ==
  ASSUME TypeOK, Keyed, Failures, Next, NEW w \in Call, Failed(w)
  PROVE  Failed(w)'
<1>1. PICK c \in Call : use[c] = w /\ result[c] = "failed"
  BY DEF Failed
<1>2. pc[c] \in {"releasing", "disposing", "done"}
  BY <1>1 DEF Failures
<1>3. use'[c] = w
  BY <1>1, <1>2, Choices
<1>4. result'[c] = "failed"
  BY <1>1, <1>2, ResultChange
<1> QED BY <1>3, <1>4 DEF Failed

\* How a worker that is pooled leaves an open pool.
LEMMA Leaving ==
  ASSUME TypeOK, Counted, Pooled, Keyed, Next, ~PoolClosed', NEW w \in Call, Current(w), ~Current(w)'
  PROVE  \/ Publish(w, FALSE)
         \/ \E c \in Call : Release(c) /\ Invalid(c) /\ use[c] = w
         \/ \E g \in 1 .. Cardinality(Call) : Expire(w, g) /\ StillIdle(w, g)
<1>1. PICK k \in Key : workers[k] = w /\ workers'[k] # w
  BY DEF Current
<1>2. w # None /\ key[w] = k
  BY <1>1, PoolAssumption DEF Pooled
<1>3. ASSUME NEW c \in Call, LookupCreates(c)
      PROVE  FALSE
  BY <1>1, <1>2, <1>3 DEF LookupCreates, TypeOK
<1>4. ASSUME NEW c \in Call, NEW started \in BOOLEAN, Publish(c, started)
      PROVE  Publish(w, FALSE)
  <2>1. workers[key[c]] = c /\ (~started \/ PoolClosed) /\ key[c] = k
    BY <1>1, <1>4 DEF Publish, TypeOK
  <2>2. c = w /\ started = FALSE
    BY <1>1, <2>1, PoolStaysOpen
  <2> QED BY <1>4, <2>2
<1>5. ASSUME NEW c \in Call, Release(c)
      PROVE  Invalid(c) /\ use[c] = w
  BY <1>1, <1>5 DEF Release, IsCurrent, TypeOK
<1>6. ASSUME NEW v \in Call, NEW g \in 1 .. Cardinality(Call), Expire(v, g)
      PROVE  Expire(w, g) /\ StillIdle(w, g)
  BY <1>1, <1>2, <1>6 DEF Expire, StillIdle, TypeOK
<1> QED BY <1>1, <1>3, <1>4, <1>5, <1>6, PoolFrames, PoolStaysOpen DEF Publishes, TimesOut

LEMMA StartsPooledStep ==
  ASSUME TypeOK, Counted, Pooled, Keyed, Started, StartsPooled, Next
  PROVE  StartsPooled'
<1> SUFFICES ASSUME NEW c \in Call, pc'[c] = "starting", ~PoolClosed'
             PROVE  workers'[key'[c]] = c
  BY DEF StartsPooled
<1>1. CASE pc[c] = "starting"
  <2>1. key'[c] = key[c] /\ use[c] = c /\ key[c] \in Key /\ workers[key[c]] = c
    BY <1>1, Choices, PoolStaysOpen DEF Keyed, StartsPooled
  <2>2. ~Publish(c, FALSE)
    BY DEF Publish, Return, TypeOK
  <2>3. ASSUME NEW d \in Call, Release(d), use[d] = c
        PROVE  FALSE
    BY <1>1, <2>3 DEF Release, Using, Started
  <2>4. ASSUME NEW g \in 1 .. Cardinality(Call), StillIdle(c, g)
        PROVE  FALSE
    <3>1. generation[c] # 0
      BY <2>4 DEF StillIdle
    <3> QED BY <1>1, <3>1 DEF Started
  <2>5. Current(c)
    BY <2>1 DEF Current
  <2>6. Current(c)'
    BY <2>2, <2>3, <2>4, <2>5, Leaving
  <2>7. PICK k \in Key : workers'[k] = c
    BY <2>6 DEF Current
  <2>8. key'[c] = k
    BY <2>7, PoolAssumption, KeyedStep DEF Pooled
  <2> QED BY <2>7, <2>8
<1>2. CASE LookupCreates(c)
  BY <1>2 DEF LookupCreates, Keyed, TypeOK
<1> QED BY <1>1, <1>2, PlaceChange

LEMMA LeavesForCauseStep ==
  ASSUME TypeOK, Counted, Pooled, Keyed, Started, Failures, StartsPooled, LeavesForCause, Next
  PROVE  LeavesForCause'
<1> SUFFICES ASSUME NEW w \in Call, session'[w] = "live", ~Current(w)', ~PoolClosed'
             PROVE  w \in expiring' \/ Failed(w)'
  BY DEF LeavesForCause
<1>1. ~PoolClosed
  BY PoolStaysOpen
<1>2. CASE w \in expiring
  <2>1. ~CloseExpired(w)
    BY DEF CloseExpired, TypeOK
  <2> QED BY <1>2, <2>1, WorkerFrames DEF CloseExpired, TimesOut, Expire
<1>3. CASE Failed(w)
  BY <1>3, FailedStays
<1>4. CASE Current(w)
  <2>1. CASE Publish(w, FALSE)
    BY <2>1 DEF Publish, TypeOK
  <2>2. ASSUME NEW c \in Call, Release(c), Invalid(c), use[c] = w
        PROVE  Failed(w)
    BY <2>2 DEF Invalid, Failed
  <2>3. ASSUME NEW g \in 1 .. Cardinality(Call), Expire(w, g), StillIdle(w, g)
        PROVE  w \in expiring'
    BY <2>3 DEF Expire
  <2> QED BY <1>3, <1>4, <2>1, <2>2, <2>3, Leaving
<1>5. CASE session[w] # "live"
  <2>1. pc[w] = "starting" /\ use[w] = w
    BY <1>5, SessionChange DEF Keyed
  <2>2. workers[key[w]] = w /\ key[w] \in Key
    BY <1>1, <2>1 DEF StartsPooled, Keyed
  <2> QED BY <1>4, <2>2 DEF Current
<1> QED BY <1>1, <1>2, <1>3, <1>4, <1>5 DEF LeavesForCause

LEMMA CauseInvInit == Init => CauseInv
<1>1. Init => Failures /\ StartsPooled /\ LeavesForCause
  BY DEF Init, Failures, StartsPooled, LeavesForCause
<1> QED BY <1>1, PoolInvInit DEF CauseInv

LEMMA CauseInvStep == CauseInv /\ [Next]_vars => CauseInv'
<1>1. ASSUME CauseInv, Next
      PROVE  CauseInv'
  <2>1. PoolInv'
    BY <1>1, PoolInvStep DEF CauseInv
  <2>2. Failures' /\ StartsPooled' /\ LeavesForCause'
    BY <1>1, FailuresStep, StartsPooledStep, LeavesForCauseStep DEF CauseInv, PoolInv
  <2> QED BY <2>1, <2>2 DEF CauseInv
<1>2. ASSUME CauseInv, UNCHANGED vars
      PROVE  CauseInv'
  <2>1. PoolInv'
    BY <1>2, PoolInvStep DEF CauseInv
  <2>2. Failures' /\ StartsPooled' /\ LeavesForCause'
    BY <1>2 DEF CauseInv, vars, poolVars, workerVars, timerVars, callVars, Failures, StartsPooled,
                LeavesForCause, Failed, Current, PoolClosed
  <2> QED BY <2>1, <2>2 DEF CauseInv
<1> QED BY <1>1, <1>2

LEMMA LossHasCause ==
  ASSUME CauseInv, Next, NEW w \in Call, session[w] = "live", session'[w] # "live"
  PROVE  \/ PoolClosed
         \/ w \in expiring /\ active[w] = 0
         \/ \E c \in Call : use[c] = w /\ result'[c] = "failed"
<1> USE DEF CauseInv, PoolInv
<1>1. CASE closer = "closing"
  BY <1>1 DEF PoolClosed
<1>2. CASE w \in expiring
  <2>1. PoolClosed \/ Users(w) = {}
    BY <1>2 DEF Retired, Retiring
  <2> QED BY <1>2, <2>1, UserCounts
<1>3. ASSUME NEW c \in Call, Dispose(c), use[c] = w, ~PoolClosed, w \notin expiring
      PROVE  \E d \in Call : use[d] = w /\ result'[d] = "failed"
  <2>1. ~Current(w)
    BY <1>3 DEF Dispose, Retired, Retiring
  <2>2. Failed(w)
    BY <1>3, <2>1 DEF LeavesForCause
  <2> QED BY <1>3, <2>2 DEF Dispose, Failed
<1>4. ASSUME NEW c \in Call, ReadGivesUp(c), use[c] = w
      PROVE  use[c] = w /\ result'[c] = "failed"
  BY <1>4 DEF ReadGivesUp, Outcome, TypeOK
<1>5. pc[w] # "starting"
  BY DEF Started
<1> QED BY <1>1, <1>2, <1>3, <1>4, <1>5, SessionChange

\* A live session is given up only when the pool is closed, its worker was taken out
\* idle, or a request sent on it failed: a caller that timed out before its request was
\* sent costs the others nothing (mcp/child_pool.go, withSession).
THEOREM SessionLossHasCause == Spec => SessionLostForCause
<1>1. CauseInv /\ [Next]_vars =>
        [\A w \in Call : session[w] = "live" /\ session'[w] # "live" =>
           \/ PoolClosed
           \/ w \in expiring /\ active[w] = 0
           \/ \E c \in Call : use[c] = w /\ result'[c] = "failed"]_vars
  BY LossHasCause
<1> QED BY <1>1, CauseInvInit, CauseInvStep, PTL DEF Spec, SessionLostForCause
=============================================================================
