---------------------------- MODULE Routines_proofs -------------------------
(***************************************************************************)
(* Proofs about the routine store, for any routines, calls and lengths of  *)
(* the day: the schedule arithmetic gives the first time a schedule falls  *)
(* due, what is stored is always what it gives, the files implement the    *)
(* book of routines, and a run-due runs nothing twice for one due time.    *)
(***************************************************************************)
EXTENDS Routines, TLAPS, WellFoundedInduction, FiniteSetTheorems

\* A time is a day and a time of the day.
LEMMA Parts ==
  ASSUME NEW t \in Nat
  PROVE  /\ t \div Day \in Nat /\ t % Day \in 0 .. Day - 1
         /\ t = Day * (t \div Day) + (t % Day)
  BY DayAssumption

\* The other way round.
LEMMA Days ==
  ASSUME NEW k \in Nat, NEW a \in 0 .. Day - 1
  PROVE  Day * k + a \in Nat /\ (Day * k + a) \div Day = k /\ (Day * k + a) % Day = a
<1> DEFINE t == Day * k + a
           q == t \div Day
<1>1. t \in Nat /\ Day \in Nat \ {0}
  BY DayAssumption
<1>2. q \in Nat /\ t % Day \in 0 .. Day - 1 /\ t = Day * q + (t % Day)
  BY <1>1, Parts
<1>3. Day * (k - q) = (t % Day) - a
  BY <1>1, <1>2
<1>4. ~(k - q >= 1)
  <2>1. SUFFICES ASSUME k - q >= 1
                 PROVE  FALSE
    OBVIOUS
  <2>2. Day * (k - q) >= Day
    BY <1>1, <1>2, <2>1
  <2> QED BY <1>1, <1>2, <1>3, <2>2
<1>5. ~(q - k >= 1)
  <2>1. SUFFICES ASSUME q - k >= 1
                 PROVE  FALSE
    OBVIOUS
  <2>2. Day * (q - k) >= Day
    BY <1>1, <1>2, <2>1
  <2>3. Day * (q - k) = a - (t % Day)
    BY <1>1, <1>2
  <2> QED BY <1>1, <1>2, <2>2, <2>3
<1>6. q = k
  BY <1>2, <1>4, <1>5
<1> QED BY <1>1, <1>2, <1>6

\* The clock time is that of the first day on which it is still to come.
LEMMA ClockNext ==
  ASSUME NEW t \in Nat, NEW at \in 0 .. Day - 1
  PROVE  \E k \in Nat : /\ NextClock(at, t) = Day * k + at /\ Day * k + at > t
                        /\ \A j \in Nat : Day * j + at > t => j >= k
<1> DEFINE q == t \div Day
<1>1. /\ Day \in Nat \ {0} /\ q \in Nat /\ t % Day \in 0 .. Day - 1 /\ t = Day * q + (t % Day)
      /\ Midnight(t) = Day * q
  BY DayAssumption, Parts DEF Midnight
<1> HIDE DEF q
<1>2. ASSUME NEW j \in Nat, j < q
      PROVE  Day * j + at <= t
  <2>1. Day * (q - j) >= Day
    BY <1>1, <1>2
  <2>2. Day * (q - j) = Day * q - Day * j
    BY <1>1
  <2> QED BY <1>1, <2>1, <2>2
<1>3. CASE Day * q + at > t
  BY <1>1, <1>2, <1>3 DEF NextClock
<1>4. CASE ~(Day * q + at > t)
  <2>0. PICK k \in Nat : k = q + 1
    BY <1>1
  <2>1. Day * k = Day * q + Day
    BY <1>1, <2>0
  <2>2. NextClock(at, t) = Day * k + at
    BY <1>1, <1>4, <2>1 DEF NextClock
  <2>3. Day * k + at > t
    BY <1>1, <2>1
  <2>4. ASSUME NEW j \in Nat, Day * j + at > t
        PROVE  j >= k
    <3>1. ~(j < q) /\ j # q
      BY <1>1, <1>2, <1>4, <2>4
    <3> QED BY <1>1, <2>0, <3>1
  <2> QED BY <2>2, <2>3, <2>4
<1> QED BY <1>3, <1>4

\* From a clock time on, the next that is not on a weekend is at most two days away.
LEMMA WorkdayNext ==
  ASSUME NEW k \in Nat, NEW at \in 0 .. Day - 1
  PROVE  \E m \in Nat : /\ Workday(Day * k + at) = Day * m + at /\ m >= k
                        /\ ~Weekend(Day * m + at)
                        /\ \A j \in k .. m - 1 : Weekend(Day * j + at)
<1> DEFINE t == Day * k + at
           Good(u) == ~Weekend(u) /\ \A v \in {t, t + Day} : v < u => Weekend(v)
<1>1. Day \in Nat \ {0} /\ t \in Nat
  BY DayAssumption
<1>2. t + Day = Day * (k + 1) + at /\ t + 2 * Day = Day * (k + 2) + at
  BY <1>1
<1>3. \A j \in Nat : Weekend(Day * j + at) <=> j % 7 \in {5, 6}
  BY Days DEF Weekend
<1>4. /\ Weekend(t) <=> k % 7 \in {5, 6}
      /\ Weekend(t + Day) <=> (k + 1) % 7 \in {5, 6}
      /\ Weekend(t + 2 * Day) <=> (k + 2) % 7 \in {5, 6}
  BY <1>2, <1>3
<1> HIDE DEF t
<1>5. t < t + Day /\ t + Day < t + 2 * Day
  BY <1>1
<1>6. CASE ~Weekend(t)
  <2>1. Good(t) /\ \A u \in {t, t + Day, t + 2 * Day} : Good(u) => u = t
    BY <1>1, <1>5, <1>6
  <2>2. Workday(t) = t
    BY <2>1 DEF Workday
  <2> QED BY <1>1, <1>6, <2>2 DEF t
<1>7. CASE Weekend(t) /\ ~Weekend(t + Day)
  <2>1. Good(t + Day) /\ \A u \in {t, t + Day, t + 2 * Day} : Good(u) => u = t + Day
    BY <1>1, <1>5, <1>7
  <2>2. Workday(t) = t + Day
    BY <2>1 DEF Workday
  <2>3. PICK m \in Nat : m = k + 1
    OBVIOUS
  <2>4. t + Day = Day * m + at /\ m >= k
    BY <1>2, <2>3
  <2>5. \A j \in k .. m - 1 : j = k
    BY <2>3
  <2> QED BY <1>7, <2>2, <2>4, <2>5 DEF t
<1>8. CASE Weekend(t) /\ Weekend(t + Day)
  <2>1. ~Weekend(t + 2 * Day)
    BY <1>4, <1>8
  <2>2. Good(t + 2 * Day) /\ \A u \in {t, t + Day, t + 2 * Day} : Good(u) => u = t + 2 * Day
    BY <1>1, <1>5, <1>8, <2>1
  <2>3. Workday(t) = t + 2 * Day
    BY <2>2 DEF Workday
  <2>4. PICK m \in Nat : m = k + 2
    OBVIOUS
  <2>5. t + 2 * Day = Day * m + at /\ m >= k
    BY <1>2, <2>4
  <2>6. \A j \in k .. m - 1 : j = k \/ j = k + 1
    BY <2>4
  <2>7. \A j \in k .. m - 1 : Weekend(Day * j + at)
    BY <1>2, <1>8, <2>6 DEF t
  <2> QED BY <2>1, <2>3, <2>5, <2>7 DEF t
<1> QED BY <1>6, <1>7, <1>8

\* A routine that is scheduled at t is due the first time its schedule falls after t.
LEMMA ScheduledExact ==
  ASSUME NEW r, IsSchedule(r.schedule), r.enabled \in BOOLEAN, NEW t \in Nat, NEW last \in Nat, last <= t,
         r.last = last,
         NEW u, u.schedule = r.schedule, u.enabled = r.enabled, u.updated = t, u.next = NextFor(r, t)
  PROVE  Exact(u) /\ u.next \in Nat
<1> DEFINE s == r.schedule
<1>1. CASE ~r.enabled \/ s.kind = "manual"
  <2>1. NextFor(r, t) = Never
    BY <1>1 DEF NextFor, NextRun
  <2>2. CASE ~r.enabled
    <3>1. u.enabled = FALSE /\ u.next = Never
      BY <2>1, <2>2
    <3>2. Exact(u)
      BY <3>1, Zenon DEF Exact
    <3> QED BY <3>1, <3>2 DEF Never
  <2>3. CASE r.enabled /\ s.kind = "manual"
    BY <2>1, <2>3 DEF Exact, Never
  <2> QED BY <1>1, <2>2, <2>3
<1>2. CASE r.enabled /\ s.kind = "interval"
  BY <1>2 DEF Exact, NextFor, NextRun, Later, IsSchedule
<1>3. CASE r.enabled /\ s.kind \in {"daily", "weekdays"}
  <2> DEFINE at == s.at
  <2>1. at \in 0 .. Day - 1 /\ Day \in Nat \ {0}
    BY DayAssumption DEF IsSchedule
  <2> HIDE DEF at
  <2>2. PICK k \in Nat : /\ NextClock(at, t) = Day * k + at /\ Day * k + at > t
                         /\ \A j \in Nat : Day * j + at > t => j >= k
    BY <2>1, ClockNext
  <2>3. PICK m \in Nat : /\ u.next = Day * m + at /\ m >= k
                         /\ s.kind = "weekdays" => ~Weekend(Day * m + at)
                         /\ \A j \in k .. m - 1 : s.kind = "weekdays" /\ Weekend(Day * j + at)
    <3>1. CASE s.kind = "daily"
      BY <1>3, <2>2, <3>1 DEF NextFor, NextRun, at
    <3>2. CASE s.kind = "weekdays"
      BY <1>3, <2>1, <2>2, <3>2, WorkdayNext DEF NextFor, NextRun, at
    <3> QED BY <1>3, <3>1, <3>2
  <2>4. Day * m >= Day * k
    BY <2>1, <2>3
  <2>5. u.next \in Nat /\ u.next > t
    BY <2>1, <2>2, <2>3, <2>4
  <2>6. Falls(s, u.next)
    <3>1. u.next % Day = at
      BY <2>1, <2>3, Days
    <3> QED BY <2>3, <3>1 DEF Falls, at
  <2>7. ASSUME NEW v \in t + 1 .. u.next - 1
        PROVE  ~Falls(s, v)
    <3> DEFINE j == v \div Day
    <3>1. SUFFICES ASSUME v % Day = at
                   PROVE  s.kind = "weekdays" /\ Weekend(v)
      BY DEF Falls, at
    <3>2. v \in Nat
      BY <2>5
    <3>3. j \in Nat /\ v = Day * j + at
      BY <3>1, <3>2, Parts
    <3> HIDE DEF j
    <3>4. j >= k
      BY <2>2, <3>3
    <3>5. j < m
      <4>1. SUFFICES ASSUME j >= m
                     PROVE  FALSE
        BY <3>3
      <4>2. Day * j >= Day * m
        BY <2>1, <3>3, <4>1
      <4> QED BY <2>1, <2>3, <2>5, <3>3, <4>2
    <3> QED BY <2>3, <3>3, <3>4, <3>5
  <2> QED BY <1>3, <2>5, <2>6, <2>7 DEF Exact
<1> QED BY <1>1, <1>2, <1>3 DEF IsSchedule

-----------------------------------------------------------------------------
(* Maps of routines.                                                        *)

\* A map of routines that loads and writes may hold at time t.
Sound(m, t) ==
    /\ IsMap(m, Id, Routine)
    /\ \A id \in DOMAIN m : m[id].last <= t /\ Exact(m[id])

\* Schedules are valid.
LEMMA Schedules ==
  ASSUME NEW r \in Routine
  PROVE  IsSchedule(r.schedule) /\ r.enabled \in BOOLEAN /\ r.last \in Nat /\ r.updated \in Nat
BY RoutineAssumption DEF Routine

\* A routine that is scheduled anew is a routine that is due when it should be.
LEMMA ScheduledSound ==
  ASSUME NEW r \in Routine, NEW t \in Nat, r.last <= t
  PROVE  /\ Scheduled(r, t) \in Routine /\ Exact(Scheduled(r, t))
         /\ Scheduled(r, t).last = r.last
<1> DEFINE u == Scheduled(r, t)
<1>1. /\ u.schedule = r.schedule /\ u.enabled = r.enabled /\ u.updated = t /\ u.next = NextFor(r, t)
      /\ u.last = r.last
  BY DEF Scheduled, Routine
<1>2. Exact(u) /\ u.next \in Nat
  BY <1>1, Schedules, ScheduledExact
<1>3. u \in Routine
  BY <1>1, <1>2 DEF Scheduled, Routine
<1> QED BY <1>1, <1>2, <1>3

\* So is one that has run.
LEMMA AfterRunSound ==
  ASSUME NEW r \in Routine, NEW t \in Nat
  PROVE  AfterRun(r, t) \in Routine /\ Exact(AfterRun(r, t)) /\ AfterRun(r, t).last = t
<1> DEFINE u == [r EXCEPT !.last = t]
<1>1. u \in Routine /\ u.last = t
  BY DEF Routine
<1> HIDE DEF u
<1>2. Scheduled(u, t) \in Routine /\ Exact(Scheduled(u, t)) /\ Scheduled(u, t).last = t
  BY <1>1, ScheduledSound
<1> QED BY <1>2 DEF AfterRun, u

\* So is one that is defined.
LEMMA EntrySound ==
  ASSUME NEW d \in Definition, NEW last \in Nat, NEW t \in Nat, last <= t
  PROVE  Entry(d, last, t) \in Routine /\ Exact(Entry(d, last, t)) /\ Entry(d, last, t).last = last
<1> DEFINE u == [enabled |-> d.enabled, schedule |-> d.schedule, last |-> last, updated |-> t, next |-> Never]
<1>1. u \in Routine /\ u.last = last
  BY RoutineAssumption DEF Routine, Never
<1> HIDE DEF u
<1>2. Scheduled(u, t) \in Routine /\ Exact(Scheduled(u, t)) /\ Scheduled(u, t).last = last
  BY <1>1, ScheduledSound
<1> QED BY <1>2 DEF Entry, u

\* A set of naturals has a least one, and a bounded one a last one.
LEMMA Least ==
  ASSUME NEW T \in SUBSET Nat, T # {}
  PROVE  \E n \in T : \A k \in T : n <= k
<1> DEFINE R == {ss \in Nat \X Nat : ss[1] < ss[2]}
<1>1. IsWellFoundedOn(R, Nat)
  BY NatLessThanWellFounded DEF OpToRel
<1>2. \A x, y \in Nat : <<y, x>> \notin R => x <= y
  OBVIOUS
<1> HIDE DEF R
<1>3. \E x \in T : \A y \in T : <<y, x>> \notin R
  BY <1>1, WFMin
<1> QED BY <1>2, <1>3

LEMMA Latest ==
  ASSUME NEW T \in SUBSET Nat, NEW b \in Nat, \A t \in T : t <= b, T # {}
  PROVE  \E t \in T : \A u \in T : u <= t
<1> DEFINE S == {n \in Nat : \A u \in T : u <= n}
<1>1. PICK n \in S : \A k \in S : n <= k
  <2>1. S \in SUBSET Nat /\ S # {}
    OBVIOUS
  <2> HIDE DEF S
  <2> QED BY <2>1, Least
<1>2. n \in T
  <2>1. SUFFICES ASSUME n \notin T
                 PROVE  FALSE
    OBVIOUS
  <2>2. n # 0
    <3>1. PICK t \in T : TRUE
      OBVIOUS
    <3> QED BY <1>1, <2>1, <3>1
  <2>3. n - 1 \in S
    BY <1>1, <2>1, <2>2
  <2> QED BY <1>1, <2>3
<1> QED BY <1>1, <1>2

\* The last run on record is the time of a receipt, or Never.
LEMMA LastFinishIn ==
  ASSUME NEW id \in Id, NEW t \in Nat,
         NEW R \in SUBSET [routine : Id, finished : 1 .. t]
  PROVE  LastFinish(id, R) \in 0 .. t
<1> DEFINE times == {r.finished : r \in {s \in Newest(R) : s.routine = id}} \cup {Never}
<1>1. times \in SUBSET (0 .. t) /\ times # {}
  <2>1. Newest(R) \subseteq R
    BY DEF Newest
  <2>2. \A r \in R : r.finished \in 0 .. t
    OBVIOUS
  <2> QED BY <2>1, <2>2 DEF Never
<1> HIDE DEF times
<1>2. \E v \in times : \A u \in times : u <= v
  <2>1. times \in SUBSET Nat /\ \A v \in times : v <= t
    BY <1>1
  <2> QED BY <1>1, <2>1, Latest
<1>3. LastFinish(id, R) = CHOOSE v \in times : \A u \in times : u <= v
  BY DEF LastFinish, times
<1> QED BY <1>1, <1>2, <1>3

\* A reconciled map is sound.
LEMMA ReconciledSound ==
  ASSUME NEW m, NEW t \in Nat, Sound(m, t),
         NEW R \in SUBSET [routine : Id, finished : 1 .. t]
  PROVE  Sound(Reconciled(m, R), t)
<1> DEFINE n == Reconciled(m, R)
<1>1. DOMAIN n = DOMAIN m /\ DOMAIN m \subseteq Id /\ n = [id \in DOMAIN m |-> n[id]]
  BY DEF Reconciled, Sound, IsMap
<1>2. ASSUME NEW id \in DOMAIN m
      PROVE  n[id] \in Routine /\ n[id].last <= t /\ Exact(n[id])
  <2>1. m[id] \in Routine /\ m[id].last <= t /\ Exact(m[id])
    BY DEF Sound, IsMap
  <2>2. LastFinish(id, R) \in 0 .. t
    BY <1>1, LastFinishIn
  <2>3. n[id] = m[id] \/ n[id] = AfterRun(m[id], LastFinish(id, R))
    BY DEF Reconciled
  <2> HIDE DEF n
  <2> QED BY <2>1, <2>2, <2>3, AfterRunSound
<1> HIDE DEF n
<1>3. n \in [DOMAIN n -> Routine]
  BY <1>1, <1>2
<1>4. Sound(n, t)
  BY <1>1, <1>2, <1>3 DEF Sound, IsMap
<1> QED BY <1>4 DEF n

-----------------------------------------------------------------------------
(* The invariant.                                                           *)

Labels == {"idle", "read", "reconcile", "repair", "decide", "next", "running",
           "receipt", "save", "prune", "close", "done"}

\* Where calls are.
Placed ==
    /\ pc \in [Call -> Labels] /\ target \in [Call -> Id \cup {NoId}]
    /\ slot \in [Call -> 0 .. MaxTime] /\ mishaps \in 0 .. MaxMishaps
    /\ holder \in Call \cup {NoCall}

\* The routines a run-due has still to run.
Listed == due = [c \in Call |-> due[c]] /\ \A c \in Call : IsMap(due[c], Id, 1 .. MaxTime)

\* The holder of the lease is under way and works on a routine.
Held ==
    /\ holder # NoCall =>
          Live(holder) /\ pc[holder] # "next" /\ target[holder] # NoId /\ KindOf[holder] # "list"
    /\ \A c \in Call :
          /\ pc[c] = "next" => KindOf[c] = "runDue"
          /\ KindOf[c] \in {"put", "delete", "run"} /\ Live(c) => target[c] \in Id

\* What the files and the calls know is sound.
Data ==
    /\ now \in Start .. MaxTime
    /\ store # NoFile => Sound(store, now)
    /\ loaded = [c \in Call |-> loaded[c]] /\ \A c \in Call : Sound(loaded[c], now)
    /\ receipts \in SUBSET [routine : Id, finished : 1 .. now]
    /\ ran \in [Id -> 0 .. MaxTime]

\* A call that runs a routine knows it, and has a time for its receipt.
Running == \A c \in Call :
    /\ pc[c] \in {"running", "receipt"} => Known(c)
    /\ pc[c] = "receipt" => loaded[c][target[c]].last \in 1 .. now

RoutineInv == Placed /\ Listed /\ Held /\ Data /\ Running

\* The empty map is sound.
LEMMA EmptyIs == DOMAIN Empty = {} /\ \A S, T : IsMap(Empty, S, T) /\ \A t \in Nat : Sound(Empty, t)
  BY DEF Empty, IsMap, Sound

\* Initially there are the routines and receipts of earlier calls.
LEMMA RoutineInvInit == Init => RoutineInv
<1> SUFFICES ASSUME Init
             PROVE  RoutineInv
  OBVIOUS
<1>0. Start \in Nat /\ now = Start /\ MaxTime \in Nat /\ Start <= MaxTime /\ MaxMishaps \in Nat
  BY RoutineAssumption DEF Init
<1>1. pc \in [Call -> {"idle", "done"}] /\ target = [c \in Call |-> NoId]
  BY DEF Init
<1>2. Placed /\ Listed /\ Held
  BY <1>0, <1>1, EmptyIs, RoutineAssumption DEF Init, Placed, Listed, Held, Labels, Live, Never
<1>3. PICK i \in Initial : store = i.store /\ receipts = i.receipts
  BY DEF Init
<1>4. receipts \in SUBSET [routine : Id, finished : 1 .. now] /\ (store # NoFile => Sound(store, now))
  <2>1. ASSUME store # NoFile, NEW id \in DOMAIN store
        PROVE  store[id].last <= now
    <3>1. store[id] \in Routine /\ store[id].last <= store[id].updated /\ store[id].updated <= Start
      BY <1>3, <2>1, InitialAssumption DEF IsMap
    <3> QED BY <1>0, <3>1, Schedules
  <2> QED BY <1>0, <1>3, <2>1, InitialAssumption DEF Sound
<1>5. ran \in [Id -> 0 .. MaxTime]
  <2>1. ASSUME NEW id \in Id
        PROVE  LastFinish(id, receipts) \in 0 .. MaxTime
    BY <1>0, <1>4, LastFinishIn
  <2>2. ASSUME store # NoFile, NEW id \in DOMAIN store
        PROVE  store[id].last \in 0 .. MaxTime
    BY <1>0, <1>4, <2>2, Schedules DEF Sound, IsMap
  <2>3. ran = [id \in Id |-> IF store # NoFile /\ id \in DOMAIN store
                             THEN Later(store[id].last, LastFinish(id, receipts)) ELSE LastFinish(id, receipts)]
    BY DEF Init
  <2> QED BY <2>1, <2>2, <2>3 DEF Later
<1>6. Data
  BY <1>0, <1>4, <1>5, EmptyIs DEF Init, Data
<1>7. Running
  BY <1>1 DEF Running
<1> QED BY <1>2, <1>6, <1>7 DEF RoutineInv

\* Calls go from place to place.
LEMMA PlacedStep ==
  ASSUME Placed, Listed, [Next]_vars
  PROVE  Placed'
<1> USE RoutineAssumption, CallAssumption DEF Goto, Load, Drop, DropAll, Mishap, Labels
<1>1. ASSUME NEW c \in Call, BeginLeased(c) \/ BeginOpen(c)
      PROVE  Placed'
  BY <1>1 DEF BeginLeased, BeginOpen, MayBegin, Placed, locals, Never
<1>2. ASSUME NEW c \in Call, Read(c) \/ Reconcile(c)
      PROVE  Placed'
  BY <1>2 DEF Read, Reconcile, Placed, locals, Never
<1>3. ASSUME NEW c \in Call, Answer(c)
      PROVE  Placed'
  BY <1>3 DEF Answer, Placed, locals, Never
<1>4. ASSUME NEW c \in Call, Due(c)
      PROVE  Placed'
  BY <1>4 DEF Due, Placed, locals, Never
<1>5. ASSUME NEW c \in Call, Pick(c)
      PROVE  Placed'
  <2>1. PICK id \in DOMAIN due[c] :
          IF holder = NoCall
          THEN /\ holder' = c /\ Goto(c, "read")
               /\ target' = [target EXCEPT ![c] = id]
               /\ slot' = [slot EXCEPT ![c] = due[c][id]]
          ELSE UNCHANGED <<holder, pc, target, slot>>
    BY <1>5 DEF Pick
  <2>2. id \in Id /\ due[c][id] \in 0 .. MaxTime /\ mishaps' = mishaps
    BY <1>5 DEF Listed, IsMap, Pick
  <2> QED BY <2>1, <2>2 DEF Placed
<1>6. ASSUME NEW c \in Call, NothingLeft(c) \/ StartRun(c) \/ Finish(c)
      PROVE  Placed'
  BY <1>6 DEF NothingLeft, StartRun, Finish, Placed, locals, Never
<1>7. ASSUME NEW c \in Call, Write(c)
      PROVE  Placed'
  BY <1>7 DEF Write, Continue, Placed, locals, Never
<1>8. ASSUME NEW c \in Call, StepFails(c)
      PROVE  Placed'
  BY <1>8 DEF StepFails, GiveUp, Placed, locals, Never
<1>9. ASSUME NEW c \in Call, Close(c)
      PROVE  Placed'
  BY <1>9 DEF Close, Placed, locals, Never
<1>10. ASSUME NEW c \in Call, Crash(c)
      PROVE  Placed'
  BY <1>10 DEF Crash, Placed, locals, Never
<1>11. CASE Tick \/ UNCHANGED vars
  BY <1>11 DEF Tick, vars, Placed, locals, Never
<1> QED
  BY <1>1, <1>2, <1>3, <1>4, <1>5, <1>6, <1>7, <1>8, <1>9, <1>10, <1>11 DEF Next, Step

\* Lists are of routines.
LEMMA ListedStep ==
  ASSUME Placed, Listed, Data, [Next]_vars
  PROVE  Listed'
<1> USE DEF Drop, DropAll
<1>1. ASSUME NEW c \in Call, BeginLeased(c) \/ BeginOpen(c)
      PROVE  Listed'
  BY <1>1 DEF BeginLeased, BeginOpen, MayBegin, Listed, locals
<1>2. ASSUME NEW c \in Call, Read(c) \/ Reconcile(c)
      PROVE  Listed'
  BY <1>2 DEF Read, Reconcile, Listed, locals
<1>3. ASSUME NEW c \in Call, Answer(c)
      PROVE  Listed'
  BY <1>3, EmptyIs DEF Answer, Listed, locals
<1>4. ASSUME NEW c \in Call, Due(c)
      PROVE  Listed'
  <2> DEFINE list == [id \in {i \in DOMAIN loaded[c] : IsDue(loaded[c][i])} |-> loaded[c][id].next]
  <2>1. ASSUME NEW id \in DOMAIN list
        PROVE  id \in Id /\ list[id] \in 1 .. MaxTime
    <3>1. loaded[c][id] \in Routine /\ id \in Id /\ IsDue(loaded[c][id]) /\ now \in Start .. MaxTime
      BY DEF Data, Sound, IsMap
    <3>2. loaded[c][id].next \in Nat /\ loaded[c][id].next # 0 /\ loaded[c][id].next <= now
      BY <3>1 DEF IsDue, Routine, Never
    <3> QED BY <3>1, <3>2, RoutineAssumption
  <2>2. due' = [due EXCEPT ![c] = list] /\ list = [id \in DOMAIN list |-> list[id]]
    BY <1>4 DEF Due
  <2> HIDE DEF list
  <2>3. list \in [DOMAIN list -> 1 .. MaxTime] /\ DOMAIN list \subseteq Id
    BY <2>1, <2>2
  <2>4. IsMap(list, Id, 1 .. MaxTime)
    BY <2>3 DEF IsMap
  <2> QED BY <2>2, <2>4 DEF Listed
<1>5. ASSUME NEW c \in Call, Pick(c)
      PROVE  Listed'
  <2>1. PICK id : due' = [due EXCEPT ![c] = [i \in DOMAIN due[c] \ {id} |-> due[c][i]]]
    BY <1>5 DEF Pick
  <2>2. IsMap([i \in DOMAIN due[c] \ {id} |-> due[c][i]], Id, 1 .. MaxTime)
    BY DEF Listed, IsMap
  <2> QED BY <2>1, <2>2 DEF Listed
<1>6. ASSUME NEW c \in Call, NothingLeft(c) \/ StartRun(c) \/ Finish(c)
      PROVE  Listed'
  BY <1>6 DEF NothingLeft, StartRun, Finish, Listed, locals
<1>7. ASSUME NEW c \in Call, Write(c)
      PROVE  Listed'
  BY <1>7 DEF Write, Continue, Listed, locals
<1>8. ASSUME NEW c \in Call, StepFails(c)
      PROVE  Listed'
  BY <1>8, EmptyIs DEF StepFails, GiveUp, Listed, locals
<1>9. ASSUME NEW c \in Call, Close(c)
      PROVE  Listed'
  BY <1>9 DEF Close, Listed, locals
<1>10. ASSUME NEW c \in Call, Crash(c)
      PROVE  Listed'
  BY <1>10, EmptyIs DEF Crash, Listed, locals
<1>11. CASE Tick \/ UNCHANGED vars
  BY <1>11 DEF Tick, vars, Listed, locals
<1> QED
  BY <1>1, <1>2, <1>3, <1>4, <1>5, <1>6, <1>7, <1>8, <1>9, <1>10, <1>11 DEF Next, Step

\* No path leaves the lease behind.
LEMMA HeldStep ==
  ASSUME Placed, Listed, Held, [Next]_vars
  PROVE  Held'
<1> USE RoutineAssumption, CallAssumption DEF Goto, Drop, DropAll, Live, Labels, Placed
<1>1. ASSUME NEW c \in Call, BeginLeased(c) \/ BeginOpen(c)
      PROVE  Held'
  BY <1>1 DEF BeginLeased, BeginOpen, MayBegin, Held, locals
<1>2. ASSUME NEW c \in Call, Read(c) \/ Reconcile(c)
      PROVE  Held'
  BY <1>2 DEF Read, Reconcile, Held, locals
<1>3. ASSUME NEW c \in Call, Answer(c)
      PROVE  Held'
  BY <1>3 DEF Answer, Held, locals
<1>4. ASSUME NEW c \in Call, Due(c)
      PROVE  Held'
  BY <1>4 DEF Due, Held, locals
<1>5. ASSUME NEW c \in Call, Pick(c)
      PROVE  Held'
  <2>1. PICK id \in DOMAIN due[c] :
          IF holder = NoCall
          THEN /\ holder' = c /\ Goto(c, "read")
               /\ target' = [target EXCEPT ![c] = id]
          ELSE UNCHANGED <<holder, pc, target>>
    BY <1>5 DEF Pick
  <2>2. id \in Id /\ id # NoId /\ pc[c] = "next"
    BY <1>5 DEF Listed, IsMap, Pick
  <2> QED BY <2>1, <2>2 DEF Held
<1>6. ASSUME NEW c \in Call, NothingLeft(c) \/ StartRun(c) \/ Finish(c)
      PROVE  Held'
  <2>1. CASE NothingLeft(c)
    BY <2>1 DEF NothingLeft, Held, locals
  <2>2. CASE StartRun(c) \/ Finish(c)
    <3>1. pc[c] \in {"decide", "running"} /\ UNCHANGED <<holder, target>>
      BY <2>2 DEF StartRun, IsRun, Finish, locals
    <3>2. \E label \in {"running", "close", "receipt"} : pc' = [pc EXCEPT ![c] = label]
      BY <2>2 DEF StartRun, Finish
    <3> QED BY <3>1, <3>2 DEF Held
  <2> QED BY <1>6, <2>1, <2>2
<1>7. ASSUME NEW c \in Call, Write(c)
      PROVE  Held'
  <2>1. pc[c] \in {"repair", "decide", "receipt", "save", "prune"} /\ UNCHANGED <<holder, target>>
    BY <1>7 DEF Write, Effect, Repair, Put, Delete, WriteReceipt, SaveRun, Prune, locals
  <2>2. \E label \in {"decide", "save", "prune", "close"} : pc' = [pc EXCEPT ![c] = label]
    BY <1>7, <2>1 DEF Write, Continue
  <2> QED BY <2>1, <2>2 DEF Held
<1>8. ASSUME NEW c \in Call, StepFails(c)
      PROVE  Held'
  BY <1>8 DEF StepFails, GiveUp, Held, locals
<1>9. ASSUME NEW c \in Call, Close(c)
      PROVE  Held'
  BY <1>9 DEF Close, Held, locals
<1>10. ASSUME NEW c \in Call, Crash(c)
      PROVE  Held'
  BY <1>10 DEF Crash, Held, locals
<1>11. CASE Tick \/ UNCHANGED vars
  BY <1>11 DEF Tick, vars, Held, locals
<1> QED
  BY <1>1, <1>2, <1>3, <1>4, <1>5, <1>6, <1>7, <1>8, <1>9, <1>10, <1>11 DEF Next, Step

\* Time goes on.
LEMMA TimeGoesOn ==
  ASSUME Data, [Next]_vars
  PROVE  now' \in Nat /\ now' \in Start .. MaxTime /\ now <= now'
<1>1. now \in Start .. MaxTime /\ Start \in Nat /\ MaxTime \in Nat
  BY RoutineAssumption DEF Data
<1>2. now' = now \/ (now < MaxTime /\ now' = now + 1) \/ now' \in now + 1 .. MaxTime
  BY DEF Next, Step, Tick, BeginLeased, BeginOpen, Read, Reconcile, Answer, Due, Pick, NothingLeft, StartRun, Finish,
     Write, StepFails, Close, Crash, vars
<1> QED BY <1>1, <1>2

\* What is sound stays so.
LEMMA SoundLater ==
  ASSUME NEW m, NEW t \in Nat, NEW u \in Nat, t <= u, Sound(m, t)
  PROVE  Sound(m, u)
<1>1. \A id \in DOMAIN m : m[id].last \in Nat
  BY DEF Sound, IsMap, Routine
<1> QED BY <1>1 DEF Sound

\* A write leaves a sound store, and receipts of finished runs.
LEMMA EffectSound ==
  ASSUME RoutineInv, NEW c \in Call, Effect(c)
  PROVE  /\ store' # NoFile => Sound(store', now)
         /\ receipts' \in SUBSET [routine : Id, finished : 1 .. now]
         /\ ran' \in [Id -> 0 .. MaxTime]
<1> USE DEF RoutineInv
<1>0. /\ now \in Nat /\ now <= MaxTime /\ MaxTime \in Nat /\ Sound(loaded[c], now)
      /\ store # NoFile => Sound(store, now)
      /\ receipts \in SUBSET [routine : Id, finished : 1 .. now] /\ ran \in [Id -> 0 .. MaxTime]
  BY RoutineAssumption DEF Data
<1>1. CASE Repair(c) \/ SaveRun(c)
  BY <1>0, <1>1 DEF Repair, SaveRun, WriteStore
<1>2. CASE Put(c)
  <2> DEFINE last == IF Known(c) THEN loaded[c][target[c]].last ELSE Never
             entry == Entry(DefinitionOf[c], last, now)
  <2>1. last \in Nat /\ last <= now
    BY <1>0 DEF Sound, IsMap, Routine, Known, Never
  <2>2. target[c] \in Id /\ DefinitionOf[c] \in Definition
    BY <1>2, CallAssumption DEF Put, Held, Live
  <2>3. entry \in Routine /\ Exact(entry) /\ entry.last = last
    BY <1>0, <2>1, <2>2, EntrySound
  <2>4. /\ store' = [i \in DOMAIN loaded[c] \cup {target[c]} |-> IF i = target[c] THEN entry ELSE loaded[c][i]]
        /\ UNCHANGED <<receipts, ran>>
    BY <1>2 DEF Put, WriteStore
  <2> HIDE DEF last, entry
  <2>5. DOMAIN store' = DOMAIN loaded[c] \cup {target[c]}
    BY <2>4
  <2>6. \A i \in DOMAIN store' : store'[i] = IF i = target[c] THEN entry ELSE loaded[c][i]
    BY <2>4
  <2>7. \A i \in DOMAIN store' : i \in Id /\ store'[i] \in Routine /\ store'[i].last <= now /\ Exact(store'[i])
    BY <1>0, <2>1, <2>2, <2>3, <2>5, <2>6 DEF Sound, IsMap
  <2>8. store' \in [DOMAIN store' -> Routine]
    BY <2>4, <2>5, <2>7
  <2>9. Sound(store', now)
    BY <2>7, <2>8 DEF Sound, IsMap
  <2> QED BY <1>0, <2>4, <2>9
<1>3. CASE Delete(c)
  <2>1. CASE Known(c)
    <3>1. /\ store' = [i \in DOMAIN loaded[c] \ {target[c]} |-> loaded[c][i]]
          /\ UNCHANGED <<receipts, ran>>
      BY <1>3, <2>1 DEF Delete, WriteStore
    <3>2. Sound(store', now)
      BY <1>0, <3>1 DEF Sound, IsMap
    <3> QED BY <1>0, <3>1, <3>2
  <2>2. CASE ~Known(c)
    BY <1>0, <1>3, <2>2 DEF Delete
  <2> QED BY <2>1, <2>2
<1>4. CASE WriteReceipt(c)
  <2> DEFINE finished == loaded[c][target[c]].last
  <2>1. target[c] \in Id /\ finished \in 1 .. now
    BY <1>0, <1>4 DEF WriteReceipt, Running, Known, Sound, IsMap
  <2>2. /\ receipts' = receipts \cup {[routine |-> target[c], finished |-> finished]}
        /\ ran' = [ran EXCEPT ![target[c]] = finished] /\ store' = store
    BY <1>4 DEF WriteReceipt
  <2> HIDE DEF finished
  <2> QED BY <1>0, <2>1, <2>2
<1>5. CASE Prune(c)
  <2>1. Newest(receipts) \subseteq receipts
    BY DEF Newest
  <2> QED BY <1>0, <1>5, <2>1 DEF Prune
<1> QED BY <1>1, <1>2, <1>3, <1>4, <1>5 DEF Effect

\* What a call loads and changes is sound.
LEMMA LoadedSound ==
  ASSUME RoutineInv, [Next]_vars
  PROVE  loaded' = [c \in Call |-> loaded'[c]] /\ \A c \in Call : Sound(loaded'[c], now')
<1> USE DEF RoutineInv
<1>0. /\ now \in Nat /\ now' \in Nat /\ now <= now' /\ loaded = [c \in Call |-> loaded[c]]
      /\ \A c \in Call : Sound(loaded[c], now) /\ Sound(loaded[c], now')
      /\ store # NoFile => Sound(store, now')
      /\ Sound(Empty, now')
  <2>1. now \in Nat
    BY RoutineAssumption DEF Data
  <2> QED BY <2>1, TimeGoesOn, SoundLater, EmptyIs DEF Data
<1>1. CASE loaded' = loaded
  BY <1>0, <1>1
<1>2. ASSUME NEW c \in Call, NEW m, Sound(m, now'), Load(c, m)
      PROVE  loaded' = [d \in Call |-> loaded'[d]] /\ \A d \in Call : Sound(loaded'[d], now')
  BY <1>0, <1>2 DEF Load
<1>3. ASSUME NEW c \in Call, Reconcile(c)
      PROVE  Sound(Reconciled(loaded[c], receipts), now') /\ Load(c, Reconciled(loaded[c], receipts))
  <2>1. now' = now /\ receipts \in SUBSET [routine : Id, finished : 1 .. now]
    BY <1>3 DEF Reconcile, Data
  <2> QED BY <1>0, <1>3, <2>1, ReconciledSound DEF Reconcile
<1>4. ASSUME NEW c \in Call, Finish(c)
      PROVE  LET m == [loaded[c] EXCEPT ![target[c]] = AfterRun(loaded[c][target[c]], now')]
             IN  Sound(m, now') /\ Load(c, m)
  <2> DEFINE run == AfterRun(loaded[c][target[c]], now')
             m == [loaded[c] EXCEPT ![target[c]] = run]
  <2>1. target[c] \in DOMAIN loaded[c]
    BY <1>4 DEF Finish, Running, Known
  <2>2. loaded[c][target[c]] \in Routine
    BY <1>0, <2>1 DEF Sound, IsMap
  <2>3. run \in Routine /\ Exact(run) /\ run.last = now'
    BY <1>0, <2>2, AfterRunSound
  <2>4. Load(c, m)
    BY <1>4 DEF Finish
  <2> HIDE DEF run
  <2>5. Sound(m, now')
    BY <1>0, <2>1, <2>3 DEF Sound, IsMap
  <2> QED BY <2>4, <2>5 DEF run
<1>5. \/ loaded' = loaded
      \/ \E c \in Call : Load(c, Empty)
      \/ \E c \in Call : Load(c, store) /\ store # NoFile
      \/ \E c \in Call : Reconcile(c)
      \/ \E c \in Call : Finish(c)
  BY DEF Next, Step, Tick, BeginLeased, BeginOpen, Read, Answer, Due, Pick, NothingLeft, StartRun,
     Write, StepFails, GiveUp, Close, Crash, Drop, DropAll, vars, locals
<1> QED BY <1>0, <1>1, <1>2, <1>3, <1>4, <1>5

\* Every step keeps what files and calls hold sound.
LEMMA DataStep ==
  ASSUME RoutineInv, [Next]_vars
  PROVE  Data'
<1>1. now \in Nat /\ now' \in Nat /\ now' \in Start .. MaxTime /\ now <= now' /\ Data
  BY TimeGoesOn, RoutineAssumption DEF RoutineInv, Data
<1>2. \/ UNCHANGED <<store, receipts, ran>>
      \/ \E c \in Call : Effect(c)
  BY DEF Next, Step, Tick, BeginLeased, BeginOpen, Read, Reconcile, Answer, Due, Pick, NothingLeft, StartRun, Finish,
     Write, StepFails, Close, Crash, vars
<1>3. /\ store' # NoFile => Sound(store', now)
      /\ receipts' \in SUBSET [routine : Id, finished : 1 .. now]
      /\ ran' \in [Id -> 0 .. MaxTime]
  BY <1>1, <1>2, EffectSound DEF Data
<1>4. receipts' \in SUBSET [routine : Id, finished : 1 .. now']
  BY <1>1, <1>3
<1>5. store' # NoFile => Sound(store', now')
  BY <1>1, <1>3, SoundLater
<1> QED BY <1>1, <1>3, <1>4, <1>5, LoadedSound DEF Data

\* Every step keeps the runs known.
LEMMA RunningStep ==
  ASSUME RoutineInv, [Next]_vars
  PROVE  Running'
<1> USE DEF RoutineInv
<1>1. /\ pc \in [Call -> Labels] /\ loaded = [c \in Call |-> loaded[c]] /\ target \in [Call -> Id \cup {NoId}]
      /\ now \in Nat /\ now' \in Nat /\ now <= now'
  BY TimeGoesOn, RoutineAssumption DEF Placed, Data
<1>2. ASSUME NEW c \in Call, Finish(c)
      PROVE  Running'
  <2> DEFINE run == AfterRun(loaded[c][target[c]], now')
  <2>1. /\ target' = target /\ pc' = [pc EXCEPT ![c] = "receipt"] /\ Known(c) /\ now' \in now + 1 .. MaxTime
        /\ loaded' = [loaded EXCEPT ![c] = [loaded[c] EXCEPT ![target[c]] = run]]
    BY <1>2 DEF Finish, Goto, Load, Running
  <2>2. loaded[c][target[c]] \in Routine
    BY <2>1 DEF Data, Sound, IsMap, Known
  <2>3. run.last = now' /\ now' \in 1 .. now'
    BY <1>1, <2>1, <2>2, AfterRunSound
  <2> HIDE DEF run
  <2> QED BY <1>1, <2>1, <2>3 DEF Running, Known
<1>3. ASSUME NEW c \in Call, StartRun(c)
      PROVE  Running'
  BY <1>1, <1>3 DEF StartRun, Runnable, Running, Known, Goto, locals
<1>4. \/ \E c \in Call : Finish(c) \/ StartRun(c)
      \/ \A c \in Call : pc'[c] \in {"running", "receipt"} =>
            pc[c] = pc'[c] /\ loaded'[c] = loaded[c] /\ target'[c] = target[c]
  <2>1. CASE \E c \in Call : Write(c)
    <3>1. PICK c \in Call : Write(c)
      BY <2>1
    <3>2. pc'[c] \notin {"running", "receipt"}
      BY <1>1, <3>1 DEF Write, Continue, Goto
    <3> QED BY <1>1, <3>1, <3>2 DEF Write, Continue, Goto, locals
  <2>2. CASE \E c \in Call : Step(c) /\ ~Write(c) /\ ~Finish(c) /\ ~StartRun(c)
    <3>1. PICK c \in Call : Step(c) /\ ~Write(c) /\ ~Finish(c) /\ ~StartRun(c)
      BY <2>2
    <3>2. \A d \in Call \ {c} : pc'[d] = pc[d] /\ loaded'[d] = loaded[d] /\ target'[d] = target[d]
      BY <1>1, <3>1 DEF Step, BeginLeased, BeginOpen, Read, Reconcile, Answer, Due, Pick, NothingLeft,
         StepFails, GiveUp, Close, Crash, Drop, DropAll, Load, Goto, locals
    <3>3. CASE StepFails(c) \/ Crash(c) \/ Close(c)
      <4>1. pc'[c] \notin {"running", "receipt"}
        BY <1>1, <3>3 DEF StepFails, GiveUp, Crash, Close, Goto
      <4> QED BY <3>2, <4>1
    <3>4. CASE BeginLeased(c) \/ BeginOpen(c) \/ Read(c) \/ Reconcile(c) \/ Answer(c)
      <4>1. pc'[c] \notin {"running", "receipt"}
        BY <1>1, <3>4 DEF BeginLeased, BeginOpen, Read, Reconcile, Answer, Goto
      <4> QED BY <3>2, <4>1
    <3>5. CASE Due(c) \/ Pick(c) \/ NothingLeft(c)
      <4>1. pc'[c] \notin {"running", "receipt"}
        BY <1>1, <3>5 DEF Due, Pick, NothingLeft, Goto
      <4> QED BY <3>2, <4>1
    <3> QED BY <3>1, <3>3, <3>4, <3>5 DEF Step
  <2>3. CASE Tick \/ UNCHANGED vars
    BY <1>1, <2>3 DEF Tick, vars, locals
  <2> QED BY <2>1, <2>2, <2>3 DEF Next, Step
<1> QED BY <1>1, <1>2, <1>3, <1>4 DEF Running, Known

\* The invariant holds.
LEMMA RoutineInvStep == RoutineInv /\ [Next]_vars => RoutineInv'
BY PlacedStep, ListedStep, HeldStep, DataStep, RunningStep DEF RoutineInv

LEMMA RoutineInvHolds == Spec => []RoutineInv
BY RoutineInvInit, RoutineInvStep, PTL DEF Spec

\* For any routines, calls, length of the day and number of crashes and failures, the
\* stored next run is the first time after the last change of the routine at which its
\* schedule falls due (internal/routines/schedule.go, NextRun).
THEOREM RoutineNextRunExact == Spec => []NextRunExact
<1>1. RoutineInv => NextRunExact
  BY DEF RoutineInv, Data, Sound, NextRunExact
<1> QED BY <1>1, RoutineInvHolds, PTL

\* The variables keep their types, and no error path leaves the lease behind
\* (internal/app/fabric.go, withFabricLease).
LEMMA RoutineTypes == RoutineInv => TypeOK
<1> SUFFICES ASSUME RoutineInv
             PROVE  TypeOK
  OBVIOUS
<1>1. now \in Nat /\ now <= MaxTime /\ MaxTime \in Nat /\ now \in Start .. MaxTime
  BY RoutineAssumption DEF RoutineInv, Data
<1>2. receipts \subseteq [routine : Id, finished : 1 .. MaxTime]
  BY <1>1 DEF RoutineInv, Data
<1>3. (store # NoFile => IsMap(store, Id, Routine)) /\ \A c \in Call : IsMap(loaded[c], Id, Routine)
  BY DEF RoutineInv, Data, Sound
<1> QED BY <1>1, <1>2, <1>3 DEF TypeOK, RoutineInv, Placed, Listed, Held, Data, Labels

\* The variables of routines keep their types, and no error path leaves the lease behind
\* (internal/app/fabric.go, withFabricLease).
THEOREM RoutineTypeCorrect == Spec => []TypeOK
BY RoutineInvHolds, RoutineTypes, PTL

-----------------------------------------------------------------------------
(* Receipts: what the Keep newest say, and what a load makes of them.       *)

\* A receipt as late as one of the Keep newest is one of them.
LEMMA NewestUp ==
  ASSUME NEW t \in Nat, NEW R \in SUBSET [routine : Id, finished : 1 .. t], IsFiniteSet(R),
         NEW p \in Newest(R), NEW q \in R, p.finished <= q.finished
  PROVE  q \in Newest(R)
<1> DEFINE After(r) == {s \in R : s.finished > r.finished}
<1>1. After(q) \subseteq After(p) /\ After(p) \subseteq R
  <2>1. \A s \in R : s.finished \in Nat
    OBVIOUS
  <2>2. p \in R
    BY DEF Newest
  <2> QED BY <2>1, <2>2
<1>2. IsFiniteSet(After(p)) /\ IsFiniteSet(After(q))
  BY <1>1, FS_Subset
<1>3. Cardinality(After(q)) <= Cardinality(After(p)) /\ Cardinality(After(p)) \in Nat /\ Cardinality(After(q)) \in Nat
  BY <1>1, <1>2, FS_Subset, FS_CardinalityType
<1>4. Cardinality(After(p)) < Keep
  BY DEF Newest
<1>5. Cardinality(After(q)) < Keep
  BY <1>3, <1>4, RoutineAssumption
<1> QED BY <1>5 DEF Newest

\* The Keep newest of the Keep newest are all of them.
LEMMA NewestAgain ==
  ASSUME NEW t \in Nat, NEW R \in SUBSET [routine : Id, finished : 1 .. t], IsFiniteSet(R)
  PROVE  Newest(Newest(R)) = Newest(R)
<1>1. ASSUME NEW r \in Newest(R)
      PROVE  {s \in Newest(R) : s.finished > r.finished} = {s \in R : s.finished > r.finished}
  <2>1. r \in R /\ Newest(R) \subseteq R /\ \A s \in R : s.finished \in Nat
    BY DEF Newest
  <2>2. ASSUME NEW s \in R, s.finished > r.finished
        PROVE  s \in Newest(R)
    <3>1. r.finished <= s.finished
      BY <2>1, <2>2
    <3> QED BY <3>1, NewestUp
  <2> QED BY <2>1, <2>2
<1>2. ASSUME NEW r \in Newest(R)
      PROVE  Cardinality({s \in Newest(R) : s.finished > r.finished}) < Keep
  <2>1. Cardinality({s \in R : s.finished > r.finished}) < Keep
    BY DEF Newest
  <2> QED BY <1>1, <2>1
<1> QED BY <1>2 DEF Newest

\* The last run on record is the latest of the Keep newest receipts of the routine.
LEMMA LastFinishMax ==
  ASSUME NEW id \in Id, NEW t \in Nat, NEW R \in SUBSET [routine : Id, finished : 1 .. t]
  PROVE  /\ LastFinish(id, R) \in 0 .. t
         /\ \A r \in Newest(R) : r.routine = id => r.finished <= LastFinish(id, R)
         /\ \/ LastFinish(id, R) = Never
            \/ \E r \in Newest(R) : r.routine = id /\ r.finished = LastFinish(id, R)
<1> DEFINE times == {r.finished : r \in {s \in Newest(R) : s.routine = id}} \cup {Never}
<1>1. times \in SUBSET (0 .. t) /\ times # {}
  <2>1. Newest(R) \subseteq R
    BY DEF Newest
  <2>2. \A r \in R : r.finished \in 0 .. t
    OBVIOUS
  <2> QED BY <2>1, <2>2 DEF Never
<1>2. \A r \in Newest(R) : r.routine = id => r.finished \in times
  OBVIOUS
<1>3. \A u \in times : u = Never \/ \E r \in Newest(R) : r.routine = id /\ r.finished = u
  OBVIOUS
<1>4. LastFinish(id, R) = CHOOSE v \in times : \A u \in times : u <= v
  BY DEF LastFinish, times
<1> HIDE DEF times
<1>5. \E v \in times : \A u \in times : u <= v
  <2>1. times \in SUBSET Nat /\ \A v \in times : v <= t
    BY <1>1
  <2> QED BY <1>1, <2>1, Latest
<1>6. LastFinish(id, R) \in times /\ \A u \in times : u <= LastFinish(id, R)
  BY <1>4, <1>5
<1> QED BY <1>1, <1>2, <1>3, <1>6

\* It is what the properties of a maximum say.
LEMMA LastFinishUnique ==
  ASSUME NEW id \in Id, NEW t \in Nat, NEW R \in SUBSET [routine : Id, finished : 1 .. t],
         NEW x \in Nat, \A r \in Newest(R) : r.routine = id => r.finished <= x,
         x = Never \/ \E r \in Newest(R) : r.routine = id /\ r.finished = x
  PROVE  LastFinish(id, R) = x
<1>1. PICK y : y = LastFinish(id, R)
  OBVIOUS
<1>2. /\ y \in 0 .. t
      /\ \A r \in Newest(R) : r.routine = id => r.finished <= y
      /\ y = Never \/ \E r \in Newest(R) : r.routine = id /\ r.finished = y
  BY <1>1, LastFinishMax
<1>3. y <= x
  BY <1>2 DEF Never
<1>4. x <= y
  BY <1>2 DEF Never
<1>5. y = x
  BY <1>2, <1>3, <1>4
<1> QED BY <1>1, <1>5

\* More receipts, none of them of this routine: its last run stays the last, unless it
\* is pushed out of the Keep newest.
LEMMA LastFinishKept ==
  ASSUME NEW j \in Id, NEW t \in Nat, NEW R \in SUBSET [routine : Id, finished : 1 .. t],
         NEW S \in SUBSET [routine : Id, finished : 1 .. t], IsFiniteSet(S), R \subseteq S,
         \A r \in Newest(S) : r.routine = j => r \in Newest(R)
  PROVE  \/ LastFinish(j, S) = LastFinish(j, R)
         \/ /\ LastFinish(j, S) = Never
            /\ \E r \in Newest(R) \ Newest(S) : r.routine = j /\ r.finished = LastFinish(j, R)
<1>1. PICK x \in Nat : /\ x = LastFinish(j, R)
                       /\ \A r \in Newest(R) : r.routine = j => r.finished <= x
                       /\ x = Never \/ \E r \in Newest(R) : r.routine = j /\ r.finished = x
  <2>1. LastFinish(j, R) \in Nat
    BY LastFinishMax
  <2> QED BY <2>1, LastFinishMax
<1>2. \A r \in Newest(S) : r.routine = j => r.finished <= x
  BY <1>1
<1>3. CASE x = Never \/ \E r \in Newest(S) : r.routine = j /\ r.finished = x
  <2>1. LastFinish(j, S) = x
    BY <1>2, <1>3, LastFinishUnique
  <2> QED BY <1>1, <2>1
<1>4. CASE x # Never /\ ~\E r \in Newest(S) : r.routine = j /\ r.finished = x
  <2>1. PICK r \in Newest(R) : r.routine = j /\ r.finished = x
    BY <1>1, <1>4
  <2>2. r \notin Newest(S)
    BY <1>4, <2>1
  <2>3. \A s \in Newest(S) : s.routine # j
    <3>1. SUFFICES ASSUME NEW s \in Newest(S), s.routine = j
                   PROVE  FALSE
      OBVIOUS
    <3>2. s.finished <= r.finished /\ r \in S
      BY <1>2, <2>1, <3>1 DEF Newest
    <3> QED BY <2>2, <3>2, NewestUp
  <2>4. LastFinish(j, S) = Never
    BY <2>3, LastFinishUnique DEF Never
  <2> QED BY <1>1, <2>1, <2>2, <2>4
<1> QED BY <1>3, <1>4

\* The receipts with one more.
With(R, id, new) == R \cup {[routine |-> id, finished |-> new]}

\* A new receipt that is later than all others is the last run of its routine; those
\* of other routines stay, unless they are pushed out of the Keep newest.
LEMMA LastFinishAfter ==
  ASSUME NEW t \in Nat, NEW R \in SUBSET [routine : Id, finished : 1 .. t], IsFiniteSet(R),
         NEW id \in Id, NEW new \in 1 .. t, \A r \in R : r.finished < new,
         NEW S, S = With(R, id, new)
  PROVE  /\ LastFinish(id, S) = new
         /\ \A j \in Id \ {id} :
               \/ LastFinish(j, S) = LastFinish(j, R)
               \/ /\ LastFinish(j, S) = Never
                  /\ \E r \in Newest(R) \ Newest(S) : r.routine = j /\ r.finished = LastFinish(j, R)
<1> DEFINE latest == [routine |-> id, finished |-> new]
<1>0. S = R \cup {latest}
  BY DEF With
<1>1. /\ S \in SUBSET [routine : Id, finished : 1 .. t] /\ IsFiniteSet(S)
      /\ \A r \in S : r.finished \in Nat /\ r.finished <= new
  <2>1. IsFiniteSet(S)
    <3> HIDE DEF latest
    <3> QED BY <1>0, FS_AddElement
  <2> QED BY <1>0, <2>1
<1>2. latest \in Newest(S)
  <2>1. {s \in S : s.finished > latest.finished} = {}
    BY <1>0, <1>1
  <2>2. Cardinality({}) < Keep
    BY FS_EmptySet, RoutineAssumption
  <2> HIDE DEF latest
  <2> QED BY <1>0, <2>1, <2>2 DEF Newest
<1>3. \A r \in Newest(S) : r = latest \/ r \in Newest(R)
  <2>1. SUFFICES ASSUME NEW r \in Newest(S), r # latest
                 PROVE  r \in Newest(R)
    OBVIOUS
  <2> DEFINE A == {s \in R : s.finished > r.finished}
             B == {s \in S : s.finished > r.finished}
  <2>2. r \in R /\ A \subseteq B /\ B \subseteq S
    BY <1>0, <2>1 DEF Newest
  <2>3. IsFiniteSet(B) /\ IsFiniteSet(A) /\ Cardinality(A) <= Cardinality(B)
    BY <1>1, <2>2, FS_Subset
  <2>4. Cardinality(A) \in Nat /\ Cardinality(B) \in Nat
    BY <2>3, FS_CardinalityType
  <2>5. Cardinality(B) < Keep
    BY DEF Newest
  <2>6. Cardinality(A) < Keep
    BY <2>3, <2>4, <2>5, RoutineAssumption
  <2> QED BY <2>2, <2>6 DEF Newest
<1>4. LastFinish(id, S) = new
  <2>1. \A r \in Newest(S) : r.finished <= new
    BY <1>1 DEF Newest
  <2>2. latest.routine = id /\ latest.finished = new /\ new \in Nat
    OBVIOUS
  <2> HIDE DEF latest
  <2>3. \E r \in Newest(S) : r.routine = id /\ r.finished = new
    BY <1>2, <2>2
  <2> QED BY <1>1, <2>1, <2>2, <2>3, LastFinishUnique
<1>5. ASSUME NEW j \in Id \ {id}
      PROVE  \/ LastFinish(j, S) = LastFinish(j, R)
             \/ /\ LastFinish(j, S) = Never
                /\ \E r \in Newest(R) \ Newest(S) : r.routine = j /\ r.finished = LastFinish(j, R)
  <2>1. latest.routine # j
    OBVIOUS
  <2>2. \A r \in Newest(S) : r.routine = j => r \in Newest(R)
    BY <1>3, <2>1
  <2>3. R \subseteq S
    BY <1>0
  <2> HIDE DEF latest
  <2> QED BY <1>1, <2>2, <2>3, LastFinishKept
<1> QED BY <1>4, <1>5

\* What a finished run leaves of a routine does not depend on when it ran before.
LEMMA AfterRunFields ==
  ASSUME NEW r \in Routine, NEW t \in Nat
  PROVE  LET u == AfterRun(r, t)
         IN  u.schedule = r.schedule /\ u.enabled = r.enabled /\ u.last = t /\ u.updated = t
  BY DEF AfterRun, Scheduled, Routine

LEMMA AfterRunSame ==
  ASSUME NEW r \in Routine, NEW s \in Routine, r.schedule = s.schedule, r.enabled = s.enabled, NEW t \in Nat
  PROVE  AfterRun(r, t) = AfterRun(s, t)
<1>1. PICK x : x = [r EXCEPT !.last = t]
  OBVIOUS
<1>2. PICK y : y = [s EXCEPT !.last = t]
  OBVIOUS
<1>3. /\ x \in Routine /\ y \in Routine
      /\ x.schedule = y.schedule /\ x.enabled = y.enabled /\ x.last = t /\ y.last = t
  BY <1>1, <1>2 DEF Routine
<1>4. NextFor(x, t) = NextFor(y, t)
  BY <1>3 DEF NextFor
<1>5. Scheduled(x, t) = Scheduled(y, t)
  BY <1>3, <1>4 DEF Scheduled, Routine
<1> QED BY <1>1, <1>2, <1>5 DEF AfterRun

\* What a reconciled map has for a routine.
LEMMA ReconciledEntry ==
  ASSUME NEW t \in Nat, NEW m, Sound(m, t), NEW R \in SUBSET [routine : Id, finished : 1 .. t], NEW id \in DOMAIN m
  PROVE  LET x == LastFinish(id, R)
             n == Reconciled(m, R)
         IN  /\ id \in Id /\ id \in DOMAIN n /\ m[id] \in Routine /\ n[id] \in Routine /\ x \in 0 .. t
             /\ x > m[id].last => n[id] = AfterRun(m[id], x)
             /\ x <= m[id].last => n[id] = m[id]
             /\ n[id].schedule = m[id].schedule /\ n[id].enabled = m[id].enabled
             /\ m[id].last <= n[id].last /\ x <= n[id].last
             /\ n[id].last = m[id].last \/ n[id].last = x
<1> DEFINE n == Reconciled(m, R)
<1>1. PICK x : x = LastFinish(id, R)
  OBVIOUS
<1>2. id \in Id /\ m[id] \in Routine /\ m[id].last \in Nat
  BY Schedules DEF Sound, IsMap
<1>3. x \in 0 .. t
  BY <1>1, <1>2, LastFinishIn
<1>4. id \in DOMAIN n /\ n[id] = IF x > m[id].last THEN AfterRun(m[id], x) ELSE m[id]
  BY <1>1 DEF Reconciled
<1> HIDE DEF n
<1>5. CASE x > m[id].last
  <2>1. n[id] = AfterRun(m[id], x) /\ x \in Nat
    BY <1>3, <1>4, <1>5
  <2>2. /\ n[id] \in Routine /\ n[id].last = x
        /\ n[id].schedule = m[id].schedule /\ n[id].enabled = m[id].enabled
    BY <1>2, <2>1, AfterRunSound, AfterRunFields
  <2> QED BY <1>1, <1>2, <1>3, <1>4, <1>5, <2>1, <2>2 DEF n
<1>6. CASE ~(x > m[id].last)
  BY <1>1, <1>2, <1>3, <1>4, <1>6 DEF n
<1> QED BY <1>5, <1>6

\* A reconciled map needs no reconciliation.
LEMMA ReconciledAgain ==
  ASSUME NEW t \in Nat, NEW m, Sound(m, t), NEW R \in SUBSET [routine : Id, finished : 1 .. t]
  PROVE  Reconciled(Reconciled(m, R), R) = Reconciled(m, R)
<1> DEFINE n == Reconciled(m, R)
<1>1. Sound(n, t) /\ DOMAIN n = DOMAIN m /\ n = [id \in DOMAIN n |-> n[id]]
  BY ReconciledSound DEF Reconciled
<1>2. ASSUME NEW id \in DOMAIN n
      PROVE  LastFinish(id, R) <= n[id].last /\ n[id].last \in Nat
  BY <1>1, <1>2, ReconciledEntry, Schedules
<1> HIDE DEF n
<1>3. ASSUME NEW id \in DOMAIN n
      PROVE  Reconciled(n, R)[id] = n[id]
  BY <1>1, <1>2, ReconciledEntry
<1>4. Reconciled(n, R) = [id \in DOMAIN n |-> Reconciled(n, R)[id]]
  BY DEF Reconciled
<1> QED BY <1>1, <1>3, <1>4 DEF n

\* Pruning keeps the receipts that count.
LEMMA ReconciledPruned ==
  ASSUME NEW t \in Nat, NEW R \in SUBSET [routine : Id, finished : 1 .. t], IsFiniteSet(R), NEW m
  PROVE  /\ \A id : LastFinish(id, Newest(R)) = LastFinish(id, R)
         /\ Reconciled(m, Newest(R)) = Reconciled(m, R)
<1>1. Newest(Newest(R)) = Newest(R)
  BY NewestAgain
<1>2. \A id : LastFinish(id, Newest(R)) = LastFinish(id, R)
  BY <1>1 DEF LastFinish
<1> QED BY <1>2 DEF Reconciled

\* A receipt later than all others is a run of its routine, in a map that has seen
\* the receipts it pushes out.
LEMMA ReconciledAfter ==
  ASSUME NEW t \in Nat, NEW R \in SUBSET [routine : Id, finished : 1 .. t], IsFiniteSet(R),
         NEW id \in Id, NEW new \in 1 .. t, \A r \in R : r.finished < new,
         NEW S, S = With(R, id, new),
         NEW m, Sound(m, t), id \in DOMAIN m => m[id].last < new,
         \A r \in Newest(R) \ Newest(S) : r.routine \in DOMAIN m => m[r.routine].last >= r.finished
  PROVE  Reconciled(m, S) = [Reconciled(m, R) EXCEPT ![id] = AfterRun(Reconciled(m, R)[id], new)]
<1> DEFINE n == Reconciled(m, R)
           after == Reconciled(m, S)
<1>1. /\ after = [j \in DOMAIN m |-> after[j]] /\ n = [j \in DOMAIN m |-> n[j]]
      /\ DOMAIN n = DOMAIN m /\ DOMAIN m \subseteq Id
  BY DEF Reconciled, Sound, IsMap
<1>2. /\ LastFinish(id, S) = new
      /\ \A j \in Id \ {id} :
            \/ LastFinish(j, S) = LastFinish(j, R)
            \/ /\ LastFinish(j, S) = Never
               /\ \E r \in Newest(R) \ Newest(S) : r.routine = j /\ r.finished = LastFinish(j, R)
  <2> HIDE DEF n, after
  <2> QED BY LastFinishAfter
<1>3. S \in SUBSET [routine : Id, finished : 1 .. t] /\ new \in Nat
  BY DEF With
<1>4. ASSUME id \in DOMAIN m
      PROVE  after[id] = AfterRun(n[id], new)
  <2>1. after[id] = AfterRun(m[id], new)
    BY <1>2, <1>3, <1>4, ReconciledEntry
  <2>0. id \in DOMAIN m
    BY <1>4
  <2>2. n[id] \in Routine /\ m[id] \in Routine /\ n[id].schedule = m[id].schedule /\ n[id].enabled = m[id].enabled
    BY <2>0, ReconciledEntry
  <2> HIDE DEF n, after
  <2>3. AfterRun(n[id], new) = AfterRun(m[id], new)
    BY <1>3, <2>2, AfterRunSame
  <2> QED BY <2>1, <2>3
<1>5. ASSUME NEW j \in DOMAIN m, j # id
      PROVE  after[j] = n[j]
  <2>1. after[j] = IF LastFinish(j, S) > m[j].last THEN AfterRun(m[j], LastFinish(j, S)) ELSE m[j]
    BY DEF Reconciled
  <2>2. n[j] = IF LastFinish(j, R) > m[j].last THEN AfterRun(m[j], LastFinish(j, R)) ELSE m[j]
    BY DEF Reconciled
  <2> HIDE DEF n, after
  <2>3. CASE LastFinish(j, S) = LastFinish(j, R)
    BY <2>1, <2>2, <2>3
  <2>4. CASE LastFinish(j, S) = Never /\ LastFinish(j, R) <= m[j].last
    <3>1. m[j].last \in Nat /\ LastFinish(j, R) \in Nat
      BY <1>1, LastFinishIn, Schedules DEF Sound, IsMap
    <3> QED BY <2>1, <2>2, <2>4, <3>1 DEF Never
  <2>5. LastFinish(j, S) = LastFinish(j, R) \/ (LastFinish(j, S) = Never /\ LastFinish(j, R) <= m[j].last)
    <3>1. SUFFICES ASSUME LastFinish(j, S) # LastFinish(j, R)
                   PROVE  LastFinish(j, S) = Never /\ LastFinish(j, R) <= m[j].last
      OBVIOUS
    <3>2. j \in Id \ {id}
      BY <1>1, <1>5
    <3>3. PICK r \in Newest(R) \ Newest(S) : r.routine = j /\ r.finished = LastFinish(j, R)
      BY <1>2, <3>1, <3>2
    <3>4. m[j].last >= r.finished
      BY <3>3
    <3>5. m[j].last \in Nat /\ LastFinish(j, R) \in Nat
      BY <1>1, LastFinishIn, Schedules DEF Sound, IsMap
    <3> QED BY <1>2, <3>1, <3>2, <3>3, <3>4, <3>5
  <2> QED BY <2>3, <2>4, <2>5
<1> HIDE DEF n, after
<1>6. after = [n EXCEPT ![id] = AfterRun(n[id], new)]
  BY <1>1, <1>4, <1>5
<1> QED BY <1>6 DEF n, after

-----------------------------------------------------------------------------
(* Who is under way with whom.                                              *)

\* Calls that disturb each other do not meet.
Apart == \A c, d \in Call : c # d /\ Live(c) /\ Live(d) => ~Disturbs(c, d)

\* A call works on a routine with the lease in hand, and knows nothing before it reads.
Leases == \A c \in Call :
    /\ target[c] # NoId => holder = c
    /\ pc[c] \in {"running", "receipt", "save", "prune", "close"} => target[c] # NoId
    /\ pc[c] \in {"idle", "read", "next", "done"} => loaded[c] = Empty

\* A step of a call is its own.
LEMMA OthersKept ==
  ASSUME RoutineInv, Leases, NEW c \in Call, Step(c), NEW d \in Call \ {c}
  PROVE  /\ pc'[d] = pc[d] /\ loaded'[d] = loaded[d] /\ target'[d] = target[d]
         /\ due'[d] = due[d] /\ slot'[d] = slot[d]
         /\ holder' = holder \/ holder = c \/ holder = NoCall
<1>1. /\ pc \in [Call -> Labels] /\ target \in [Call -> Id \cup {NoId}] /\ slot \in [Call -> 0 .. MaxTime]
      /\ loaded = [e \in Call |-> loaded[e]] /\ due = [e \in Call |-> due[e]]
  BY DEF RoutineInv, Placed, Listed, Data
<1> USE DEF Goto, Load, Drop, DropAll, GiveUp, locals
<1>2. CASE BeginLeased(c) \/ BeginOpen(c) \/ Read(c) \/ Reconcile(c)
  BY <1>1, <1>2 DEF BeginLeased, BeginOpen, Read, Reconcile
<1>3. CASE Answer(c) \/ Due(c) \/ NothingLeft(c) \/ StartRun(c)
  BY <1>1, <1>3 DEF Answer, Due, NothingLeft, StartRun
<1>4. CASE Pick(c)
  <2>1. PICK id : /\ due' = [due EXCEPT ![c] = [i \in DOMAIN due[c] \ {id} |-> due[c][i]]]
                  /\ IF holder = NoCall
                     THEN /\ holder' = c /\ Goto(c, "read")
                          /\ target' = [target EXCEPT ![c] = id]
                          /\ slot' = [slot EXCEPT ![c] = due[c][id]]
                     ELSE UNCHANGED <<holder, pc, target, slot>>
    BY <1>4 DEF Pick
  <2>2. loaded' = loaded
    BY <1>4 DEF Pick
  <2> QED BY <1>1, <2>1, <2>2
<1>5. CASE Finish(c)
  <2>1. \E m : loaded' = [loaded EXCEPT ![c] = m]
    BY <1>5 DEF Finish
  <2>2. pc' = [pc EXCEPT ![c] = "receipt"] /\ UNCHANGED <<holder, target, due, slot>>
    BY <1>5 DEF Finish
  <2> QED BY <1>1, <2>1, <2>2
<1>6. CASE Write(c)
  <2>1. \E label : pc' = [pc EXCEPT ![c] = label]
    BY <1>6 DEF Write, Continue
  <2>2. UNCHANGED <<holder, loaded, target, due, slot>>
    BY <1>6 DEF Write
  <2> QED BY <1>1, <2>1, <2>2
<1>7. CASE StepFails(c)
  BY <1>1, <1>7 DEF StepFails
<1>8. CASE Close(c)
  BY <1>1, <1>8 DEF Close, Leases
<1>9. CASE Crash(c)
  BY <1>1, <1>9 DEF Crash
<1> QED BY <1>2, <1>3, <1>4, <1>5, <1>6, <1>7, <1>8, <1>9 DEF Step

\* Calls that disturb each other do not begin together.
LEMMA ApartStep ==
  ASSUME ~Overlap, RoutineInv, Apart, Leases, [Next]_vars
  PROVE  Apart'
<1>1. CASE Tick \/ UNCHANGED vars
  BY <1>1 DEF Tick, vars, Apart, Live, Disturbs
<1>2. ASSUME NEW c \in Call, Step(c)
      PROVE  Apart'
  <2>1. \A d \in Call \ {c} : pc'[d] = pc[d]
    BY <1>2, OthersKept
  <2>2. Live(c)' => Live(c) \/ MayBegin(c)
    <3>1. SUFFICES ASSUME ~Live(c), ~MayBegin(c)
                   PROVE  ~Live(c)'
      OBVIOUS
    <3>2. pc[c] \in {"idle", "done"} /\ pc \in [Call -> Labels]
      BY <3>1 DEF Live, RoutineInv, Placed
    <3>3. FALSE
      BY <1>2, <3>1, <3>2 DEF Step, BeginLeased, BeginOpen, Read, Reconcile, Answer, Due, Pick, NothingLeft,
         StartRun, IsRun, Finish, Write, StepFails, Effect, Repair, Put, Delete, WriteReceipt, SaveRun, Prune,
         Close, Crash, Live
    <3> QED BY <3>3
  <2>3. MayBegin(c) => \A d \in Call \ {c} : Live(d) => ~Disturbs(c, d) /\ ~Disturbs(d, c)
    BY DEF MayBegin
  <2>4. \A d, e \in Call : Disturbs(d, e)' <=> Disturbs(d, e)
    BY DEF Disturbs
  <2>5. \A d \in Call \ {c} : Live(d)' <=> Live(d)
    BY <2>1 DEF Live
  <2> QED BY <2>2, <2>3, <2>4, <2>5 DEF Apart
<1> QED BY <1>1, <1>2 DEF Next

\* The lease goes with the routine.
LEMMA LeasesStep ==
  ASSUME RoutineInv, Leases, [Next]_vars
  PROVE  Leases'
<1>1. CASE Tick \/ UNCHANGED vars
  BY <1>1 DEF Tick, vars, locals, Leases
<1>2. ASSUME NEW c \in Call, Step(c)
      PROVE  Leases'
  <2> DEFINE Good(d) ==
        /\ target[d] # NoId => holder = d
        /\ pc[d] \in {"running", "receipt", "save", "prune", "close"} => target[d] # NoId
        /\ pc[d] \in {"idle", "read", "next", "done"} => loaded[d] = Empty
  <2>1. /\ pc \in [Call -> Labels] /\ target \in [Call -> Id \cup {NoId}]
        /\ loaded = [e \in Call |-> loaded[e]] /\ Good(c) /\ NoCall \notin Call /\ holder \in Call \cup {NoCall}
        /\ holder # NoCall =>
              Live(holder) /\ pc[holder] # "next" /\ target[holder] # NoId /\ KindOf[holder] # "list"
        /\ KindOf[c] \in {"put", "delete", "run"} /\ Live(c) => target[c] \in Id
        /\ KindOf[c] \in {"put", "delete", "run", "list", "runDue"} /\ NoId \notin Id
    BY CallAssumption, RoutineAssumption DEF RoutineInv, Placed, Data, Held, Leases
  <2>2. ASSUME NEW d \in Call \ {c}
        PROVE  Good(d)'
    <3>1. /\ pc'[d] = pc[d] /\ loaded'[d] = loaded[d] /\ target'[d] = target[d]
          /\ holder' = holder \/ holder = c \/ holder = NoCall
      BY <1>2, OthersKept
    <3> QED BY <2>1, <3>1 DEF Leases
  <2> USE DEF Goto, Load, Drop, DropAll, GiveUp, locals, Live
  <2>3. ASSUME BeginLeased(c) \/ BeginOpen(c)
      PROVE  Good(c)'
    BY <2>1, <2>3 DEF BeginLeased, BeginOpen, MayBegin
  <2>4. ASSUME Read(c) \/ Reconcile(c)
      PROVE  Good(c)'
    BY <2>1, <2>4 DEF Read, Reconcile
  <2>5. ASSUME Answer(c) \/ Due(c) \/ NothingLeft(c) \/ StartRun(c)
      PROVE  Good(c)'
    BY <2>1, <2>5 DEF Answer, Due, NothingLeft, StartRun, IsRun
  <2>6. ASSUME Pick(c)
      PROVE  Good(c)'
    <3>1. PICK id : IF holder = NoCall
                    THEN /\ holder' = c /\ Goto(c, "read")
                         /\ target' = [target EXCEPT ![c] = id]
                    ELSE UNCHANGED <<holder, pc, target>>
      BY <2>6 DEF Pick
    <3>2. loaded' = loaded /\ pc[c] = "next"
      BY <2>6 DEF Pick
    <3> QED BY <2>1, <3>1, <3>2
  <2>7. ASSUME Finish(c)
      PROVE  Good(c)'
    <3>1. pc[c] = "running" /\ pc' = [pc EXCEPT ![c] = "receipt"] /\ UNCHANGED <<holder, target>>
      BY <2>7 DEF Finish
    <3> QED BY <2>1, <3>1
  <2>8. ASSUME Write(c)
      PROVE  Good(c)'
    <3>1. /\ \/ pc[c] \in {"repair", "receipt", "save", "prune"}
             \/ pc[c] = "decide" /\ KindOf[c] \in {"put", "delete"}
          /\ UNCHANGED <<holder, target, loaded>>
      BY <2>8 DEF Write, Effect, Repair, Put, Delete, WriteReceipt, SaveRun, Prune
    <3>2. pc' = [pc EXCEPT ![c] = CASE pc[c] = "repair" -> "decide"
                                    [] pc[c] = "receipt" -> "save"
                                    [] pc[c] = "save" -> "prune"
                                    [] OTHER -> "close"]
      BY <2>8 DEF Write, Continue
    <3> QED BY <2>1, <3>1, <3>2
  <2>9. ASSUME StepFails(c)
      PROVE  Good(c)'
    <3>1. /\ pc[c] \in {"read", "reconcile", "repair", "decide", "receipt", "save", "prune"}
          /\ UNCHANGED <<holder>> /\ GiveUp(c)
      BY <2>9 DEF StepFails, Effect, Repair, Put, Delete, WriteReceipt, SaveRun, Prune
    <3> QED BY <2>1, <3>1
  <2>10. ASSUME Close(c)
       PROVE  Good(c)'
    BY <2>1, <2>10 DEF Close
  <2>11. ASSUME Crash(c)
       PROVE  Good(c)'
    BY <2>1, <2>11 DEF Crash
  <2>12. Good(c)'
    BY <1>2, <2>3, <2>4, <2>5, <2>6, <2>7, <2>8, <2>9, <2>10, <2>11 DEF Step
  <2> QED BY <2>2, <2>12 DEF Leases
<1> QED BY <1>1, <1>2 DEF Next

\* Of two calls under way one is a listing.
LEMMA Alone ==
  ASSUME RoutineInv, Apart, Leases, NEW c \in Call, NEW d \in Call, c # d, Live(c), Live(d), KindOf[c] # "list"
  PROVE  KindOf[d] = "list" /\ KindOf[c] \in {"run", "runDue"}
<1>1. /\ KindOf[c] \in {"put", "delete", "run", "runDue"} /\ KindOf[d] \in {"put", "delete", "run", "list", "runDue"}
      /\ ~Disturbs(c, d) /\ ~Disturbs(d, c)
  BY CallAssumption DEF Apart
<1>2. ~(KindOf[c] \in {"put", "delete", "run"} /\ KindOf[d] \in {"put", "delete", "run"})
  BY RoutineAssumption DEF RoutineInv, Held, Leases
<1> QED BY <1>1, <1>2 DEF Disturbs

-----------------------------------------------------------------------------
(* The book of routines.                                                    *)

\* The receipts are those of the last runs, and no routine changed before its last run.
Receipted ==
    /\ IsFiniteSet(receipts)
    /\ \A id \in Id : LastFinish(id, receipts) \in {Never, ran[id]} /\ ran[id] <= now
    /\ \A id \in DOMAIN Book : ran[id] <= Book[id].updated

\* What a call that has read the store knows: the book, once the receipts have been
\* looked at, or the book after the run it is about to write down.
Knows(c) ==
    /\ pc[c] \in {"reconcile", "repair"} =>
          store # NoFile /\ Reconciled(loaded[c], receipts) = Book
    /\ pc[c] \in {"repair", "decide", "running", "save"} /\ KindOf[c] # "list" => loaded[c] = Book
    /\ pc[c] = "running" => Book[target[c]].enabled
    /\ pc[c] = "receipt" =>
          LET i == target[c]
              t == loaded[c][i].last
          IN  /\ i \in DOMAIN Book /\ Book[i].enabled
              /\ t > Book[i].last /\ t <= now /\ \A r \in receipts : r.finished < t
              /\ loaded[c] = [Book EXCEPT ![i] = AfterRun(Book[i], t)]

Current == \A c \in Call : Knows(c)

BookInv == RoutineInv /\ Apart /\ Leases /\ Receipted /\ Current

\* The store, and what every load under way has read, has seen this receipt.
CaughtUp(r) ==
    LET Has(m) == r.routine \in DOMAIN m => m[r.routine].last >= r.finished
    IN  /\ store # NoFile => Has(store)
        /\ \A c \in Call : pc[c] \in {"reconcile", "repair"} => Has(loaded[c])

\* A step pushes a receipt out of the Keep newest only when it has been seen.
Seen == \A r \in Newest(receipts) \ Newest(receipts') : CaughtUp(r)

\* The book is a sound map, and needs no reconciliation.
LEMMA BookSound ==
  ASSUME RoutineInv
  PROVE  /\ Sound(Book, now) /\ now \in Nat /\ receipts \in SUBSET [routine : Id, finished : 1 .. now]
         /\ Reconciled(Book, receipts) = Book /\ Book = [id \in DOMAIN Book |-> Book[id]]
         /\ \A id \in DOMAIN Book : id \in Id /\ Book[id] \in Routine
         /\ store # NoFile => Sound(store, now)
<1>1. now \in Nat /\ receipts \in SUBSET [routine : Id, finished : 1 .. now] /\ (store # NoFile => Sound(store, now))
  BY RoutineAssumption DEF RoutineInv, Data
<1>2. CASE store = NoFile
  <2>1. Book = Empty
    BY <1>2 DEF Book
  <2>2. Reconciled(Empty, receipts) = Empty /\ Empty = [id \in DOMAIN Empty |-> Empty[id]]
    BY DEF Reconciled, Empty
  <2> QED BY <1>1, <2>1, <2>2, EmptyIs DEF Sound, IsMap
<1>3. CASE store # NoFile
  <2>1. Book = Reconciled(store, receipts)
    BY <1>3 DEF Book
  <2>2. Sound(Book, now)
    BY <1>1, <1>3, <2>1, ReconciledSound
  <2>3. Reconciled(Book, receipts) = Book
    BY <1>1, <1>3, <2>1, ReconciledAgain
  <2>4. Book = [id \in DOMAIN Book |-> Book[id]]
    BY <2>1 DEF Reconciled
  <2> QED BY <1>1, <2>2, <2>3, <2>4 DEF Sound, IsMap
<1> QED BY <1>2, <1>3

\* A file that holds a map is a file.
LEMMA MapIsFile ==
  ASSUME NEW m, NEW t, Sound(m, t)
  PROVE  m # NoFile
<1>1. DOMAIN m \in SUBSET Id /\ m \in [DOMAIN m -> Routine]
  BY DEF Sound, IsMap
<1> QED BY <1>1, NoFileAssumption

\* A call that is beyond its loads knows the book.
LEMMA Knowing ==
  ASSUME BookInv, NEW c \in Call
  PROVE  /\ pc[c] = "repair" => Reconciled(loaded[c], receipts) = Book /\ store # NoFile
         /\ pc[c] \in {"running", "receipt", "save", "prune", "close"} =>
               holder = c /\ KindOf[c] # "list" /\ target[c] \in Id
         /\ pc[c] = "save" => loaded[c] = Book
         /\ pc[c] = "decide" /\ KindOf[c] # "list" => loaded[c] = Book
<1>1. pc[c] \in {"running", "receipt", "save", "prune", "close"} =>
         holder = c /\ KindOf[c] # "list" /\ target[c] \in Id
  BY RoutineAssumption DEF BookInv, Leases, RoutineInv, Held, Placed
<1> QED BY <1>1 DEF BookInv, Current, Knows

\* Repairs, saves and pruning leave the book as it is.
LEMMA BookKept ==
  ASSUME BookInv, NEW c \in Call, Repair(c) \/ SaveRun(c) \/ Prune(c)
  PROVE  /\ Book' = Book /\ ran' = ran /\ receipts' \subseteq receipts
         /\ store # NoFile => store' # NoFile
         /\ \A m : Reconciled(m, receipts') = Reconciled(m, receipts)
         /\ \A id : LastFinish(id, receipts') = LastFinish(id, receipts)
<1> DEFINE same == /\ receipts' \subseteq receipts
                   /\ \A m : Reconciled(m, receipts') = Reconciled(m, receipts)
                   /\ \A id : LastFinish(id, receipts') = LastFinish(id, receipts)
<1>1. /\ RoutineInv /\ receipts \in SUBSET [routine : Id, finished : 1 .. now] /\ now \in Nat
      /\ IsFiniteSet(receipts) /\ Reconciled(Book, receipts) = Book
  BY BookSound DEF BookInv, Receipted
<1>2. CASE Repair(c) \/ SaveRun(c)
  <2>1. store' = loaded[c] /\ receipts' = receipts /\ ran' = ran /\ pc[c] \in {"repair", "save"}
    BY <1>2 DEF Repair, SaveRun, WriteStore
  <2>2. Reconciled(loaded[c], receipts) = Book
    BY <1>1, <2>1, Knowing
  <2>3. store' # NoFile
    BY <1>1, <2>1, MapIsFile DEF RoutineInv, Data
  <2> QED BY <2>1, <2>2, <2>3 DEF Book
<1>3. CASE Prune(c)
  <2>1. receipts' = Newest(receipts) /\ store' = store /\ ran' = ran
    BY <1>3 DEF Prune
  <2>2. same
    BY <1>1, <2>1, ReconciledPruned DEF Newest
  <2> QED BY <2>1, <2>2 DEF Book
<1> QED BY <1>2, <1>3

\* The abstract book schedules as the code does.
LEMMA SameEntry ==
  ASSUME NEW d, NEW last, NEW t
  PROVE  RB!Entry(d, last, t) = Entry(d, last, t)
BY DEF RB!Entry, RB!Scheduled, RB!NextFor, RB!NextRun, RB!NextClock, RB!Midnight, RB!Workday, RB!Weekend, RB!Later, RB!Never,
       Entry, Scheduled, NextFor, NextRun, NextClock, Midnight, Workday, Weekend, Later, Never

LEMMA SameAfterRun ==
  ASSUME NEW r, NEW t
  PROVE  RB!AfterRun(r, t) = AfterRun(r, t)
BY DEF RB!AfterRun, RB!Scheduled, RB!NextFor, RB!NextRun, RB!NextClock, RB!Midnight, RB!Workday, RB!Weekend, RB!Later, RB!Never,
       AfterRun, Scheduled, NextFor, NextRun, NextClock, Midnight, Workday, Weekend, Later, Never

\* A definition, and one with leftover receipts.
LEMMA EntryFields ==
  ASSUME NEW d \in Definition, NEW t \in Nat, NEW u \in Nat
  PROVE  /\ Entry(d, Never, u).updated = u
         /\ AfterRun(Entry(d, Never, u), t) = Entry(d, t, t)
<1>1. PICK x : x = [enabled |-> d.enabled, schedule |-> d.schedule, last |-> Never, updated |-> u, next |-> Never]
  OBVIOUS
<1>2. PICK y : y = [enabled |-> d.enabled, schedule |-> d.schedule, last |-> t, updated |-> t, next |-> Never]
  OBVIOUS
<1>3. Entry(d, Never, u) = Scheduled(x, u) /\ Entry(d, t, t) = Scheduled(y, t)
  BY <1>1, <1>2 DEF Entry
<1>4. /\ x \in Routine /\ y \in Routine /\ x.last = Never
      /\ x.schedule = y.schedule /\ x.enabled = y.enabled /\ y.last = t
  BY <1>1, <1>2, RoutineAssumption DEF Routine, Never
<1>5. PICK z : z = Scheduled(x, u)
  OBVIOUS
<1>6. /\ z \in Routine /\ z.schedule = x.schedule /\ z.enabled = x.enabled /\ z.updated = u
  <2>1. z \in Routine
    BY <1>4, <1>5, ScheduledSound DEF Never
  <2>2. z.schedule = x.schedule /\ z.enabled = x.enabled /\ z.updated = u
    BY <1>4, <1>5 DEF Scheduled, Routine
  <2> QED BY <2>1, <2>2
<1>7. PICK w : w = [z EXCEPT !.last = t]
  OBVIOUS
<1>8. w \in Routine /\ w.schedule = y.schedule /\ w.enabled = y.enabled /\ w.last = t
  BY <1>4, <1>6, <1>7 DEF Routine
<1>9. NextFor(w, t) = NextFor(y, t)
  BY <1>4, <1>8 DEF NextFor
<1>10. Scheduled(w, t) = Scheduled(y, t)
  BY <1>4, <1>8, <1>9 DEF Scheduled, Routine
<1>11. AfterRun(z, t) = Scheduled(y, t)
  BY <1>7, <1>10 DEF AfterRun
<1> QED BY <1>3, <1>5, <1>6, <1>11

\* A put changes one routine of the book.
LEMMA BookPut ==
  ASSUME BookInv, NEW c \in Call, Put(c)
  PROVE  /\ ran' = ran /\ receipts' = receipts /\ target[c] \in Id
         /\ DOMAIN Book' = DOMAIN Book \cup {target[c]}
         /\ \A i \in DOMAIN Book : i # target[c] => Book'[i] = Book[i]
         /\ ran[target[c]] <= Book'[target[c]].updated
         /\ now' = now => RB!Put(target[c], DefinitionOf[c])
<1> DEFINE id == target[c]
           d == DefinitionOf[c]
           last == IF id \in DOMAIN Book THEN Book[id].last ELSE Never
           e == Entry(d, last, now)
           new == [i \in DOMAIN Book \cup {id} |-> IF i = id THEN e ELSE Book[i]]
           x == LastFinish(id, receipts)
<1>1. /\ Sound(Book, now) /\ now \in Nat /\ receipts \in SUBSET [routine : Id, finished : 1 .. now]
      /\ Reconciled(Book, receipts) = Book /\ RoutineInv
      /\ \A i \in DOMAIN Book : i \in Id /\ Book[i] \in Routine
  BY BookSound DEF BookInv
<1>2. loaded[c] = Book /\ id \in Id /\ d \in Definition
  <2>1. pc[c] = "decide" /\ KindOf[c] = "put"
    BY DEF Put
  <2>2. loaded[c] = Book
    BY <2>1, Knowing
  <2>3. id \in Id
    BY <1>1, <2>1 DEF RoutineInv, Held, Live
  <2> QED BY <2>2, <2>3, CallAssumption
<1>3. store' = new /\ receipts' = receipts /\ ran' = ran
  BY <1>2 DEF Put, WriteStore, Known
<1>4. last \in Nat /\ last <= now
  BY <1>1, Schedules DEF Sound, Never
<1>5. e \in Routine /\ e.last = last /\ Sound(new, now)
  <2>1. e \in Routine /\ Exact(e) /\ e.last = last
    BY <1>1, <1>2, <1>4, EntrySound
  <2> HIDE DEF last, e
  <2>2. \A i \in DOMAIN new : i \in Id /\ new[i] \in Routine /\ new[i].last <= now /\ Exact(new[i])
    BY <1>1, <1>2, <1>4, <2>1 DEF Sound
  <2>3. new \in [DOMAIN new -> Routine]
    BY <2>2
  <2> QED BY <2>1, <2>2, <2>3 DEF Sound, IsMap
<1>6. Book' = Reconciled(new, receipts)
  <2>1. new # NoFile
    BY <1>5, MapIsFile
  <2> QED BY <1>3, <2>1 DEF Book
<1>7. /\ DOMAIN Book' = DOMAIN Book \cup {id}
      /\ Book' = [i \in DOMAIN Book \cup {id} |-> Book'[i]]
      /\ Book'[id] = IF x > e.last THEN AfterRun(e, x) ELSE e
      /\ \A i \in DOMAIN Book : i # id => Book'[i] = Reconciled(Book, receipts)[i]
  BY <1>6 DEF Reconciled
<1>8. \A i \in DOMAIN Book : i # id => Book'[i] = Book[i]
  BY <1>1, <1>7
<1>9. x \in Nat /\ x \in {Never, ran[id]} /\ ran[id] <= now /\ ran[id] \in Nat
  <2>1. x \in Nat
    BY <1>1, <1>2, LastFinishIn
  <2>2. ran[id] \in Nat
    BY <1>1, <1>2, RoutineAssumption DEF RoutineInv, Data
  <2> QED BY <1>2, <2>1, <2>2 DEF BookInv, Receipted
<1>10. now' = now => UNCHANGED <<now, ran>>
  BY <1>3
<1>11. CASE id \in DOMAIN Book
  <2>1. x <= Book[id].last
    BY <1>1, <1>11, ReconciledEntry
  <2>2. last = Book[id].last
    BY <1>11
  <2>3. Book'[id] = e
    BY <1>4, <1>5, <1>7, <1>9, <2>1, <2>2
  <2>4. e.updated = now
    BY <1>1, <1>2, <1>4 DEF Entry, Scheduled
  <2>5. Book' = [i \in DOMAIN Book \cup {id} |-> IF i = id THEN Entry(d, Book[id].last, now) ELSE Book[i]]
    BY <1>7, <1>8, <2>2, <2>3
  <2>6. RB!Enter(id, RB!Entry(d, Book[id].last, now))
    BY <2>5, SameEntry DEF RB!Enter
  <2>7. now' = now => RB!Put(id, d)
    BY <1>10, <1>11, <2>6 DEF RB!Put
  <2> QED BY <1>2, <1>3, <1>7, <1>8, <1>9, <2>3, <2>4, <2>7
<1>12. CASE id \notin DOMAIN Book
  <2>1. e = Entry(d, Never, now) /\ e.last = Never /\ e.updated = now
    BY <1>1, <1>2, <1>5, <1>12, EntryFields
  <2>2. CASE x = Never
    <3>1. Book'[id] = e
      BY <1>7, <2>1, <2>2 DEF Never
    <3>2. Book' = [i \in DOMAIN Book \cup {id} |-> IF i = id THEN Entry(d, Never, now) ELSE Book[i]]
      BY <1>7, <1>8, <2>1, <3>1
    <3>3. RB!Enter(id, RB!Entry(d, RB!Never, now))
      BY <3>2, SameEntry DEF RB!Enter, RB!Never, Never
    <3>4. now' = now => RB!Put(id, d)
      BY <1>10, <1>12, <3>3 DEF RB!Put
    <3> QED BY <1>2, <1>3, <1>7, <1>8, <1>9, <2>1, <3>1, <3>4
  <2>3. CASE x # Never
    <3>1. x = ran[id] /\ ran[id] # Never /\ x > e.last
      BY <1>9, <2>1, <2>3 DEF Never
    <3>2. Book'[id] = AfterRun(e, ran[id])
      BY <1>7, <3>1
    <3>3. Book'[id] = Entry(d, ran[id], ran[id])
      BY <1>1, <1>2, <1>9, <2>1, <3>2, EntryFields
    <3>4. Book'[id].updated = ran[id]
      BY <1>5, <1>9, <3>2, AfterRunFields
    <3>5. Book' = [i \in DOMAIN Book \cup {id} |-> IF i = id THEN Entry(d, ran[id], ran[id]) ELSE Book[i]]
      BY <1>7, <1>8, <3>3
    <3>6. RB!Enter(id, RB!Entry(d, ran[id], ran[id]))
      BY <3>5, SameEntry DEF RB!Enter
    <3>7. now' = now => RB!Put(id, d)
      BY <1>10, <1>12, <3>1, <3>6 DEF RB!Put, RB!Never, Never
    <3> QED BY <1>2, <1>3, <1>7, <1>8, <1>9, <3>4, <3>7
  <2> QED BY <2>2, <2>3
<1> QED BY <1>11, <1>12

\* A delete removes one.
LEMMA BookDelete ==
  ASSUME BookInv, NEW c \in Call, Delete(c)
  PROVE  /\ ran' = ran /\ receipts' = receipts /\ target[c] \in Id
         /\ DOMAIN Book' = DOMAIN Book \ {target[c]}
         /\ \A i \in DOMAIN Book' : Book'[i] = Book[i]
         /\ now' = now => RB!Delete(target[c])
<1> DEFINE id == target[c]
           new == [i \in DOMAIN Book \ {id} |-> Book[i]]
<1>1. /\ Sound(Book, now) /\ now \in Nat /\ receipts \in SUBSET [routine : Id, finished : 1 .. now]
      /\ Reconciled(Book, receipts) = Book /\ RoutineInv /\ Book = [j \in DOMAIN Book |-> Book[j]]
      /\ \A i \in DOMAIN Book : i \in Id /\ Book[i] \in Routine
  BY BookSound DEF BookInv
<1>2. loaded[c] = Book /\ id \in Id
  <2>1. pc[c] = "decide" /\ KindOf[c] = "delete"
    BY DEF Delete
  <2>2. loaded[c] = Book
    BY <2>1, Knowing
  <2>3. id \in Id
    BY <1>1, <2>1 DEF RoutineInv, Held, Live
  <2> QED BY <2>2, <2>3
<1>3. receipts' = receipts /\ ran' = ran
  BY DEF Delete, WriteStore
<1>4. Book' = new
  <2>1. CASE id \in DOMAIN Book
    <3>1. store' = new
      BY <1>2, <2>1 DEF Delete, WriteStore, Known
    <3>2. \A i \in DOMAIN new : i \in Id /\ new[i] \in Routine /\ new[i].last <= now /\ Exact(new[i])
      BY <1>1 DEF Sound
    <3>3. new \in [DOMAIN new -> Routine]
      BY <3>2
    <3>4. Sound(new, now)
      BY <3>2, <3>3 DEF Sound, IsMap
    <3>5. Book' = Reconciled(new, receipts)
      BY <1>3, <3>1, <3>4, MapIsFile DEF Book
    <3>6. /\ Reconciled(new, receipts) = [i \in DOMAIN Book \ {id} |-> Reconciled(new, receipts)[i]]
          /\ \A i \in DOMAIN Book \ {id} : Reconciled(new, receipts)[i] = Reconciled(Book, receipts)[i]
      BY DEF Reconciled
    <3> QED BY <1>1, <3>5, <3>6
  <2>2. CASE id \notin DOMAIN Book
    <3>1. store' = store
      BY <1>2, <2>2 DEF Delete, Known
    <3>2. Book' = Book
      BY <1>3, <3>1 DEF Book
    <3>3. new = Book
      BY <1>1, <2>2
    <3> QED BY <3>2, <3>3
  <2> QED BY <2>1, <2>2
<1>5. now' = now => RB!Delete(id)
  BY <1>3, <1>4 DEF RB!Delete
<1> QED BY <1>2, <1>3, <1>4, <1>5

\* A receipt is a run of the book.  So it is for all who have seen what it pushes out.
LEMMA BookRun ==
  ASSUME BookInv, NEW c \in Call, WriteReceipt(c), Seen
  PROVE  LET id == target[c]
             t == loaded[c][id].last
         IN  /\ id \in DOMAIN Book /\ id \in Id /\ Book[id].enabled /\ t \in Nat /\ Book[id].last < t /\ t <= now
             /\ store' = store /\ store # NoFile
             /\ receipts' = With(receipts, id, t) /\ (\A r \in receipts : r.finished < t)
             /\ ran' = [ran EXCEPT ![id] = t]
             /\ Book' = [Book EXCEPT ![id] = AfterRun(Book[id], t)]
             /\ Book' = loaded[c]
             /\ \A d \in Call : pc[d] \in {"reconcile", "repair"} => Reconciled(loaded[d], receipts') = Book'
<1> DEFINE id == target[c]
           t == loaded[c][id].last
<1>1. /\ Sound(Book, now) /\ now \in Nat /\ receipts \in SUBSET [routine : Id, finished : 1 .. now]
      /\ RoutineInv /\ IsFiniteSet(receipts) /\ (store # NoFile => Sound(store, now))
      /\ \A i \in DOMAIN Book : i \in Id /\ Book[i] \in Routine
  BY BookSound DEF BookInv, Receipted
<1>2. /\ pc[c] = "receipt" /\ store' = store /\ ran' = [ran EXCEPT ![id] = t]
      /\ receipts' = With(receipts, id, t)
  BY DEF WriteReceipt, With
<1>3. /\ id \in DOMAIN Book /\ Book[id].enabled
      /\ t > Book[id].last /\ t <= now /\ \A r \in receipts : r.finished < t
      /\ loaded[c] = [Book EXCEPT ![id] = AfterRun(Book[id], t)]
  BY <1>2 DEF BookInv, Current, Knows
<1>4. id \in Id /\ t \in 1 .. now
  BY <1>1, <1>2, <1>3 DEF RoutineInv, Running
<1>5. store # NoFile
  BY <1>3, EmptyIs DEF Book
<1> HIDE DEF id, t
<1>6. ASSUME NEW m, Sound(m, now), Reconciled(m, receipts) = Book,
             \A r \in Newest(receipts) \ Newest(receipts') :
                r.routine \in DOMAIN m => m[r.routine].last >= r.finished
      PROVE  Reconciled(m, receipts') = [Book EXCEPT ![id] = AfterRun(Book[id], t)]
  <2>1. id \in DOMAIN m /\ m[id].last < t
    <3>1. id \in DOMAIN m
      BY <1>3, <1>6 DEF Reconciled
    <3>2. m[id].last <= Book[id].last
      BY <1>1, <1>6, <3>1, ReconciledEntry
    <3>3. m[id].last \in Nat /\ Book[id].last \in Nat
      BY <1>1, <1>3, <1>6, <3>1, Schedules DEF Sound, IsMap
    <3> QED BY <1>3, <1>4, <3>1, <3>2, <3>3
  <2>2. Reconciled(m, receipts') = [Reconciled(m, receipts) EXCEPT ![id] = AfterRun(Reconciled(m, receipts)[id], t)]
    BY <1>1, <1>2, <1>3, <1>4, <1>6, <2>1, ReconciledAfter
  <2> QED BY <1>6, <2>2
<1>7. Book' = [Book EXCEPT ![id] = AfterRun(Book[id], t)]
  <2>1. Book = Reconciled(store, receipts) /\ Book' = Reconciled(store, receipts')
    BY <1>2, <1>5 DEF Book
  <2>2. \A r \in Newest(receipts) \ Newest(receipts') :
           r.routine \in DOMAIN store => store[r.routine].last >= r.finished
    BY <1>5 DEF Seen, CaughtUp
  <2> QED BY <1>1, <1>5, <1>6, <2>1, <2>2
<1>8. ASSUME NEW d \in Call, pc[d] \in {"reconcile", "repair"}
      PROVE  Reconciled(loaded[d], receipts') = Book'
  <2>1. Sound(loaded[d], now) /\ Reconciled(loaded[d], receipts) = Book
    BY <1>8 DEF BookInv, RoutineInv, Data, Current, Knows
  <2>2. \A r \in Newest(receipts) \ Newest(receipts') :
           r.routine \in DOMAIN loaded[d] => loaded[d][r.routine].last >= r.finished
    BY <1>8 DEF Seen, CaughtUp
  <2>3. Reconciled(loaded[d], receipts') = [Book EXCEPT ![id] = AfterRun(Book[id], t)]
    BY <1>6, <2>1, <2>2
  <2> QED BY <1>7, <2>3
<1>9. /\ id \in DOMAIN Book /\ id \in Id /\ Book[id].enabled /\ t \in Nat /\ Book[id].last < t /\ t <= now
      /\ store' = store /\ store # NoFile
      /\ receipts' = With(receipts, id, t) /\ (\A r \in receipts : r.finished < t)
      /\ ran' = [ran EXCEPT ![id] = t]
      /\ Book' = [Book EXCEPT ![id] = AfterRun(Book[id], t)]
      /\ Book' = loaded[c]
      /\ \A d \in Call : pc[d] \in {"reconcile", "repair"} => Reconciled(loaded[d], receipts') = Book'
  <2>1. Book[id].last \in Nat
    BY <1>1, <1>3, Schedules
  <2>2. Book[id].last < t /\ t \in Nat
    BY <1>3, <1>4, <2>1
  <2> QED BY <1>2, <1>3, <1>4, <1>5, <1>7, <1>8, <2>2
<1> QED BY <1>9 DEF id, t

\* A call goes on knowing a book that stays.
LEMMA KnowsKept ==
  ASSUME BookInv, now' \in Nat, now <= now',
         NEW d \in Call, pc'[d] = pc[d], loaded'[d] = loaded[d], target'[d] = target[d],
         Book' = Book, receipts' \subseteq receipts, store # NoFile => store' # NoFile,
         \A m : Reconciled(m, receipts') = Reconciled(m, receipts)
  PROVE  Knows(d)'
<1>1. Knows(d)
  BY DEF BookInv, Current
<1>2. pc[d] = "receipt" => loaded[d][target[d]].last \in 1 .. now /\ now \in Nat
  BY RoutineAssumption DEF BookInv, RoutineInv, Running, Data
<1>3. /\ pc'[d] \in {"reconcile", "repair"} => store' # NoFile /\ Reconciled(loaded'[d], receipts') = Book'
      /\ pc'[d] \in {"repair", "decide", "running", "save"} /\ KindOf[d] # "list" => loaded'[d] = Book'
      /\ pc'[d] = "running" => Book'[target'[d]].enabled
  BY <1>1 DEF Knows
<1>4. ASSUME pc'[d] = "receipt"
      PROVE  LET i == target'[d]
                 t == loaded'[d][i].last
             IN  /\ i \in DOMAIN Book' /\ Book'[i].enabled
                 /\ t > Book'[i].last /\ t <= now' /\ \A r \in receipts' : r.finished < t
                 /\ loaded'[d] = [Book' EXCEPT ![i] = AfterRun(Book'[i], t)]
  <2> DEFINE i == target[d]
             t == loaded[d][i].last
  <2>1. /\ i \in DOMAIN Book /\ Book[i].enabled
        /\ t > Book[i].last /\ t <= now /\ \A r \in receipts : r.finished < t
        /\ loaded[d] = [Book EXCEPT ![i] = AfterRun(Book[i], t)]
    BY <1>1, <1>4 DEF Knows
  <2>2. t <= now'
    <3>1. t \in Nat /\ now \in Nat /\ t <= now
      BY <1>2, <1>4
    <3> QED BY <3>1
  <2>3. i = target'[d] /\ t = loaded'[d][target'[d]].last
    OBVIOUS
  <2> HIDE DEF i, t
  <2>4. /\ i \in DOMAIN Book' /\ Book'[i].enabled
        /\ t > Book'[i].last /\ t <= now' /\ \A r \in receipts' : r.finished < t
        /\ loaded'[d] = [Book' EXCEPT ![i] = AfterRun(Book'[i], t)]
    BY <2>1, <2>2
  <2> QED BY <2>3, <2>4
<1> QED BY <1>3, <1>4 DEF Knows

\* What a call knows is not changed under its feet: the calls that change the book
\* meet listings only, which take a new receipt in with the next look at the receipts.
LEMMA OthersKnow ==
  ASSUME BookInv, Seen, now' \in Nat, now <= now', NEW c \in Call, Step(c), NEW d \in Call \ {c}
  PROVE  Knows(d)'
<1>1. RoutineInv /\ Apart /\ Leases /\ d \in Call /\ c # d
  BY DEF BookInv
<1>2. pc'[d] = pc[d] /\ loaded'[d] = loaded[d] /\ target'[d] = target[d]
  BY <1>1, OthersKept
<1>3. ASSUME ~Live(d)
      PROVE  Knows(d)'
  BY <1>2, <1>3 DEF Knows, Live
<1>4. CASE UNCHANGED <<store, receipts, ran>>
  <2>1. Book' = Book /\ receipts' \subseteq receipts /\ (store # NoFile => store' # NoFile)
        /\ \A m : Reconciled(m, receipts') = Reconciled(m, receipts)
    BY <1>4 DEF Book
  <2> QED BY <1>2, <2>1, KnowsKept
<1>5. CASE Repair(c) \/ SaveRun(c) \/ Prune(c)
  <2>1. Book' = Book /\ receipts' \subseteq receipts /\ (store # NoFile => store' # NoFile)
        /\ \A m : Reconciled(m, receipts') = Reconciled(m, receipts)
    BY <1>5, BookKept
  <2> QED BY <1>2, <2>1, KnowsKept
<1>6. CASE Put(c) \/ Delete(c)
  <2>1. Live(c) /\ KindOf[c] \in {"put", "delete"}
    BY <1>6 DEF Put, Delete, Live
  <2>2. ~Live(d)
    BY <1>1, <2>1, Alone
  <2> QED BY <1>3, <2>2
<1>7. CASE WriteReceipt(c) /\ Live(d)
  <2>1. pc[c] = "receipt" /\ Live(c)
    BY <1>7 DEF WriteReceipt, Live
  <2>2. KindOf[c] # "list"
    BY <2>1, Knowing
  <2>3. KindOf[d] = "list"
    BY <1>1, <1>7, <2>1, <2>2, Alone
  <2>4. pc[d] \notin {"running", "receipt"}
    BY <2>3, Knowing
  <2>5. store' # NoFile /\ (pc[d] \in {"reconcile", "repair"} => Reconciled(loaded[d], receipts') = Book')
    BY <1>1, <1>7, BookRun
  <2> QED BY <1>2, <2>3, <2>4, <2>5 DEF Knows
<1>8. UNCHANGED <<store, receipts, ran>> \/ Effect(c)
  BY DEF Step, BeginLeased, BeginOpen, Read, Reconcile, Answer, Due, Pick, NothingLeft, StartRun, Finish,
     Write, StepFails, Close, Crash
<1> QED BY <1>3, <1>4, <1>5, <1>6, <1>7, <1>8 DEF Effect

\* What a call knows after a step of its own.
LEMMA CallerKnows ==
  ASSUME BookInv, Seen, now' \in Nat, now <= now', NEW c \in Call, Step(c)
  PROVE  Knows(c)'
<1>1. /\ RoutineInv /\ Apart /\ Leases /\ Knows(c)
      /\ pc \in [Call -> Labels] /\ target \in [Call -> Id \cup {NoId}]
      /\ loaded = [e \in Call |-> loaded[e]] /\ Running
  BY DEF BookInv, Current, RoutineInv, Placed, Data
<1>2. /\ Sound(Book, now) /\ now \in Nat /\ receipts \in SUBSET [routine : Id, finished : 1 .. now]
      /\ Reconciled(Book, receipts) = Book /\ Book = [id \in DOMAIN Book |-> Book[id]]
      /\ \A id \in DOMAIN Book : id \in Id /\ Book[id] \in Routine
  BY <1>1, BookSound
<1>3. ASSUME pc'[c] \in {"idle", "read", "next", "prune", "close", "done"}
      PROVE  Knows(c)'
  BY <1>3 DEF Knows
<1>4. CASE BeginLeased(c) \/ BeginOpen(c) \/ Answer(c) \/ Due(c) \/ NothingLeft(c)
  BY <1>1, <1>3, <1>4 DEF BeginLeased, BeginOpen, MayBegin, Answer, Due, NothingLeft, Goto
<1>5. CASE Pick(c)
  <2>1. pc'[c] \in {"next", "read"}
    BY <1>1, <1>5 DEF Pick, Goto
  <2> QED BY <1>3, <2>1
<1>6. CASE StepFails(c) \/ Close(c) \/ Crash(c)
  <2>1. pc'[c] \in {"idle", "next", "close", "done"}
    BY <1>1, <1>6 DEF StepFails, GiveUp, Close, Crash, Goto
  <2> QED BY <1>3, <2>1
<1>7. CASE Read(c)
  <2>1. UNCHANGED <<store, receipts>> /\ pc[c] = "read" /\ Book' = Book /\ loaded[c] = Empty
    BY <1>1, <1>7 DEF Read, Book, Leases
  <2>2. CASE store = NoFile
    <3>1. pc'[c] = "decide" /\ loaded'[c] = Empty /\ Book' = Empty
      BY <1>1, <1>7, <2>1, <2>2 DEF Read, Goto, Book
    <3> QED BY <3>1 DEF Knows
  <2>3. CASE store # NoFile
    <3>1. pc'[c] = "reconcile" /\ loaded'[c] = store /\ Book' = Reconciled(store, receipts)
      BY <1>1, <1>7, <2>1, <2>3 DEF Read, Goto, Load, Book
    <3> QED BY <2>1, <2>3, <3>1 DEF Knows
  <2> QED BY <2>2, <2>3
<1>8. CASE Reconcile(c)
  <2>1. UNCHANGED <<store, receipts>> /\ pc[c] = "reconcile" /\ Book' = Book
    BY <1>8 DEF Reconcile, Book
  <2>2. store # NoFile /\ Reconciled(loaded[c], receipts) = Book
    BY <1>1, <2>1 DEF Knows
  <2>3. pc'[c] \in {"decide", "repair"} /\ loaded'[c] = Book
    BY <1>1, <1>8, <2>2 DEF Reconcile, Goto, Load
  <2> QED BY <1>2, <2>1, <2>2, <2>3 DEF Knows
<1>9. CASE StartRun(c)
  <2>1. /\ UNCHANGED <<store, receipts, loaded, target>> /\ pc[c] = "decide" /\ Book' = Book
        /\ KindOf[c] # "list" /\ loaded[c] = Book
    BY <1>9, Knowing DEF StartRun, IsRun, Book, locals
  <2>2. pc'[c] = "close" \/ (pc'[c] = "running" /\ Book[target[c]].enabled)
    BY <1>1, <1>9, <2>1 DEF StartRun, Goto, Runnable
  <2> QED BY <1>3, <2>1, <2>2 DEF Knows
<1>10. CASE Finish(c)
  <2> DEFINE i == target[c]
             t == now'
             after == AfterRun(Book[i], t)
  <2>1. /\ UNCHANGED <<store, receipts, target>> /\ pc[c] = "running" /\ Book' = Book
        /\ t \in now + 1 .. MaxTime /\ MaxTime \in Nat
    BY <1>10, RoutineAssumption DEF Finish, Book
  <2>2. loaded[c] = Book /\ i \in DOMAIN Book /\ Book[i].enabled /\ Book[i] \in Routine /\ Book[i].last <= now
    <3>1. loaded[c] = Book /\ Book[i].enabled
      BY <1>1, <2>1, Knowing DEF Knows
    <3>2. i \in DOMAIN Book
      BY <1>1, <2>1, <3>1 DEF Running, Known
    <3> QED BY <1>2, <3>1, <3>2 DEF Sound
  <2>3. pc'[c] = "receipt" /\ loaded'[c] = [Book EXCEPT ![i] = after]
    BY <1>1, <1>10, <2>2 DEF Finish, Goto, Load
  <2>4. after.last = t
    BY <2>1, <2>2, AfterRunSound
  <2>5. Book[i].last \in Nat
    BY <2>2, Schedules
  <2> HIDE DEF after
  <2>6. loaded'[c][i].last = t
    BY <1>2, <2>2, <2>3, <2>4
  <2>7. /\ i \in DOMAIN Book /\ Book[i].enabled
        /\ t > Book[i].last /\ t <= now' /\ \A r \in receipts : r.finished < t
    BY <1>2, <2>1, <2>2, <2>5
  <2> QED BY <2>1, <2>3, <2>6, <2>7 DEF Knows, after
<1>11. CASE Write(c)
  <2>1. UNCHANGED <<loaded, target>>
    BY <1>11 DEF Write, locals
  <2>2. pc'[c] = CASE pc[c] = "repair" -> "decide" [] pc[c] = "receipt" -> "save"
                   [] pc[c] = "save" -> "prune" [] OTHER -> "close"
    BY <1>1, <1>11 DEF Write, Continue, Goto
  <2>3. CASE Repair(c)
    <3>1. pc[c] = "repair" /\ Book' = Book
      BY <2>3, BookKept DEF Repair
    <3> QED BY <1>1, <2>1, <2>2, <3>1 DEF Knows
  <2>4. CASE WriteReceipt(c)
    <3>1. pc[c] = "receipt" /\ Book' = loaded[c]
      BY <2>4, BookRun DEF WriteReceipt
    <3> QED BY <2>1, <2>2, <3>1 DEF Knows
  <2>5. CASE Put(c) \/ Delete(c) \/ SaveRun(c) \/ Prune(c)
    <3>1. pc[c] \in {"decide", "save", "prune"}
      BY <2>5 DEF Put, Delete, SaveRun, Prune
    <3> QED BY <1>3, <2>2, <3>1
  <2> QED BY <1>11, <2>3, <2>4, <2>5 DEF Write, Effect
<1> QED BY <1>4, <1>5, <1>6, <1>7, <1>8, <1>9, <1>10, <1>11 DEF Step

\* Every step keeps the receipts those of the last runs.
LEMMA ReceiptedStep ==
  ASSUME BookInv, Seen, [Next]_vars
  PROVE  Receipted'
<1>1. /\ RoutineInv /\ Receipted /\ now \in Nat /\ now' \in Nat /\ now <= now'
      /\ receipts \in SUBSET [routine : Id, finished : 1 .. now] /\ IsFiniteSet(receipts)
      /\ \A id \in Id : ran[id] \in Nat
      /\ \A id \in DOMAIN Book : id \in Id /\ Book[id] \in Routine
  <2>1. RoutineInv /\ Receipted
    BY DEF BookInv
  <2> QED BY <2>1, TimeGoesOn, BookSound, RoutineAssumption DEF RoutineInv, Data, Receipted
<1>2. ASSUME Book' = Book, ran' = ran, receipts' \subseteq receipts,
             \A id : LastFinish(id, receipts') = LastFinish(id, receipts)
      PROVE  Receipted'
  <2>1. IsFiniteSet(receipts')
    BY <1>1, <1>2, FS_Subset
  <2>2. \A id \in Id : LastFinish(id, receipts') \in {Never, ran'[id]} /\ ran'[id] <= now'
    BY <1>1, <1>2 DEF Receipted
  <2>3. \A id \in DOMAIN Book' : ran'[id] <= Book'[id].updated
    BY <1>1, <1>2 DEF Receipted
  <2> QED BY <2>1, <2>2, <2>3 DEF Receipted
<1>3. CASE UNCHANGED <<store, receipts, ran>>
  <2>1. Book' = Book
    BY <1>3 DEF Book
  <2> QED BY <1>2, <1>3, <2>1
<1>4. ASSUME NEW c \in Call, Repair(c) \/ SaveRun(c) \/ Prune(c)
      PROVE  Receipted'
  BY <1>2, <1>4, BookKept
<1>5. ASSUME NEW c \in Call, Put(c)
      PROVE  Receipted'
  <2>1. /\ ran' = ran /\ receipts' = receipts /\ DOMAIN Book' = DOMAIN Book \cup {target[c]}
        /\ \A i \in DOMAIN Book : i # target[c] => Book'[i] = Book[i]
        /\ ran[target[c]] <= Book'[target[c]].updated
    BY <1>5, BookPut
  <2>2. \A id \in DOMAIN Book' : ran'[id] <= Book'[id].updated
    BY <1>1, <2>1 DEF Receipted
  <2>3. \A id \in Id : LastFinish(id, receipts') \in {Never, ran'[id]} /\ ran'[id] <= now'
    BY <1>1, <2>1 DEF Receipted
  <2> QED BY <1>1, <2>1, <2>2, <2>3 DEF Receipted
<1>6. ASSUME NEW c \in Call, Delete(c)
      PROVE  Receipted'
  <2>1. /\ ran' = ran /\ receipts' = receipts /\ DOMAIN Book' = DOMAIN Book \ {target[c]}
        /\ \A i \in DOMAIN Book' : Book'[i] = Book[i]
    BY <1>6, BookDelete
  <2>2. \A id \in DOMAIN Book' : ran'[id] <= Book'[id].updated
    BY <1>1, <2>1 DEF Receipted
  <2>3. \A id \in Id : LastFinish(id, receipts') \in {Never, ran'[id]} /\ ran'[id] <= now'
    BY <1>1, <2>1 DEF Receipted
  <2> QED BY <1>1, <2>1, <2>2, <2>3 DEF Receipted
<1>7. ASSUME NEW c \in Call, WriteReceipt(c)
      PROVE  Receipted'
  <2>1. PICK id \in Id, t \in Nat :
             /\ id \in DOMAIN Book /\ t <= now /\ Book[id].last < t
             /\ receipts' = With(receipts, id, t) /\ (\A r \in receipts : r.finished < t)
             /\ ran' = [ran EXCEPT ![id] = t]
             /\ Book' = [Book EXCEPT ![id] = AfterRun(Book[id], t)]
    BY <1>7, BookRun
  <2>2. t \in 1 .. now
    BY <1>1, <2>1, Schedules
  <2>3. /\ LastFinish(id, receipts') = t
        /\ \A j \in Id \ {id} : LastFinish(j, receipts') \in {Never, LastFinish(j, receipts)}
    BY <1>1, <2>1, <2>2, LastFinishAfter
  <2>4. IsFiniteSet(receipts')
    BY <1>1, <2>1, FS_AddElement DEF With
  <2>5. ran'[id] = t /\ \A j \in Id \ {id} : ran'[j] = ran[j]
    BY <2>1 DEF BookInv, RoutineInv, Data
  <2>6. \A j \in Id : LastFinish(j, receipts') \in {Never, ran'[j]} /\ ran'[j] <= now'
    <3>1. LastFinish(id, receipts') \in {Never, ran'[id]} /\ ran'[id] <= now'
      BY <1>1, <2>1, <2>3, <2>5
    <3>2. ASSUME NEW j \in Id \ {id}
          PROVE  LastFinish(j, receipts') \in {Never, ran'[j]} /\ ran'[j] <= now'
      BY <1>1, <2>3, <2>5 DEF Receipted
    <3> QED BY <3>1, <3>2
  <2>7. AfterRun(Book[id], t).updated = t
    BY <1>1, <2>1, AfterRunFields
  <2>8. \A j \in DOMAIN Book' : ran'[j] <= Book'[j].updated
    <3>1. DOMAIN Book' = DOMAIN Book /\ Book'[id] = AfterRun(Book[id], t) /\ \A j \in DOMAIN Book \ {id} : Book'[j] = Book[j]
      BY <1>1, <2>1, BookSound
    <3> QED BY <1>1, <2>1, <2>5, <2>7, <3>1 DEF Receipted
  <2> QED BY <2>4, <2>6, <2>8 DEF Receipted
<1>8. UNCHANGED <<store, receipts, ran>> \/ \E c \in Call : Effect(c)
  BY DEF Next, Step, Tick, BeginLeased, BeginOpen, Read, Reconcile, Answer, Due, Pick, NothingLeft, StartRun, Finish,
     Write, StepFails, Close, Crash, vars
<1> QED BY <1>3, <1>4, <1>5, <1>6, <1>7, <1>8 DEF Effect

\* Every step maps to a step of the book or to none.
LEMMA BookNext ==
  ASSUME BookInv, Seen, [Next]_vars
  PROVE  [RB!Next]_(RB!vars)
<1>1. RoutineInv /\ now \in Nat /\ now' \in Nat
  BY RoutineAssumption, TimeGoesOn DEF BookInv, RoutineInv, Data
<1>2. CASE UNCHANGED <<store, receipts, ran>>
  <2>1. Book' = Book /\ ran' = ran
    BY <1>2 DEF Book
  <2>2. now' = now \/ now' > now
    BY <1>1, TimeGoesOn DEF RoutineInv
  <2>3. now' > now => RB!Tick
    BY <2>1 DEF RB!Tick
  <2> QED BY <2>1, <2>2, <2>3 DEF RB!Next, RB!vars
<1>3. ASSUME NEW c \in Call, Effect(c), now' = now
      PROVE  [RB!Next]_(RB!vars)
  <2>1. CASE Repair(c) \/ SaveRun(c) \/ Prune(c)
    BY <1>3, <2>1, BookKept DEF RB!vars
  <2>2. CASE Put(c)
    <3>1. ran' = ran /\ target[c] \in Id /\ RB!Put(target[c], DefinitionOf[c])
      BY <1>3, <2>2, BookPut
    <3>2. DefinitionOf[c] \in Definition
      BY CallAssumption
    <3> QED BY <1>3, <3>1, <3>2 DEF RB!Next, RB!vars
  <2>3. CASE Delete(c)
    <3>1. ran' = ran /\ target[c] \in Id /\ RB!Delete(target[c])
      BY <1>3, <2>3, BookDelete
    <3> QED BY <1>3, <3>1 DEF RB!Next, RB!vars
  <2>4. CASE WriteReceipt(c)
    <3>1. PICK id \in Id, t \in Nat :
               /\ id \in DOMAIN Book /\ Book[id].enabled /\ Book[id].last < t /\ t <= now
               /\ ran' = [ran EXCEPT ![id] = t]
               /\ Book' = [Book EXCEPT ![id] = AfterRun(Book[id], t)]
      BY <2>4, BookRun
    <3>2. Book = [i \in DOMAIN Book |-> Book[i]] /\ Book[id] \in Routine
      BY <1>1, <3>1, BookSound
    <3>3. Book' = [i \in DOMAIN Book \cup {id} |-> IF i = id THEN AfterRun(Book[id], t) ELSE Book[i]]
      BY <3>1, <3>2
    <3>4. RB!Enter(id, RB!AfterRun(Book[id], t))
      BY <3>3, SameAfterRun DEF RB!Enter
    <3>5. RB!Run(id, t)
      BY <1>3, <3>1, <3>4 DEF RB!Run
    <3>6. t \in 1 .. now
      BY <1>1, <3>1, <3>2, Schedules
    <3>7. Book' # Book
      <4>1. Book'[id].last = t
        BY <3>1, <3>2, AfterRunSound
      <4>2. Book[id].last # t
        BY <3>1, <3>2, Schedules
      <4> QED BY <4>1, <4>2
    <3> QED BY <3>5, <3>6, <3>7 DEF RB!Next
  <2> QED BY <1>3, <2>1, <2>2, <2>3, <2>4 DEF Effect
<1>4. UNCHANGED <<store, receipts, ran>> \/ \E c \in Call : Effect(c) /\ now' = now
  BY DEF Next, Step, Tick, BeginLeased, BeginOpen, Read, Reconcile, Answer, Due, Pick, NothingLeft, StartRun, Finish,
     Write, StepFails, Close, Crash, vars
<1> QED BY <1>2, <1>3, <1>4

\* Initially every call is still to begin, and the book agrees with the last runs.
LEMMA BookInit ==
  ASSUME Init
  PROVE  BookInv /\ RB!Init
<1>1. RoutineInv /\ now = Start /\ Start \in Nat /\ NoId \notin Id
  BY RoutineInvInit, RoutineAssumption DEF Init
<1>2. /\ \A c \in Call : pc[c] \in {"idle", "done"} /\ target[c] = NoId /\ loaded[c] = Empty
  BY DEF Init
<1>3. Apart /\ Leases /\ Current
  BY <1>2 DEF Apart, Leases, Current, Knows, Live
<1>4. PICK i \in Initial : store = i.store /\ receipts = i.receipts
  BY DEF Init
<1>5. IsFiniteSet(receipts) /\ receipts \in SUBSET [routine : Id, finished : 1 .. now]
  BY <1>1, <1>4, InitialAssumption
<1>6. ran = [id \in Id |-> IF store # NoFile /\ id \in DOMAIN store
                           THEN Later(store[id].last, LastFinish(id, receipts)) ELSE LastFinish(id, receipts)]
  BY DEF Init
<1>7. ASSUME store # NoFile, NEW id \in DOMAIN store
      PROVE  LET x == LastFinish(id, receipts)
             IN  /\ id \in Id /\ store[id] \in Routine /\ x \in 0 .. Start /\ store[id].last <= store[id].updated
                 /\ store[id].last <= Start /\ (x = Never \/ store[id].last <= x)
                 /\ Sound(store, now)
  <2>1. /\ id \in Id /\ store[id] \in Routine
        /\ store[id].last <= store[id].updated /\ store[id].updated <= Start
        /\ LastFinish(id, receipts) = Never \/ store[id].last <= LastFinish(id, receipts)
    BY <1>4, <1>7, InitialAssumption DEF IsMap
  <2>2. Sound(store, now)
    BY <1>1, <1>7 DEF RoutineInv, Data
  <2>3. store[id].last <= Start
    BY <1>1, <2>1, Schedules
  <2>4. LastFinish(id, receipts) \in 0 .. Start
    BY <1>1, <1>5, <2>1, LastFinishIn
  <2> QED BY <2>1, <2>2, <2>3, <2>4
<1>8. \A id \in Id : LastFinish(id, receipts) \in {Never, ran[id]} /\ ran[id] <= now
  <2>1. SUFFICES ASSUME NEW id \in Id
                 PROVE  LastFinish(id, receipts) \in {Never, ran[id]} /\ ran[id] <= now
    OBVIOUS
  <2>2. CASE store # NoFile /\ id \in DOMAIN store
    <3>1. ran[id] = IF store[id].last > LastFinish(id, receipts) THEN store[id].last ELSE LastFinish(id, receipts)
      BY <1>6, <2>2 DEF Later
    <3>2. /\ store[id].last \in Nat /\ LastFinish(id, receipts) \in 0 .. Start /\ store[id].last <= Start
          /\ (LastFinish(id, receipts) = Never \/ store[id].last <= LastFinish(id, receipts))
      BY <1>7, <2>2, Schedules
    <3> QED BY <1>1, <3>1, <3>2
  <2>3. CASE ~(store # NoFile /\ id \in DOMAIN store)
    <3>1. ran[id] = LastFinish(id, receipts)
      BY <1>6, <2>3
    <3>2. LastFinish(id, receipts) \in 0 .. Start
      BY <1>1, <1>5, LastFinishIn
    <3> QED BY <1>1, <3>1, <3>2
  <2> QED BY <2>2, <2>3
<1>9. ASSUME NEW id \in DOMAIN Book
      PROVE  id \in Id /\ Book[id].last = ran[id] /\ ran[id] <= Book[id].updated
  <2>1. store # NoFile /\ Book = Reconciled(store, receipts) /\ id \in DOMAIN store
    BY <1>9, EmptyIs DEF Book, Reconciled
  <2>2. PICK x : x = LastFinish(id, receipts)
    OBVIOUS
  <2>3. /\ id \in Id /\ store[id] \in Routine /\ x \in 0 .. Start /\ store[id].last <= store[id].updated
        /\ (x = Never \/ store[id].last <= x)
    BY <1>7, <2>1, <2>2
  <2>4. store[id].last \in Nat /\ store[id].updated \in Nat /\ Start \in Nat
    BY <1>1, <2>3, Schedules
  <2>5. ran[id] = IF store[id].last > x THEN store[id].last ELSE x
    BY <1>6, <2>1, <2>2, <2>3 DEF Later
  <2>6. Book[id] = IF x > store[id].last THEN AfterRun(store[id], x) ELSE store[id]
    BY <2>1, <2>2 DEF Reconciled
  <2>7. CASE x > store[id].last
    <3>1. x \in Nat
      BY <2>3, <2>4
    <3>2. Book[id].last = x /\ Book[id].updated = x
      BY <2>3, <2>6, <2>7, <3>1, AfterRunFields
    <3>3. ran[id] = x
      BY <2>3, <2>4, <2>5, <2>7
    <3> QED BY <2>3, <3>1, <3>2, <3>3
  <2>8. CASE ~(x > store[id].last)
    BY <2>3, <2>4, <2>5, <2>6, <2>8
  <2> QED BY <2>7, <2>8
<1>10. Receipted
  BY <1>5, <1>8, <1>9 DEF Receipted
<1>11. RB!Init
  BY <1>1, <1>9 DEF RB!Init
<1> QED BY <1>1, <1>3, <1>10, <1>11 DEF BookInv

\* Every step keeps the invariant.
LEMMA BookInvStep ==
  ASSUME ~Overlap, BookInv, Seen, [Next]_vars
  PROVE  BookInv'
<1>1. RoutineInv /\ Apart /\ Leases
  BY DEF BookInv
<1>2. RoutineInv'
  BY <1>1, PlacedStep, ListedStep, HeldStep, DataStep, RunningStep DEF RoutineInv
<1>3. Apart' /\ Leases' /\ Receipted'
  BY <1>1, ApartStep, LeasesStep, ReceiptedStep
<1>4. now' \in Nat /\ now <= now'
  BY <1>1, TimeGoesOn DEF RoutineInv
<1>5. CASE Tick \/ UNCHANGED vars
  <2>1. UNCHANGED <<store, receipts, pc, loaded, target>>
    BY <1>5 DEF Tick, vars, locals
  <2>2. Book' = Book
    BY <2>1 DEF Book
  <2>3. \A d \in Call : Knows(d)'
    BY <1>4, <2>1, <2>2, KnowsKept
  <2> QED BY <1>2, <1>3, <2>3 DEF BookInv, Current
<1>6. ASSUME NEW c \in Call, Step(c)
      PROVE  BookInv'
  <2>1. \A d \in Call \ {c} : Knows(d)'
    BY <1>4, <1>6, OthersKnow
  <2>2. Knows(c)'
    BY <1>4, <1>6, CallerKnows
  <2> QED BY <1>2, <1>3, <2>1, <2>2 DEF BookInv, Current
<1> QED BY <1>5, <1>6 DEF Next

\* No step pushes a receipt out of the Keep newest that the store, or a load under
\* way, has still to see.
ReceiptsSeen == [][Seen]_vars

LEMMA BookInvHolds ==
  ASSUME ~Overlap
  PROVE  Spec /\ ReceiptsSeen => []BookInv
<1>1. Init => BookInv
  BY BookInit
<1>2. BookInv /\ [Next]_vars /\ [Seen]_vars => BookInv'
  <2>1. BookInv /\ UNCHANGED vars => Seen
    BY DEF Seen, vars
  <2> QED BY <2>1, BookInvStep
<1> QED BY <1>1, <1>2, PTL DEF Spec, ReceiptsSeen

\* The files implement the book of routines: a run takes effect as a whole with its
\* receipt (internal/routines/manager.go:247), a put or remove with its save, and no
\* crash, failed write, repair, listing or pruning changes a schedule.  For any files,
\* calls, crashes and failures, as long as calls that disturb each other do not overlap
\* and the Keep newest receipts reach back to what the store and the listings have seen.
THEOREM RoutinesImplementBook ==
  ASSUME ~Overlap
  PROVE  Spec /\ ReceiptsSeen => ImplementsRoutineBook
<1>1. Init => RB!Init
  BY BookInit
<1>2. BookInv /\ [Next]_vars /\ [Seen]_vars => [RB!Next]_(RB!vars)
  <2>1. BookInv /\ UNCHANGED vars => Seen
    BY DEF Seen, vars
  <2> QED BY <2>1, BookNext
<1> QED BY <1>1, <1>2, BookInvHolds, PTL DEF Spec, ReceiptsSeen, ImplementsRoutineBook, RB!Spec

-----------------------------------------------------------------------------
(* What a run-due runs is due.                                              *)

\* A routine on the list of a run-due, or in its hands, has not run since it fell due.
Awaited(c) ==
    /\ due[c] # Empty => KindOf[c] = "runDue" /\ Live(c)
    /\ target[c] \notin DOMAIN due[c]
    /\ \A id \in DOMAIN due[c] : ran[id] < due[c][id]
    /\ KindOf[c] = "runDue" /\ target[c] # NoId /\ pc[c] \in {"read", "reconcile", "repair", "decide"}
         => ran[target[c]] < slot[c]

Slots == \A c \in Call : Awaited(c)

\* The next run is after the last change.
LEMMA DueAfter ==
  ASSUME NEW r \in Routine, Exact(r), IsDue(r)
  PROVE  r.updated < r.next
<1>1. /\ r.schedule.kind \in {"manual", "interval", "daily", "weekdays"} /\ r.schedule.every \in Nat \ {0}
      /\ r.updated \in Nat /\ r.enabled /\ r.next # Never
  BY Schedules DEF IsSchedule, IsDue
<1>2. r.schedule.kind = "manual" => r.next = Never
  BY <1>1 DEF Exact
<1>3. r.schedule.kind = "interval" => r.next = r.updated + r.schedule.every
  BY <1>1 DEF Exact
<1>4. r.schedule.kind \in {"daily", "weekdays"} => r.next > r.updated
  BY <1>1 DEF Exact
<1>5. r.next \in Nat
  BY DEF Routine
<1> QED BY <1>1, <1>2, <1>3, <1>4, <1>5

\* Every step keeps the lists of routines that wait.
LEMMA SlotsStep ==
  ASSUME BookInv, Seen, Slots, [Next]_vars
  PROVE  Slots'
<1>1. /\ RoutineInv /\ Apart /\ Leases /\ Receipted
      /\ pc \in [Call -> Labels] /\ target \in [Call -> Id \cup {NoId}] /\ NoId \notin Id
      /\ due = [c \in Call |-> due[c]] /\ slot \in [Call -> 0 .. MaxTime]
      /\ \A c \in Call : DOMAIN due[c] \subseteq Id
  BY RoutineAssumption DEF BookInv, RoutineInv, Placed, Listed, IsMap
<1>2. CASE Tick \/ UNCHANGED vars
  BY <1>2 DEF Tick, vars, locals, Slots, Awaited, Live
<1>3. ASSUME NEW c \in Call, Step(c), ran' = ran, NEW d \in Call \ {c}
      PROVE  Awaited(d)'
  <2>1. pc'[d] = pc[d] /\ target'[d] = target[d] /\ due'[d] = due[d] /\ slot'[d] = slot[d]
    BY <1>1, <1>3, OthersKept
  <2> QED BY <1>3, <2>1 DEF Slots, Awaited, Live
<1>4. ASSUME NEW c \in Call, Step(c), WriteReceipt(c), NEW d \in Call \ {c}
      PROVE  Awaited(d)'
  <2>1. pc'[d] = pc[d] /\ target'[d] = target[d] /\ due'[d] = due[d] /\ slot'[d] = slot[d]
    BY <1>1, <1>4, OthersKept
  <2>2. Live(c) /\ KindOf[c] # "list" /\ holder = c
    BY <1>4, Knowing DEF WriteReceipt, Live
  <2>3. Live(d) => KindOf[d] = "list"
    BY <1>1, <2>2, Alone
  <2>4. due[d] = Empty
    BY <2>3 DEF Slots, Awaited
  <2>5. target[d] = NoId
    BY <1>1, <2>2 DEF Leases
  <2> QED BY <2>1, <2>4, <2>5, EmptyIs DEF Awaited
<1>5. ASSUME NEW c \in Call, Step(c), ran' = ran, due'[c] = due[c], target'[c] = target[c], slot'[c] = slot[c],
             Live(c)' \/ KindOf[c] # "runDue",
             pc'[c] \in {"read", "reconcile", "repair", "decide"} /\ target[c] # NoId /\ KindOf[c] = "runDue"
               => pc[c] \in {"read", "reconcile", "repair", "decide"}
      PROVE  Awaited(c)'
  BY <1>5 DEF Slots, Awaited
<1>6. ASSUME NEW c \in Call, ran' = ran, due'[c] = Empty
      PROVE  target'[c] = NoId => Awaited(c)'
  BY <1>6, EmptyIs DEF Awaited
<1>7. ASSUME NEW c \in Call, Step(c)
      PROVE  Awaited(c)'
  <2> USE DEF Goto, locals
  <2>0. /\ KindOf[c] \in {"put", "delete", "run", "list", "runDue"} /\ Awaited(c)
        /\ pc[c] \in {"running", "receipt", "save", "prune", "close"} => holder = c
        /\ KindOf[c] = "list" \/ pc[c] = "idle" => due[c] = Empty
    BY CallAssumption, Knowing DEF Slots, Awaited, Live
  <2>1. CASE BeginLeased(c)
    <3>1. /\ ran' = ran /\ due' = due /\ KindOf[c] # "runDue" /\ due[c] = Empty
      BY <2>0, <2>1 DEF BeginLeased, MayBegin
    <3> QED BY <3>1, EmptyIs DEF Awaited
  <2>2. CASE BeginOpen(c)
    <3>1. ran' = ran /\ due' = due /\ target' = target /\ due[c] = Empty /\ pc[c] = "idle"
      BY <2>0, <2>2 DEF BeginOpen, MayBegin
    <3>2. target[c] = NoId
      BY <1>1, <3>1, RoutineAssumption DEF Leases, RoutineInv, Held, Live
    <3> QED BY <3>1, <3>2, EmptyIs DEF Awaited
  <2>3. CASE Read(c) \/ Reconcile(c)
    <3>1. /\ ran' = ran /\ due' = due /\ target' = target /\ slot' = slot
          /\ pc[c] \in {"read", "reconcile"} /\ pc'[c] \in {"decide", "reconcile", "repair"}
      BY <1>1, <2>3 DEF Read, Reconcile
    <3> QED BY <1>5, <1>7, <3>1 DEF Live
  <2>4. CASE Answer(c)
    <3>1. ran' = ran /\ due'[c] = Empty /\ target'[c] = NoId
      BY <1>1, <2>4 DEF Answer, DropAll, Drop
    <3> QED BY <1>6, <3>1
  <2>5. CASE Due(c)
    <3> DEFINE list == [id \in {i \in DOMAIN loaded[c] : IsDue(loaded[c][i])} |-> loaded[c][id].next]
    <3>1. /\ ran' = ran /\ due'[c] = list /\ target' = target /\ target[c] = NoId
          /\ KindOf[c] = "runDue" /\ pc'[c] = "next" /\ pc[c] = "decide"
      BY <1>1, <2>5 DEF Due
    <3>2. loaded[c] = Book
      BY <3>1, Knowing
    <3>3. ASSUME NEW id \in DOMAIN list
          PROVE  id \in Id /\ ran[id] < list[id]
      <4>1. id \in DOMAIN Book /\ IsDue(Book[id]) /\ list[id] = Book[id].next
        BY <3>2
      <4>2. id \in Id /\ Book[id] \in Routine /\ Exact(Book[id])
        BY <1>1, <4>1, BookSound DEF Sound
      <4>3. Book[id].updated < Book[id].next /\ ran[id] <= Book[id].updated
        BY <1>1, <4>1, <4>2, DueAfter DEF Receipted
      <4>4. ran[id] \in Nat /\ Book[id].updated \in Nat /\ Book[id].next \in Nat
        BY <1>1, <4>2, RoutineAssumption DEF RoutineInv, Data, Routine
      <4> QED BY <4>1, <4>2, <4>3, <4>4
    <3> HIDE DEF list
    <3>4. target'[c] \notin DOMAIN due'[c] /\ Live(c)'
      BY <1>1, <3>1, <3>3 DEF Live
    <3> QED BY <3>1, <3>3, <3>4 DEF Awaited
  <2>6. CASE Pick(c)
    <3>1. PICK id \in DOMAIN due[c] :
             /\ due' = [due EXCEPT ![c] = [i \in DOMAIN due[c] \ {id} |-> due[c][i]]]
             /\ IF holder = NoCall
                THEN /\ holder' = c /\ Goto(c, "read")
                     /\ target' = [target EXCEPT ![c] = id]
                     /\ slot' = [slot EXCEPT ![c] = due[c][id]]
                ELSE UNCHANGED <<holder, pc, target, slot>>
      BY <2>6 DEF Pick
    <3>2. ran' = ran /\ pc[c] = "next" /\ KindOf[c] = "runDue"
      BY <1>1, <2>6 DEF Pick, RoutineInv, Held
    <3>3. due'[c] = [i \in DOMAIN due[c] \ {id} |-> due[c][i]] /\ Live(c)'
      BY <1>1, <3>1, <3>2 DEF Live
    <3>4. /\ \A i \in DOMAIN due'[c] : i # id /\ i \in DOMAIN due[c] /\ ran'[i] < due'[c][i]
          /\ ran[id] < due[c][id]
      BY <2>0, <3>2, <3>3 DEF Awaited
    <3>5. target'[c] \in {id, target[c]} /\ (target'[c] = id => slot'[c] = due[c][id] \/ target[c] = id)
      BY <1>1, <3>1
    <3>6. target[c] # id /\ (pc'[c] \in {"read", "reconcile", "repair", "decide"} => target'[c] = id)
      BY <1>1, <2>0, <3>1, <3>2 DEF Awaited
    <3> QED BY <2>0, <3>2, <3>3, <3>4, <3>5, <3>6 DEF Awaited
  <2>7. CASE NothingLeft(c)
    <3>1. ran' = ran /\ due' = due /\ target' = target /\ due[c] = Empty /\ pc[c] = "next"
      BY <2>7 DEF NothingLeft
    <3>2. target[c] = NoId
      BY <1>1, <3>1, RoutineAssumption DEF Leases, RoutineInv, Held
    <3> QED BY <1>6, <3>1, <3>2
  <2>8. CASE StartRun(c) \/ Finish(c)
    <3>1. /\ ran' = ran /\ due' = due /\ target' = target /\ slot' = slot
          /\ pc'[c] \in {"running", "close", "receipt"}
      BY <1>1, <2>8 DEF StartRun, Finish
    <3> QED BY <1>5, <1>7, <3>1 DEF Live
  <2>9. CASE Write(c)
    <3>1. /\ due' = due /\ target' = target /\ slot' = slot
          /\ pc[c] \in {"repair", "decide", "receipt", "save", "prune"}
          /\ pc'[c] \in {"decide", "save", "prune", "close"}
          /\ pc'[c] = "decide" => pc[c] = "repair"
      BY <1>1, <2>9 DEF Write, Continue, Effect, Repair, Put, Delete, WriteReceipt, SaveRun, Prune
    <3>2. CASE WriteReceipt(c)
      <4>1. /\ pc[c] = "receipt" /\ pc'[c] = "save" /\ ran' = [ran EXCEPT ![target[c]] = loaded[c][target[c]].last]
        BY <1>1, <2>9, <3>2 DEF WriteReceipt, Write, Continue
      <4>2. ran \in [Id -> 0 .. MaxTime]
        BY <1>1 DEF RoutineInv, Data
      <4>3. \A id \in DOMAIN due[c] : ran'[id] = ran[id]
        BY <1>1, <2>0, <4>1, <4>2 DEF Awaited
      <4> QED BY <2>0, <3>1, <4>1, <4>3 DEF Awaited, Live
    <3>3. CASE ~WriteReceipt(c)
      <4>1. ran' = ran
        BY <2>9, <3>3 DEF Write, Effect, Repair, Put, Delete, SaveRun, Prune, WriteStore
      <4> QED BY <1>5, <1>7, <3>1, <4>1 DEF Live
    <3> QED BY <3>2, <3>3
  <2>10. CASE StepFails(c)
    <3>1. CASE holder = c
      <4>1. pc'[c] = "close" /\ due' = due /\ target' = target /\ slot' = slot
        BY <1>1, <2>10, <3>1 DEF StepFails, GiveUp
      <4>2. \A id \in DOMAIN due[c] : ran'[id] = ran[id]
        <5>1. CASE WriteReceipt(c)
          <6>1. ran' = [ran EXCEPT ![target[c]] = loaded[c][target[c]].last] /\ ran \in [Id -> 0 .. MaxTime]
            BY <1>1, <5>1 DEF WriteReceipt, RoutineInv, Data
          <6> QED BY <1>1, <2>0, <6>1 DEF Awaited
        <5>2. CASE ~WriteReceipt(c)
          BY <2>10, <5>2 DEF StepFails, Effect, Repair, Put, Delete, SaveRun, Prune, WriteStore
        <5> QED BY <5>1, <5>2
      <4> QED BY <2>0, <4>1, <4>2 DEF Awaited, Live
    <3>2. CASE holder # c
      <4>1. due'[c] = Empty /\ target'[c] = NoId
        BY <1>1, <2>10, <3>2 DEF StepFails, GiveUp, DropAll, Drop
      <4>2. pc[c] # "receipt"
        BY <2>0, <3>2
      <4>3. ran' = ran
        BY <2>10, <4>2 DEF StepFails, Effect, Repair, Put, Delete, WriteReceipt, SaveRun, Prune, WriteStore
      <4> QED BY <1>6, <4>1, <4>3
    <3> QED BY <3>1, <3>2
  <2>11. CASE Close(c)
    <3>1. /\ ran' = ran /\ due' = due /\ target'[c] = NoId /\ pc[c] = "close"
          /\ pc'[c] = IF KindOf[c] = "runDue" THEN "next" ELSE "done"
      BY <1>1, <2>11 DEF Close, Drop
    <3> QED BY <1>1, <2>0, <3>1 DEF Awaited, Live
  <2>12. CASE Crash(c)
    <3>1. ran' = ran /\ due'[c] = Empty /\ target'[c] = NoId
      BY <1>1, <2>12 DEF Crash, DropAll, Drop
    <3> QED BY <1>6, <3>1
  <2> QED BY <1>7, <2>1, <2>2, <2>3, <2>4, <2>5, <2>6, <2>7, <2>8, <2>9, <2>10, <2>11, <2>12 DEF Step
<1>8. ASSUME NEW c \in Call, Step(c)
      PROVE  ran' = ran \/ WriteReceipt(c)
  BY <1>8 DEF Step, BeginLeased, BeginOpen, Read, Reconcile, Answer, Due, Pick, NothingLeft, StartRun, Finish,
     Write, StepFails, Effect, Repair, Put, Delete, SaveRun, Prune, WriteStore, Close, Crash
<1>9. ASSUME NEW c \in Call, Step(c)
      PROVE  Slots'
  BY <1>3, <1>4, <1>7, <1>8, <1>9 DEF Slots
<1> QED BY <1>2, <1>9 DEF Next

\* run-due does not run a routine for a due time that a run with a receipt has covered
\* (OPERATIONS.md:69), from any files, for any calls, crashes and failures, as long as
\* calls that disturb each other do not overlap and the Keep newest receipts reach back.
THEOREM RoutinesNotDueAgain ==
  ASSUME ~Overlap
  PROVE  Spec /\ ReceiptsSeen => NotDueAgain
<1> DEFINE A == \A c \in Call : KindOf[c] = "runDue" /\ pc[c] = "decide" /\ pc'[c] = "running" => ran[target[c]] < slot[c]
<1>1. Init => Slots
  BY EmptyIs, RoutineAssumption DEF Init, Slots, Awaited
<1>2. BookInv /\ Slots /\ [Next]_vars /\ [Seen]_vars => Slots'
  <2>1. BookInv /\ UNCHANGED vars => Seen
    BY DEF Seen, vars
  <2> QED BY <2>1, SlotsStep
<1>3. BookInv /\ Slots /\ [Next]_vars => [A]_vars
  <2> SUFFICES ASSUME BookInv, Slots, Next, NEW c \in Call,
                      KindOf[c] = "runDue", pc[c] = "decide", pc'[c] = "running"
               PROVE  ran[target[c]] < slot[c]
    OBVIOUS
  <2>1. pc \in [Call -> Labels] /\ RoutineInv /\ Leases
    BY DEF BookInv, RoutineInv, Placed
  <2>2. PICK d \in Call : Step(d)
    BY DEF Next, Tick
  <2>3. d = c
    BY <2>1, <2>2, OthersKept
  <2>4. target[c] # NoId
    <3> USE DEF Goto
    <3>1. CASE StartRun(c)
      BY <3>1 DEF StartRun, IsRun
    <3>2. CASE Write(c)
      BY <2>1, <3>2 DEF Write, Continue
    <3>3. CASE StepFails(c) \/ Crash(c) \/ Close(c)
      BY <2>1, <3>3 DEF StepFails, GiveUp, Crash, Close
    <3>4. CASE Due(c)
      BY <2>1, <3>4 DEF Due
    <3> QED BY <2>2, <2>3, <3>1, <3>2, <3>3, <3>4 DEF Step, BeginLeased, BeginOpen, MayBegin, Read, Reconcile, Answer,
              Pick, NothingLeft, Finish
  <2> QED BY <2>4 DEF Slots, Awaited
<1> QED BY <1>1, <1>2, <1>3, BookInvHolds, PTL DEF Spec, ReceiptsSeen, NotDueAgain
=============================================================================
