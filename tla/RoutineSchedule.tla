---------------------------- MODULE RoutineSchedule -------------------------
(***************************************************************************)
(* The schedule arithmetic of internal/routines/schedule.go.  Times count  *)
(* from a Monday midnight in the time zone of the schedule; a day has Day  *)
(* of them.  The zero time of the code is Never.                           *)
(***************************************************************************)
EXTENDS Integers

CONSTANTS Day

ASSUME DayAssumption == Day \in Nat \ {0}

Never == 0

\* A valid schedule: validateRoutine refuses any other.
IsSchedule(s) ==
    /\ s.kind \in {"manual", "interval", "daily", "weekdays"}
    /\ s.every \in Nat \ {0} /\ s.at \in 0 .. Day - 1

Midnight(t) == t - (t % Day)
Weekend(t) == ((t \div Day) % 7) \in {5, 6}

\* NextClock with the comparison the wrong way at the very minute of the schedule.
NextClockInclusive(at, now) ==
    IF Midnight(now) + at >= now THEN Midnight(now) + at ELSE Midnight(now) + at + Day

\* The wall-clock time `at`, today if it is still to come.
NextClock(at, now) ==
    IF Midnight(now) + at > now THEN Midnight(now) + at ELSE Midnight(now) + at + Day

\* The first of t, a day later, two days later that is not on a weekend.
Workday(t) ==
    CHOOSE u \in {t, t + Day, t + 2 * Day} :
        ~Weekend(u) /\ \A v \in {t, t + Day} : v < u => Weekend(v)

Later(t, u) == IF t > u THEN t ELSE u

NextRun(s, now, last) ==
    CASE s.kind = "manual" -> Never
      [] s.kind = "interval" -> Later(now, last) + s.every
      [] s.kind = "daily" -> NextClock(s.at, now)
      [] s.kind = "weekdays" -> Workday(NextClock(s.at, now))

\* nextForRoutine: a disabled routine has no next run.
NextFor(r, now) == IF r.enabled THEN NextRun(r.schedule, now, r.last) ELSE Never

Scheduled(r, t) == [r EXCEPT !.updated = t, !.next = NextFor(r, t)]

\* A finished run at t: the schedule starts again from it.
AfterRun(r, t) == Scheduled([r EXCEPT !.last = t], t)

\* A definition that is put at t.
Entry(definition, last, t) ==
    Scheduled([enabled |-> definition.enabled, schedule |-> definition.schedule,
               last |-> last, updated |-> t, next |-> Never], t)

\* How a schedule reads: the times at which a clock schedule falls due.
Falls(s, t) == (t % Day) = s.at /\ (s.kind = "weekdays" => ~Weekend(t))

\* The next run of a routine is the first such time after its last change.
Exact(r) ==
    LET s == r.schedule
    IN  CASE ~r.enabled \/ s.kind = "manual" -> r.next = Never
          [] r.enabled /\ s.kind = "interval" -> r.next = r.updated + s.every
          [] r.enabled /\ s.kind \in {"daily", "weekdays"} ->
                /\ r.next > r.updated /\ Falls(s, r.next)
                /\ \A t \in r.updated + 1 .. r.next - 1 : ~Falls(s, t)
=============================================================================
