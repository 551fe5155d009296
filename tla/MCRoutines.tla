------------------------------ MODULE MCRoutines ----------------------------
(***************************************************************************)
(* A weekday routine "brief" and an interval routine "sweep", from a       *)
(* Friday into the next week.                                              *)
(***************************************************************************)
EXTENDS Routines

Schedule(kind, every, at) == [kind |-> kind, every |-> every, at |-> at]
Define(enabled, schedule) == [enabled |-> enabled, schedule |-> schedule]

Weekdays == Schedule("weekdays", 1, 1)
Every3 == Schedule("interval", 3, 0)

MCDefinition == {Define(TRUE, Weekdays), Define(TRUE, Every3), Define(FALSE, Weekdays),
                 Define(TRUE, Schedule("daily", 1, 0)), Define(TRUE, Schedule("manual", 1, 0))}

MCKindOf == [c \in Call |->
    CASE c \in {"list"} -> "list" [] c \in {"due1", "due2"} -> "runDue" [] c = "runBrief" -> "run"
      [] c = "remove" -> "delete" [] OTHER -> "put"]
MCIdOf == [c \in Call |->
    CASE c \in {"list", "due1", "due2"} -> NoId [] c = "putSweep" -> "sweep" [] OTHER -> "brief"]
MCDefinitionOf == [c \in Call |->
    CASE c = "putDaily" -> Define(TRUE, Schedule("daily", 1, 0))
      [] c = "putOff" -> Define(FALSE, Weekdays)
      [] c = "putSweep" -> Define(TRUE, Schedule("manual", 1, 0))
      [] OTHER -> Define(TRUE, Weekdays)]

\* Half-day ticks; day 4 is a Friday, days 5 and 6 the weekend.
Stored(definition, last, next) ==
    [enabled |-> TRUE, schedule |-> definition, last |-> last, updated |-> last, next |-> next]
MCInitial == {
    [store |-> NoFile, receipts |-> {}],
    [store |-> [id \in {"brief", "sweep"} |->
                   IF id = "brief" THEN Stored(Weekdays, 7, 9) ELSE Stored(Every3, 6, 9)],
     receipts |-> {[routine |-> "brief", finished |-> 7], [routine |-> "sweep", finished |-> 6]}]}

MCMeetings == {{"due1", "due2", "list"}, {"runBrief", "list"}, {"putDaily", "due1"},
               {"remove", "putBrief", "runBrief"}, {"putOff", "putSweep", "runBrief"}}
=============================================================================
