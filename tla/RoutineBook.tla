------------------------------ MODULE RoutineBook ---------------------------
(***************************************************************************)
(* What internal/routines promises: a book of routines that definitions,   *)
(* deletions and finished runs change one at a time and as a whole.        *)
(***************************************************************************)
EXTENDS RoutineSchedule

CONSTANTS Id, Definition

VARIABLES
    now,
    book,   \* the routines: definition, last and next run
    ran     \* when each identifier last finished a run, Never if it has not

vars == <<now, book, ran>>

Enter(id, r) == book' = [i \in DOMAIN book \cup {id} |-> IF i = id THEN r ELSE book[i]]

Init ==
    /\ now \in Nat
    /\ \A id \in DOMAIN book : id \in Id /\ book[id].last = ran[id]

\* A redefined routine keeps its last run.  One that is new is scheduled from
\* now, unless receipts of a deleted routine of the same name are left: then it
\* inherits the last of them.
Put(id, definition) ==
    /\ UNCHANGED <<now, ran>>
    /\ IF id \in DOMAIN book
       THEN Enter(id, Entry(definition, book[id].last, now))
       ELSE \/ Enter(id, Entry(definition, Never, now))
            \/ ran[id] # Never /\ Enter(id, Entry(definition, ran[id], ran[id]))

Delete(id) ==
    /\ UNCHANGED <<now, ran>>
    /\ book' = [i \in DOMAIN book \ {id} |-> book[i]]

\* A run that finished at t, after the last one.
Run(id, t) ==
    /\ id \in DOMAIN book /\ book[id].enabled
    /\ book[id].last < t /\ t <= now
    /\ UNCHANGED now
    /\ ran' = [ran EXCEPT ![id] = t]
    /\ Enter(id, AfterRun(book[id], t))

Tick == now' > now /\ UNCHANGED <<book, ran>>

Next ==
    \/ Tick
    \/ /\ book' # book
       /\ \E id \in Id : \/ Delete(id)
                         \/ \E t \in 1 .. now : Run(id, t)
                         \/ \E d \in Definition : Put(id, d)

Spec == Init /\ [][Next]_vars
=============================================================================
