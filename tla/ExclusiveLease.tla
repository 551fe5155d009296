--------------------------- MODULE ExclusiveLease ----------------------------
(***************************************************************************)
(* What the mutation lease promises its users: callers acquire it one at a *)
(* time and keep it until they close it or their process ends.  The file   *)
(* protocol of MutationLease implements this when acquisitions do not      *)
(* overlap; the modules of the lease's users are written over it.          *)
(***************************************************************************)
CONSTANT Op
VARIABLE holders

TypeOK == holders \in SUBSET Op

Init == holders = {}

Acquire(o) == holders = {} /\ holders' = {o}

\* One holder closes its lease, or all holders of one process end with it.
Release(S) == S \cap holders # {} /\ holders' = holders \ S

Next == \/ \E o \in Op : Acquire(o)
        \/ \E S \in SUBSET Op : Release(S)

Spec == Init /\ [][Next]_holders

\* Never two holders at once.
Exclusive == \A o, q \in holders : o = q
=============================================================================
