----------------------------- MODULE AtomicStore ----------------------------
(***************************************************************************)
(* What the workspace store promises its users: one mutation after the     *)
(* other takes effect as a whole, on the collections its predecessor left, *)
(* and a mutation that fails or is interrupted has no effect at all.       *)
(***************************************************************************)
EXTENDS WorkspaceOps

CONSTANTS
    Writer,     \* calls that mutate the store
    MutationOf  \* the mutation of each of them

VARIABLES
    store,      \* the three collections
    committed   \* the mutations that have taken effect

Init ==
    /\ store \in Contents
    /\ committed = {}

Commit(w) ==
    /\ w \notin committed
    /\ Admits(MutationOf[w], store)
    /\ store' = Applied(MutationOf[w], store)
    /\ committed' = committed \cup {w}

Next == \E w \in Writer : Commit(w)

Spec == Init /\ [][Next]_<<store, committed>>
=============================================================================
