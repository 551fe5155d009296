----------------------------- MODULE MCWorkspace ----------------------------
(***************************************************************************)
(* A folder f over a folder g over a workspace w, with an artifact in w,   *)
(* and a free identifier x.                                                *)
(***************************************************************************)
EXTENDS Workspace

Mutate(kind, item, parent, artifact, version) ==
    [kind |-> kind, item |-> item, parent |-> parent, artifact |-> artifact, version |-> version]

MCMutationOf == [c \in Writer |->
    CASE c = "createX" -> Mutate("create", "x", "g", "a", 1)
      [] c = "lower" -> Mutate("update", "f", "g", "a", 1)
      [] c = "raise" -> Mutate("update", "g", "top", "a", 1)
      [] c = "delete" -> Mutate("delete", "f", "top", "a", 1)
      [] c = "remember" -> Mutate("remember", "w", "top", "a", 1)
      [] c = "forget" -> Mutate("forget", "w", "top", "a", 1)
      [] c = "add" -> Mutate("add", "w", "top", "a", 2)
      [] c = "replace" -> Mutate("replace", "w", "top", "a", 3)
      [] c = "remove" -> Mutate("remove", "w", "top", "a", 1)]

\* There is no memory file before the first memory entry.
MCInitialFiles == {
    [items |-> [i \in {"f", "g", "w"} |-> IF i = "f" THEN "top" ELSE IF i = "g" THEN "f" ELSE "g"],
     memory |-> NoFile,
     artifacts |-> [a \in {"a"} |-> [of |-> "w", version |-> 1]]]}

\* Mutations that disturb each other, and an artifact that comes and goes.
MCMeetings == {{"delete", "createX"}, {"lower", "raise"}, {"delete", "remember"},
               {"delete", "replace"}, {"add", "remove"}, {"replace", "remove"}, {"forget"}}

\* The meetings that show a disagreement with the documents.
MemoryMeeting == {{"remember", "forget"}}
CreateMeeting == {{"createX"}}
=============================================================================
