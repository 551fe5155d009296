---------------------------- MODULE WorkspaceOps ----------------------------
(***************************************************************************)
(* What the mutations of internal/workspace do to the three collections of *)
(* the store: the folder hierarchy (workspaces.json), the memory entries   *)
(* of workspaces (memory.json) and the registry of artifacts               *)
(* (artifacts.json).  An item is its parent, a memory entry its workspace  *)
(* and an artifact its workspace and the version of its content.           *)
(***************************************************************************)
EXTENDS Naturals, FiniteSets, Functions

CONSTANTS
    Item,       \* identifiers of folders and workspaces
    Folder,     \* those that are folders
    Top,        \* the parent of an item that has none
    Artifact,   \* artifact identifiers
    Version,    \* contents of artifacts
    MaxItems,   \* maxWorkspaceItems
    MaxEntries  \* maxMemoryEntries

ASSUME WorkspaceAssumption ==
    /\ IsFiniteSet(Item) /\ Folder \subseteq Item /\ Top \notin Item
    /\ MaxItems \in Nat /\ MaxEntries \in Nat

Partial(S, T) == UNION {[D -> T] : D \in SUBSET S}

Collection == {"items", "memory", "artifacts"}
Hierarchy == Partial(Item, Item \cup {Top})
Registry == Partial(Artifact, [of : Item \ Folder, version : Version])
Contents == [items : Hierarchy, memory : SUBSET Item, artifacts : Registry]

\* A mutation: its kind and its arguments.
Mutation == [kind : {"create", "update", "delete", "remember", "forget", "add", "replace", "remove"},
             item : Item, parent : Item \cup {Top}, artifact : Artifact, version : Version]

\* The collections each mutation loads, and those it commits.
Loads(m) ==
    CASE m.kind \in {"create", "update"} -> {"items"}
      [] m.kind = "delete" -> Collection
      [] m.kind \in {"remember", "forget"} -> {"memory"}
      [] m.kind \in {"add", "replace"} -> {"items", "artifacts"}
      [] m.kind = "remove" -> {"artifacts"}

Commits(m) == IF m.kind \in {"add", "replace"} THEN {"artifacts"} ELSE Loads(m)

-----------------------------------------------------------------------------
\* The item reached from i by n steps towards the top.
Above(items, i, n) ==
    LET up[k \in Nat] ==
            IF k = 0 THEN i
            ELSE LET child == up[k - 1] IN IF child \in DOMAIN items THEN items[child] ELSE Top
    IN  up[n]

\* Does the walk from the parent come back to the item, or go round elsewhere?
CreatesCycle(items, item, parent) ==
    \/ \E n \in 0 .. Cardinality(Item) : Above(items, parent, n) = item
    \/ Above(items, parent, Cardinality(Item)) # Top

\* DeleteSet without the repetition: the children of children stay.
ChildrenOnly(items, item) == {i \in DOMAIN items : i = item \/ items[i] = item}

\* The item and everything below it.
DeleteSet(items, item) ==
    {i \in DOMAIN items : \E n \in 0 .. Cardinality(Item) : Above(items, i, n) = item}

IsParent(items, parent) == parent = Top \/ (parent \in DOMAIN items /\ parent \in Folder)

\* validateLoadedItems: what a load of workspaces.json accepts.
ValidItems(items) ==
    /\ Cardinality(DOMAIN items) <= MaxItems
    /\ \A i \in DOMAIN items : IsParent(items, items[i]) /\ ~CreatesCycle(items, i, items[i])

ValidMemory(memory) == Cardinality(memory) <= MaxEntries

-----------------------------------------------------------------------------
\* May the mutation go ahead, given what it has loaded?
MayCreate(m, s) == m.item \notin DOMAIN s.items /\ IsParent(s.items, m.parent)

MayUpdate(m, s) ==
    /\ m.item \in DOMAIN s.items
    /\ IsParent(s.items, m.parent)
    /\ ~CreatesCycle(s.items, m.item, m.parent)

MayRemember(m, s) == ValidMemory(s.memory \cup {m.item})

MayAdd(m, s) ==
    /\ m.item \in DOMAIN s.items \ Folder
    /\ m.artifact \in DOMAIN s.artifacts => m.kind = "replace"

Admits(m, s) ==
    CASE m.kind = "create" -> MayCreate(m, s)
      [] m.kind = "update" -> MayUpdate(m, s)
      [] m.kind = "delete" -> m.item \in DOMAIN s.items
      [] m.kind = "remember" -> MayRemember(m, s)
      [] m.kind = "forget" -> TRUE
      [] m.kind \in {"add", "replace"} -> MayAdd(m, s)
      [] m.kind = "remove" -> m.artifact \in DOMAIN s.artifacts

Put(f, key, value) == [x \in DOMAIN f \cup {key} |-> IF x = key THEN value ELSE f[x]]

\* What Delete leaves of the three collections.
WithoutSubtree(s, item) ==
    LET gone == DeleteSet(s.items, item)
    IN  [items |-> Restrict(s.items, DOMAIN s.items \ gone),
         memory |-> s.memory \ gone,
         artifacts |-> Restrict(s.artifacts,
                                {a \in DOMAIN s.artifacts : s.artifacts[a].of \notin gone})]

\* The collections after the mutation.
Applied(m, s) ==
    CASE m.kind \in {"create", "update"} -> [s EXCEPT !.items = Put(@, m.item, m.parent)]
      [] m.kind = "delete" -> WithoutSubtree(s, m.item)
      [] m.kind = "remember" -> [s EXCEPT !.memory = @ \cup {m.item}]
      [] m.kind = "forget" -> [s EXCEPT !.memory = @ \ {m.item}]
      [] m.kind \in {"add", "replace"} ->
            [s EXCEPT !.artifacts = Put(@, m.artifact, [of |-> m.item, version |-> m.version])]
      [] m.kind = "remove" ->
            [s EXCEPT !.artifacts = Restrict(@, DOMAIN @ \ {m.artifact})]
=============================================================================
