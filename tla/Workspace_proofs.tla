--------------------------- MODULE Workspace_proofs --------------------------
(***************************************************************************)
(* Proofs about the transactions of the workspace store, for any callers,  *)
(* any mutations and any number of crashes and failures: what a caller is  *)
(* told is what happened, and, where no two calls recover at the same time *)
(* and no live commit looks stale, the files implement AtomicStore, the    *)
(* hierarchy stays a forest and no registered artifact loses its content.  *)
(***************************************************************************)
EXTENDS Workspace, FiniteSetTheorems, NaturalsInduction, TLAPS

CollectionType(c) ==
    CASE c = "items" -> Hierarchy [] c = "memory" -> SUBSET Item [] c = "artifacts" -> Registry
Anything == Hierarchy \cup (SUBSET Item) \cup Registry
Collections == {s \in [Collection -> Anything] : \A c \in Collection : s[c] \in CollectionType(c)}
Files == {f \in [Collection -> Anything \cup {NoFile}] :
             \A c \in Collection : f[c] \in CollectionType(c) \cup {NoFile}}

Labels == {"idle", "check", "restore", "discard", "read", "judge", "move", "undo",
           "begin", "write", "clean", "close", "done", "crashed"}

-----------------------------------------------------------------------------
(* What a caller is told.                                                   *)

\* A call that has committed is past its transaction, and has no answer before.
Told ==
    /\ pc \in [Call -> Labels] /\ after \in [Call -> {"read", "begin", "undo", "clean"}]
    /\ result \in [Writer -> {"none", "ok", "unchanged", "failed", "unfinalized", "stranded"}]
    /\ \A w \in Writer :
          /\ result[w] # "none" => pc[w] \in {"close", "done", "crashed"} \/ (pc[w] = "undo" /\ result[w] = "unfinalized")
          /\ result[w] \in {"failed", "unchanged", "unfinalized", "stranded"} => w \notin committed
          /\ result[w] = "ok" => w \in committed
          /\ w \in committed => pc[w] \in {"discard", "clean", "close", "done", "crashed"}
          /\ w \in committed /\ pc[w] = "discard" => after[w] = "clean"
          /\ pc[w] \in {"discard", "clean"} /\ after[w] = "clean" => w \in committed
          /\ pc[w] \in {"idle", "check", "read"} => after[w] \in {"read", "begin"}
          /\ pc[w] = "clean" => after[w] = "clean"
          /\ pc[w] = "restore" => after[w] # "clean"

\* Initially nothing was answered.
LEMMA ToldInit == Init => Told
  BY CallAssumption DEF Init, Told, Labels, Call

\* Every step keeps it.
LEMMA ToldStep == Told /\ [Next]_vars => Told'
<1> SUFFICES ASSUME Told, [Next]_vars
             PROVE  Told'
  OBVIOUS
<1> USE CallAssumption DEF Told, Labels, Call, Goto, Return, Fail, Forget
<1>1. ASSUME NEW r \in Reader, BeginRead(r)
      PROVE  Told'
  BY <1>1 DEF BeginRead, work
<1>2. ASSUME NEW w \in Writer, BeginWrite(w)
      PROVE  Told'
  BY <1>2 DEF BeginWrite, work
<1>3. ASSUME NEW w \in Writer, Judge(w)
      PROVE  Told'
  BY <1>3 DEF Judge, work
<1>4. ASSUME NEW w \in Writer, MoveAside(w) \/ Place(w) \/ MoveFails(w)
      PROVE  Told'
  BY <1>4 DEF MoveAside, Place, MoveFails, work
<1>5. ASSUME NEW w \in Writer, Undo(w) \/ UndoFails(w)
      PROVE  Told'
  BY <1>5 DEF Undo, UndoFails, work
<1>6. ASSUME NEW w \in Writer, Publish(w) \/ PublishFails(w)
      PROVE  Told'
  BY <1>6 DEF Publish, PublishFails, work
<1>7. ASSUME NEW w \in Writer, WriteFile(w) \/ WriteFails(w)
      PROVE  Told'
  BY <1>7 DEF WriteFile, WriteFails, work
<1>8. ASSUME NEW w \in Writer, Finalize(w) \/ FinalizeFails(w)
      PROVE  Told'
  BY <1>8 DEF Finalize, FinalizeFails, work
<1>9. ASSUME NEW w \in Writer, Clean(w) \/ Close(w)
      PROVE  Told'
  BY <1>9 DEF Clean, Close, Answer, work
<1>10. ASSUME NEW p \in Call, Clear(p) \/ Refused(p) \/ Recover(p)
       PROVE  Told'
  BY <1>10 DEF Clear, Refused, Recover, work
<1>11. ASSUME NEW p \in Call, Read(p)
       PROVE  Told'
  BY <1>11 DEF Read, work
<1>12. ASSUME NEW p \in Call, RestoreFile(p) \/ Restored(p) \/ RestoreGivesUp(p) \/ Discard(p)
       PROVE  Told'
  BY <1>12 DEF RestoreFile, Restored, RestoreGivesUp, Discard, work
<1>13. ASSUME NEW p \in Call, Crash(p)
       PROVE  Told'
  BY <1>13 DEF Crash, work
<1>14. CASE (\E t \in Writer : Age(t)) \/ UNCHANGED vars
  BY <1>14 DEF Age, work, vars
<1> QED
  BY <1>1, <1>2, <1>3, <1>4, <1>5, <1>6, <1>7, <1>8, <1>9, <1>10, <1>11, <1>12, <1>13, <1>14
  DEF Next, Load, Restore, Move, Commit

-----------------------------------------------------------------------------
(* The operators on collections.                                            *)

\* A map with one more entry keeps its type.
LEMMA PutTyped ==
  ASSUME NEW S, NEW T, NEW f \in Partial(S, T), NEW x \in S, NEW y \in T
  PROVE  Put(f, x, y) \in Partial(S, T)
<1>1. PICK D \in SUBSET S : f \in [D -> T]
  BY DEF Partial
<1>2. D \cup {x} \in SUBSET S /\ Put(f, x, y) \in [D \cup {x} -> T]
  BY <1>1 DEF Put
<1> QED BY <1>2 DEF Partial

\* So does one that is restricted to some of its entries.
LEMMA RestrictTyped ==
  ASSUME NEW S, NEW T, NEW f \in Partial(S, T), NEW D \in SUBSET DOMAIN f
  PROVE  Restrict(f, D) \in Partial(S, T)
<1>1. PICK E \in SUBSET S : f \in [E -> T]
  BY DEF Partial
<1>2. D \in SUBSET S /\ Restrict(f, D) \in [D -> T]
  BY <1>1 DEF Restrict
<1> QED BY <1>2 DEF Partial

\* Empty files and absent ones are read as collections.
LEMMA EmptyTyped == Empty \in Collections
<1>1. [i \in {} |-> Top] \in [{} -> Item \cup {Top}] /\ [a \in {} |-> Top] \in [{} -> [of : Item \ Folder, version : Version]]
  OBVIOUS
<1>2. [i \in {} |-> Top] \in Hierarchy /\ [a \in {} |-> Top] \in Registry
  BY <1>1 DEF Hierarchy, Registry, Partial
<1> QED BY <1>2 DEF Empty, Collections, CollectionType, Anything, Collection

\* Files of the right types are loaded as collections.
LEMMA LoadedTyped ==
  ASSUME NEW f \in Files
  PROVE  Loaded(f) \in Collections
BY EmptyTyped DEF Loaded, Files, Collections

\* A record of collections is a function on them, and the other way round.
LEMMA TypesAre ==
  /\ CollectionType("items") = Hierarchy /\ CollectionType("memory") = SUBSET Item
  /\ CollectionType("artifacts") = Registry
  /\ Hierarchy \subseteq Anything /\ SUBSET Item \subseteq Anything /\ Registry \subseteq Anything
<1>1. /\ CollectionType("items") = Hierarchy /\ CollectionType("memory") = SUBSET Item
      /\ CollectionType("artifacts") = Registry
  BY DEF CollectionType
<1>2. Hierarchy \subseteq Anything /\ SUBSET Item \subseteq Anything /\ Registry \subseteq Anything
  BY Zenon DEF Anything
<1> QED BY <1>1, <1>2

\* Collections are typed one by one.
LEMMA CollectionsAre ==
  ASSUME NEW s
  PROVE  s \in Collections <=>
            /\ s = [c \in Collection |-> s[c]]
            /\ s["items"] \in Hierarchy /\ s["memory"] \in SUBSET Item /\ s["artifacts"] \in Registry
<1>1. ASSUME s \in Collections
      PROVE  /\ s = [c \in Collection |-> s[c]]
             /\ s["items"] \in Hierarchy /\ s["memory"] \in SUBSET Item /\ s["artifacts"] \in Registry
  <2>1. s \in [Collection -> Anything] /\ \A c \in Collection : s[c] \in CollectionType(c)
    BY <1>1 DEF Collections
  <2> HIDE DEF Anything
  <2> QED BY <2>1 DEF CollectionType, Collection
<1>2. ASSUME s = [c \in Collection |-> s[c]],
             s["items"] \in Hierarchy, s["memory"] \in SUBSET Item, s["artifacts"] \in Registry
      PROVE  s \in Collections
  <2>1. \A c \in Collection : s[c] \in CollectionType(c) /\ s[c] \in Anything
    BY <1>2, TypesAre, Zenon DEF Collection
  <2>2. s \in [Collection -> Anything]
    BY <1>2, <2>1
  <2> QED BY <2>1, <2>2 DEF Collections
<1> QED BY <1>1, <1>2

\* Collections are contents of the abstract store.
LEMMA ContentsAreCollections == Collections \subseteq Contents
<1>1. ASSUME NEW s \in Collections
      PROVE  s \in Contents
  BY CollectionsAre DEF Contents, Collection
<1> QED BY <1>1

\* The first files have the right types.
LEMMA FilesTyped == InitialFiles \subseteq Files
<1>1. SUFFICES ASSUME NEW f \in InitialFiles
               PROVE  f \in Files
  OBVIOUS
<1>2. /\ f = [c \in Collection |-> f[c]]
      /\ f["items"] \in Hierarchy \cup {NoFile} /\ f["memory"] \in (SUBSET Item) \cup {NoFile}
      /\ f["artifacts"] \in Registry \cup {NoFile}
  BY FilesAssumption DEF Collection
<1>3. \A c \in Collection : f[c] \in CollectionType(c) \cup {NoFile} /\ f[c] \in Anything \cup {NoFile}
  BY <1>2, TypesAre, Zenon DEF Collection
<1>4. f \in [Collection -> Anything \cup {NoFile}]
  BY <1>2, <1>3
<1> QED BY <1>3, <1>4 DEF Files

\* A mutation looks only at what it loads, changes only what it commits, and keeps types.
LEMMA MutationReads ==
  ASSUME NEW m \in Mutation, NEW s \in Collections, NEW t \in Collections,
         \A c \in Loads(m) : s[c] = t[c]
  PROVE  /\ Admits(m, s) = Admits(m, t)
         /\ \A c \in Commits(m) : Applied(m, s)[c] = Applied(m, t)[c]
<1> USE DEF Collections, Collection, Admits, Applied, Loads, Commits
<1>1. CASE m.kind \in {"create", "update"}
  BY <1>1 DEF MayCreate, MayUpdate
<1>2. CASE m.kind = "delete"
  BY <1>2 DEF WithoutSubtree
<1>3. CASE m.kind \in {"remember", "forget"}
  BY <1>3 DEF MayRemember
<1>4. CASE m.kind \in {"add", "replace"}
  BY <1>4 DEF MayAdd
<1>5. CASE m.kind = "remove"
  BY <1>5
<1> QED BY <1>1, <1>2, <1>3, <1>4, <1>5 DEF Mutation

\* What a mutation makes of collections are collections, and only those it commits change.
LEMMA MutationWrites ==
  ASSUME NEW m \in Mutation, NEW s \in Collections, Admits(m, s)
  PROVE  /\ Applied(m, s) \in Collections
         /\ Commits(m) \subseteq Collection /\ Loads(m) \subseteq Collection
         /\ \A c \in Collection \ Commits(m) : Applied(m, s)[c] = s[c]
<1> DEFINE u == Applied(m, s)
<1>0. /\ s = [c \in Collection |-> s[c]]
      /\ s["items"] \in Hierarchy /\ s["memory"] \in SUBSET Item /\ s["artifacts"] \in Registry
      /\ s.items = s["items"] /\ s.memory = s["memory"] /\ s.artifacts = s["artifacts"]
      /\ m.item \in Item /\ m.parent \in Item \cup {Top} /\ m.artifact \in Artifact /\ m.version \in Version
  BY CollectionsAre DEF Mutation
<1>1. SUFFICES /\ u = [c \in Collection |-> u[c]]
               /\ u["items"] \in Hierarchy /\ u["memory"] \in SUBSET Item /\ u["artifacts"] \in Registry
               /\ \A c \in Collection \ Commits(m) : u[c] = s[c]
               /\ Commits(m) \subseteq Collection /\ Loads(m) \subseteq Collection
  BY CollectionsAre
<1>2. CASE m.kind \in {"create", "update"}
  <2>1. Put(s["items"], m.item, m.parent) \in Hierarchy
    BY <1>0, PutTyped DEF Hierarchy
  <2>2. u = [c \in Collection |-> IF c = "items" THEN Put(s["items"], m.item, m.parent) ELSE s[c]]
    BY <1>0, <1>2 DEF Applied, Collection
  <2> QED BY <1>0, <1>2, <2>1, <2>2 DEF Commits, Loads, Collection
<1>3. CASE m.kind = "delete"
  <2> DEFINE gone == DeleteSet(s.items, m.item)
             artifacts == {a \in DOMAIN s["artifacts"] : s["artifacts"][a].of \notin gone}
  <2>1. Restrict(s["items"], DOMAIN s["items"] \ gone) \in Hierarchy
    BY <1>0, RestrictTyped DEF Hierarchy
  <2>2. Restrict(s["artifacts"], artifacts) \in Registry
    BY <1>0, RestrictTyped DEF Registry
  <2>3. u = [items |-> Restrict(s["items"], DOMAIN s["items"] \ gone), memory |-> s["memory"] \ gone,
             artifacts |-> Restrict(s["artifacts"], artifacts)]
    BY <1>0, <1>3 DEF Applied, WithoutSubtree
  <2>4. u = [c \in Collection |-> u[c]]
    BY <2>3 DEF Collection
  <2>5. /\ u["items"] = Restrict(s["items"], DOMAIN s["items"] \ gone)
        /\ u["memory"] = s["memory"] \ gone /\ u["artifacts"] = Restrict(s["artifacts"], artifacts)
    BY <2>3
  <2>6. Commits(m) = Collection /\ Loads(m) = Collection
    BY <1>3 DEF Commits, Loads
  <2> HIDE DEF u, gone, artifacts
  <2> QED BY <1>0, <2>1, <2>2, <2>4, <2>5, <2>6
<1>4. CASE m.kind \in {"remember", "forget"}
  <2>1. u = [c \in Collection |-> IF c = "memory"
                THEN IF m.kind = "remember" THEN s["memory"] \cup {m.item} ELSE s["memory"] \ {m.item}
                ELSE s[c]]
    BY <1>0, <1>4 DEF Applied, Collection
  <2> QED BY <1>0, <1>4, <2>1 DEF Commits, Loads, Collection
<1>5. CASE m.kind \in {"add", "replace"}
  <2> DEFINE entry == [of |-> m.item, version |-> m.version]
  <2>1. m.item \in Item \ Folder
    <3>1. m.item \in DOMAIN s["items"] \ Folder
      BY <1>0, <1>5 DEF Admits, MayAdd
    <3> QED BY <1>0, <3>1
  <2>2. Put(s["artifacts"], m.artifact, entry) \in Registry
    BY <1>0, <2>1, PutTyped DEF Registry
  <2>3. u = [c \in Collection |-> IF c = "artifacts" THEN Put(s["artifacts"], m.artifact, entry) ELSE s[c]]
    BY <1>0, <1>5 DEF Applied, Collection
  <2> QED BY <1>0, <1>5, <2>2, <2>3 DEF Commits, Loads, Collection
<1>6. CASE m.kind = "remove"
  <2>1. Restrict(s["artifacts"], DOMAIN s["artifacts"] \ {m.artifact}) \in Registry
    BY <1>0, RestrictTyped DEF Registry
  <2>2. u = [c \in Collection |-> IF c = "artifacts"
                THEN Restrict(s["artifacts"], DOMAIN s["artifacts"] \ {m.artifact}) ELSE s[c]]
    BY <1>0, <1>6 DEF Applied, Collection
  <2> QED BY <1>0, <1>6, <2>1, <2>2 DEF Commits, Loads, Collection
<1> QED BY <1>2, <1>3, <1>4, <1>5, <1>6 DEF Mutation

\* The next collection is one of those that are left.
LEMMA FirstIn ==
  ASSUME NEW S \in SUBSET Collection, S # {}
  PROVE  First(S) \in S
<1>1. \E c \in S : \A d \in S : c = d \/ c = "items" \/ d = "artifacts"
  BY DEF Collection
<1> QED BY <1>1 DEF First

-----------------------------------------------------------------------------
(* The invariant of the transactions.                                       *)

StoreTyped ==
    /\ files \in Files
    /\ seen \in [Call -> Collections]
    /\ need \in [Call -> SUBSET Collection] /\ left \in [Call -> SUBSET Collection]
    /\ txn \in [Call -> Writer \cup {NoCall}] /\ bad \in [Call -> BOOLEAN]
    /\ pointer \in Writer \cup {NoCall} /\ holder \in Writer \cup {NoCall}
    /\ aged \subseteq Writer /\ committed \subseteq Writer
    /\ journal = [w \in Writer |-> journal[w]]
    /\ pointer # NoCall =>
          /\ DOMAIN journal[pointer] = Commits(MutationOf[pointer])
          /\ \A c \in DOMAIN journal[pointer] : journal[pointer][c] \in CollectionType(c) \cup {NoFile}

\* Where a call is, where it returns to, and what it has still to load.
Loading(p) == pc[p] \in {"check", "read"} \/ Recovering(p)
RightPlaces ==
    /\ \A r \in Reader : pc[r] \in {"idle", "check", "restore", "discard", "read"} /\ after[r] = "read"
    /\ \A w \in Writer :
          /\ pc[w] \in {"idle", "read", "judge", "move"} => after[w] = "read"
          /\ pc[w] = "check" => after[w] \in {"read", "begin"}
          /\ pc[w] \in {"begin", "write"} => after[w] = "begin"
          /\ Loading(w) /\ after[w] = "read" => need[w] # {}
          /\ pc[w] \in {"judge", "move", "begin", "write"} => need[w] = {}
          /\ Loading(w) /\ after[w] = "begin" => need[w] = {}

\* One writer at a time, and an old transaction is nobody's any more.
OneWriter == \A w \in Writer : pc[w] \notin {"idle", "done", "crashed"} => holder = w
AgedOver == \A w \in aged : pc[w] \in {"done", "crashed"}

\* Whose transaction is active, and where none is.
PointerPlaces == \A w \in Writer :
    /\ pointer = w => \/ pc[w] \in {"write", "undo", "close", "done", "crashed"}
                      \/ pc[w] = "restore" /\ after[w] = "undo"
    /\ pc[w] \in {"read", "judge", "move", "begin"} => pointer = NoCall
    /\ pc[w] = "discard" /\ Recovering(w) => pointer = NoCall

\* One call at a time restores the active transaction: its writer, or one that
\* recovers what a dead writer left.
OneRecovers == \A p, q \in Call : Recovering(p) /\ Recovering(q) => p = q
RestoresActive == \A p \in Call : pc[p] = "restore" =>
    /\ txn[p] = pointer /\ pointer # NoCall
    /\ left[p] \subseteq DOMAIN journal[pointer]
    /\ IF after[p] = "undo" THEN pointer = p ELSE pointer \in aged
RestoresRight == \A p \in Call : pc[p] = "restore" /\ ~bad[p] =>
    \A c \in DOMAIN journal[pointer] \ left[p] : files[c] = journal[pointer][c]

\* A commit writes what its mutation makes of what it has loaded.
WritesActive == \A w \in Writer : pc[w] = "write" => pointer = w /\ left[w] \subseteq Commits(MutationOf[w])
WritesRight == \A w \in Writer : pc[w] = "write" =>
    \A c \in Commits(MutationOf[w]) \ left[w] : files[c] = Applied(MutationOf[w], seen[w])[c]

\* What a writer has loaded is what the store holds, until it commits.
Pending(w) == Loading(w) \/ pc[w] \in {"judge", "move", "begin", "write"}
SawStore == \A w \in Writer : Pending(w) =>
    \A c \in Loads(MutationOf[w]) \ need[w] : seen[w][c] = Store[c]
Admitted == \A w \in Writer :
    pc[w] \in {"move", "begin", "write"} \/ (Loading(w) /\ after[w] = "begin") => Admits(MutationOf[w], seen[w])

StoreInv ==
    /\ Told
    /\ StoreTyped
    /\ RightPlaces
    /\ OneWriter
    /\ AgedOver
    /\ PointerPlaces
    /\ OneRecovers
    /\ RestoresActive /\ RestoresRight
    /\ WritesActive /\ WritesRight
    /\ SawStore
    /\ Admitted

\* Initially nothing is loaded and no transaction is active.
LEMMA StoreInvInit == Init => StoreInv
<1> SUFFICES ASSUME Init
             PROVE  StoreInv
  OBVIOUS
<1>1. /\ files \in Files
      /\ pc \in [Call -> {"idle", "done"}] /\ \A r \in Reader : pc[r] = "idle"
      /\ after = [p \in Call |-> "read"]
      /\ seen = [p \in Call |-> Empty]
  BY FilesTyped, CallAssumption DEF Init, Call
<1>2. StoreTyped
  BY <1>1, EmptyTyped, CallAssumption DEF Init, StoreTyped, Call
<1>3. /\ RightPlaces /\ OneWriter /\ AgedOver /\ PointerPlaces /\ OneRecovers /\ RestoresActive
      /\ RestoresRight /\ WritesActive /\ WritesRight /\ SawStore /\ Admitted
  BY <1>1, CallAssumption DEF Init, RightPlaces, OneWriter, AgedOver, PointerPlaces, OneRecovers, RestoresActive,
     RestoresRight, WritesActive, WritesRight, SawStore, Admitted, Recovering, Loading, Pending, Call
<1> QED BY <1>2, <1>3, ToldInit DEF StoreInv

\* Every mutation loads something.
LEMMA LoadsSomething == \A w \in Writer : Loads(MutationOf[w]) # {} /\ Loads(MutationOf[w]) \subseteq Collection
  BY CallAssumption DEF Mutation, Loads, Collection

\* Calls go from place to place.
LEMMA RightPlacesStep ==
  ASSUME Told, StoreTyped, RightPlaces, [Next]_vars
  PROVE  RightPlaces'
<1> USE CallAssumption DEF Call, Goto, Return, Fail, Forget, Told, Labels, StoreTyped, RightPlaces, Loading, Recovering
<1>1. ASSUME NEW r \in Reader, BeginRead(r)
      PROVE  RightPlaces'
  BY <1>1 DEF BeginRead, work
<1>2. ASSUME NEW w \in Writer, BeginWrite(w)
      PROVE  RightPlaces'
  BY <1>2, LoadsSomething DEF BeginWrite, work
<1>3. ASSUME NEW w \in Writer, Judge(w)
      PROVE  RightPlaces'
  BY <1>3 DEF Judge, work
<1>4. ASSUME NEW w \in Writer, MoveAside(w) \/ Place(w) \/ MoveFails(w)
      PROVE  RightPlaces'
  BY <1>4 DEF MoveAside, Place, MoveFails, work
<1>5. ASSUME NEW w \in Writer, Undo(w) \/ UndoFails(w)
      PROVE  RightPlaces'
  BY <1>5 DEF Undo, UndoFails, work
<1>6. ASSUME NEW w \in Writer, Publish(w) \/ PublishFails(w)
      PROVE  RightPlaces'
  BY <1>6 DEF Publish, PublishFails, work
<1>7. ASSUME NEW w \in Writer, WriteFile(w) \/ WriteFails(w)
      PROVE  RightPlaces'
  BY <1>7 DEF WriteFile, WriteFails, work
<1>8. ASSUME NEW w \in Writer, Finalize(w) \/ FinalizeFails(w)
      PROVE  RightPlaces'
  BY <1>8 DEF Finalize, FinalizeFails, work
<1>9. ASSUME NEW w \in Writer, Clean(w) \/ Close(w)
      PROVE  RightPlaces'
  BY <1>9 DEF Clean, Close, work
<1>10. ASSUME NEW p \in Call, Clear(p) \/ Refused(p) \/ Recover(p)
       PROVE  RightPlaces'
  BY <1>10 DEF Clear, Refused, Recover, work
<1>11. ASSUME NEW p \in Call, Read(p)
       PROVE  RightPlaces'
  BY <1>11 DEF Read, work
<1>12. ASSUME NEW p \in Call, RestoreFile(p) \/ Restored(p) \/ RestoreGivesUp(p) \/ Discard(p)
       PROVE  RightPlaces'
  BY <1>12 DEF RestoreFile, Restored, RestoreGivesUp, Discard, work
<1>13. ASSUME NEW p \in Call, Crash(p)
       PROVE  RightPlaces'
  BY <1>13 DEF Crash, work
<1>14. CASE (\E t \in Writer : Age(t)) \/ UNCHANGED vars
  BY <1>14 DEF Age, work, vars
<1> QED
  BY <1>1, <1>2, <1>3, <1>4, <1>5, <1>6, <1>7, <1>8, <1>9, <1>10, <1>11, <1>12, <1>13, <1>14
  DEF Next, Load, Restore, Move, Commit

\* The lease has one holder.
LEMMA OneWriterStep ==
  ASSUME Told, StoreTyped, RightPlaces, OneWriter, [Next]_vars
  PROVE  OneWriter'
<1> USE CallAssumption DEF Call, Goto, Return, Fail, Forget, Told, Labels, StoreTyped, OneWriter
<1>1. ASSUME NEW r \in Reader, BeginRead(r)
      PROVE  OneWriter'
  BY <1>1 DEF BeginRead, work
<1>2. ASSUME NEW w \in Writer, BeginWrite(w)
      PROVE  OneWriter'
  BY <1>2 DEF BeginWrite, work
<1>3. ASSUME NEW w \in Writer, Judge(w)
      PROVE  OneWriter'
  BY <1>3 DEF Judge, work
<1>4. ASSUME NEW w \in Writer, MoveAside(w) \/ Place(w) \/ MoveFails(w)
      PROVE  OneWriter'
  BY <1>4 DEF MoveAside, Place, MoveFails, work
<1>5. ASSUME NEW w \in Writer, Undo(w) \/ UndoFails(w)
      PROVE  OneWriter'
  BY <1>5 DEF Undo, UndoFails, work
<1>6. ASSUME NEW w \in Writer, Publish(w) \/ PublishFails(w)
      PROVE  OneWriter'
  BY <1>6 DEF Publish, PublishFails, work
<1>7. ASSUME NEW w \in Writer, WriteFile(w) \/ WriteFails(w)
      PROVE  OneWriter'
  BY <1>7 DEF WriteFile, WriteFails, work
<1>8. ASSUME NEW w \in Writer, Finalize(w) \/ FinalizeFails(w)
      PROVE  OneWriter'
  BY <1>8 DEF Finalize, FinalizeFails, work
<1>9. ASSUME NEW w \in Writer, Clean(w) \/ Close(w)
      PROVE  OneWriter'
  BY <1>9 DEF Clean, Close, work
<1>10. ASSUME NEW p \in Call, Clear(p) \/ Refused(p) \/ Recover(p)
       PROVE  OneWriter'
  BY <1>10 DEF Clear, Refused, Recover, work
<1>11. ASSUME NEW p \in Call, Read(p)
       PROVE  OneWriter'
  BY <1>11 DEF Read, work
<1>12. ASSUME NEW p \in Call, RestoreFile(p) \/ Restored(p) \/ RestoreGivesUp(p) \/ Discard(p)
       PROVE  OneWriter'
  BY <1>12 DEF RestoreFile, Restored, RestoreGivesUp, Discard, work
<1>13. ASSUME NEW p \in Call, Crash(p)
       PROVE  OneWriter'
  BY <1>13 DEF Crash, work
<1>14. CASE (\E t \in Writer : Age(t)) \/ UNCHANGED vars
  BY <1>14 DEF Age, work, vars
<1> QED
  BY <1>1, <1>2, <1>3, <1>4, <1>5, <1>6, <1>7, <1>8, <1>9, <1>10, <1>11, <1>12, <1>13, <1>14
  DEF Next, Load, Restore, Move, Commit

\* Only the transactions of dead writers age.
LEMMA AgedOverStep ==
  ASSUME ~Suspend, Told, StoreTyped, AgedOver, [Next]_vars
  PROVE  AgedOver'
<1> USE CallAssumption DEF Call, Goto, Return, Fail, Forget, Told, Labels, StoreTyped, AgedOver
<1>1. ASSUME NEW r \in Reader, BeginRead(r)
      PROVE  AgedOver'
  BY <1>1 DEF BeginRead, work
<1>2. ASSUME NEW w \in Writer, BeginWrite(w)
      PROVE  AgedOver'
  BY <1>2 DEF BeginWrite, work
<1>3. ASSUME NEW w \in Writer, Judge(w)
      PROVE  AgedOver'
  BY <1>3 DEF Judge, work
<1>4. ASSUME NEW w \in Writer, MoveAside(w) \/ Place(w) \/ MoveFails(w)
      PROVE  AgedOver'
  BY <1>4 DEF MoveAside, Place, MoveFails, work
<1>5. ASSUME NEW w \in Writer, Undo(w) \/ UndoFails(w)
      PROVE  AgedOver'
  BY <1>5 DEF Undo, UndoFails, work
<1>6. ASSUME NEW w \in Writer, Publish(w) \/ PublishFails(w)
      PROVE  AgedOver'
  BY <1>6 DEF Publish, PublishFails, work
<1>7. ASSUME NEW w \in Writer, WriteFile(w) \/ WriteFails(w)
      PROVE  AgedOver'
  BY <1>7 DEF WriteFile, WriteFails, work
<1>8. ASSUME NEW w \in Writer, Finalize(w) \/ FinalizeFails(w)
      PROVE  AgedOver'
  BY <1>8 DEF Finalize, FinalizeFails, work
<1>9. ASSUME NEW w \in Writer, Clean(w) \/ Close(w)
      PROVE  AgedOver'
  BY <1>9 DEF Clean, Close, work
<1>10. ASSUME NEW p \in Call, Clear(p) \/ Refused(p) \/ Recover(p)
       PROVE  AgedOver'
  BY <1>10 DEF Clear, Refused, Recover, work
<1>11. ASSUME NEW p \in Call, Read(p)
       PROVE  AgedOver'
  BY <1>11 DEF Read, work
<1>12. ASSUME NEW p \in Call, RestoreFile(p) \/ Restored(p) \/ RestoreGivesUp(p) \/ Discard(p)
       PROVE  AgedOver'
  BY <1>12 DEF RestoreFile, Restored, RestoreGivesUp, Discard, work
<1>13. ASSUME NEW p \in Call, Crash(p)
       PROVE  AgedOver'
  BY <1>13 DEF Crash, work
<1>14. CASE (\E t \in Writer : Age(t)) \/ UNCHANGED vars
  BY <1>14 DEF Age, work, vars
<1> QED
  BY <1>1, <1>2, <1>3, <1>4, <1>5, <1>6, <1>7, <1>8, <1>9, <1>10, <1>11, <1>12, <1>13, <1>14
  DEF Next, Load, Restore, Move, Commit

\* The pointer belongs to a commit.
LEMMA PointerPlacesStep ==
  ASSUME pc \in [Call -> Labels], after \in [Call -> {"read", "begin", "undo", "clean"}],
         RightPlaces, OneWriter, PointerPlaces, [Next]_vars
  PROVE  PointerPlaces'
<1> USE CallAssumption DEF Call, Goto, Return, Fail, Forget, Labels, RightPlaces, OneWriter, PointerPlaces, Recovering, Loading, tx
<1>1. ASSUME NEW r \in Reader, BeginRead(r)
      PROVE  PointerPlaces'
  BY <1>1 DEF BeginRead, work
<1>2. ASSUME NEW w \in Writer, BeginWrite(w)
      PROVE  PointerPlaces'
  BY <1>2 DEF BeginWrite, work
<1>3. ASSUME NEW w \in Writer, Judge(w)
      PROVE  PointerPlaces'
  BY <1>3 DEF Judge, work
<1>4. ASSUME NEW w \in Writer, MoveAside(w) \/ Place(w) \/ MoveFails(w)
      PROVE  PointerPlaces'
  BY <1>4 DEF MoveAside, Place, MoveFails, work
<1>5. ASSUME NEW w \in Writer, Undo(w) \/ UndoFails(w)
      PROVE  PointerPlaces'
  BY <1>5 DEF Undo, UndoFails, work
<1>6. ASSUME NEW w \in Writer, Publish(w) \/ PublishFails(w)
      PROVE  PointerPlaces'
  BY <1>6 DEF Publish, PublishFails, work
<1>7. ASSUME NEW w \in Writer, WriteFile(w) \/ WriteFails(w)
      PROVE  PointerPlaces'
  BY <1>7 DEF WriteFile, WriteFails, work
<1>8. ASSUME NEW w \in Writer, Finalize(w) \/ FinalizeFails(w)
      PROVE  PointerPlaces'
  BY <1>8 DEF Finalize, FinalizeFails, work
<1>9. ASSUME NEW w \in Writer, Clean(w) \/ Close(w)
      PROVE  PointerPlaces'
  BY <1>9 DEF Clean, Close, work
<1>10. ASSUME NEW p \in Call, Clear(p) \/ Refused(p) \/ Recover(p)
       PROVE  PointerPlaces'
  BY <1>10 DEF Clear, Refused, Recover, work
<1>11. ASSUME NEW p \in Call, Read(p)
       PROVE  PointerPlaces'
  BY <1>11 DEF Read, work
<1>12. ASSUME NEW p \in Call, RestoreFile(p) \/ Restored(p) \/ RestoreGivesUp(p) \/ Discard(p)
       PROVE  PointerPlaces'
  BY <1>12 DEF RestoreFile, Restored, RestoreGivesUp, Discard, work
<1>13. ASSUME NEW p \in Call, Crash(p)
       PROVE  PointerPlaces'
  BY <1>13 DEF Crash, work
<1>14. CASE (\E t \in Writer : Age(t)) \/ UNCHANGED vars
  BY <1>14 DEF Age, work, vars
<1> QED
  BY <1>1, <1>2, <1>3, <1>4, <1>5, <1>6, <1>7, <1>8, <1>9, <1>10, <1>11, <1>12, <1>13, <1>14
  DEF Next, Load, Restore, Move, Commit

\* Recoveries do not overlap.
LEMMA OneRecoversStep ==
  ASSUME ~Overlap, pc \in [Call -> Labels], after \in [Call -> {"read", "begin", "undo", "clean"}], OneRecovers, [Next]_vars
  PROVE  OneRecovers'
<1> USE CallAssumption DEF Call, Goto, Return, Fail, Forget, Labels, OneRecovers, Recovering, tx
<1>1. ASSUME NEW r \in Reader, BeginRead(r)
      PROVE  OneRecovers'
  BY <1>1 DEF BeginRead, work
<1>2. ASSUME NEW w \in Writer, BeginWrite(w)
      PROVE  OneRecovers'
  BY <1>2 DEF BeginWrite, work
<1>3. ASSUME NEW w \in Writer, Judge(w)
      PROVE  OneRecovers'
  BY <1>3 DEF Judge, work
<1>4. ASSUME NEW w \in Writer, MoveAside(w) \/ Place(w) \/ MoveFails(w)
      PROVE  OneRecovers'
  BY <1>4 DEF MoveAside, Place, MoveFails, work
<1>5. ASSUME NEW w \in Writer, Undo(w) \/ UndoFails(w)
      PROVE  OneRecovers'
  BY <1>5 DEF Undo, UndoFails, work
<1>6. ASSUME NEW w \in Writer, Publish(w) \/ PublishFails(w)
      PROVE  OneRecovers'
  BY <1>6 DEF Publish, PublishFails, work
<1>7. ASSUME NEW w \in Writer, WriteFile(w) \/ WriteFails(w)
      PROVE  OneRecovers'
  BY <1>7 DEF WriteFile, WriteFails, work
<1>8. ASSUME NEW w \in Writer, Finalize(w) \/ FinalizeFails(w)
      PROVE  OneRecovers'
  BY <1>8 DEF Finalize, FinalizeFails, work
<1>9. ASSUME NEW w \in Writer, Clean(w) \/ Close(w)
      PROVE  OneRecovers'
  BY <1>9 DEF Clean, Close, work
<1>10. ASSUME NEW p \in Call, Clear(p) \/ Refused(p) \/ Recover(p)
       PROVE  OneRecovers'
  BY <1>10 DEF Clear, Refused, Recover, work
<1>11. ASSUME NEW p \in Call, Read(p)
       PROVE  OneRecovers'
  BY <1>11 DEF Read, work
<1>12. ASSUME NEW p \in Call, RestoreFile(p) \/ Restored(p) \/ RestoreGivesUp(p) \/ Discard(p)
       PROVE  OneRecovers'
  BY <1>12 DEF RestoreFile, Restored, RestoreGivesUp, Discard, work
<1>13. ASSUME NEW p \in Call, Crash(p)
       PROVE  OneRecovers'
  BY <1>13 DEF Crash, work
<1>14. CASE (\E t \in Writer : Age(t)) \/ UNCHANGED vars
  BY <1>14 DEF Age, work, vars
<1> QED
  BY <1>1, <1>2, <1>3, <1>4, <1>5, <1>6, <1>7, <1>8, <1>9, <1>10, <1>11, <1>12, <1>13, <1>14
  DEF Next, Load, Restore, Move, Commit

\* Whoever restores a transaction is alone with it.
LEMMA Alone ==
  ASSUME Told, RightPlaces, AgedOver, OneRecovers, RestoresActive, WritesActive
  PROVE  /\ \A p, q \in Call : pc[p] = "restore" /\ pc[q] = "restore" => p = q
         /\ \A p \in Call, w \in Writer : pc[p] = "restore" => pc[w] # "write"
<1>1. ASSUME NEW p \in Call, pc[p] = "restore"
      PROVE  \/ after[p] = "undo" /\ pointer = p
             \/ Recovering(p) /\ pointer \in aged /\ pc[pointer] \in {"done", "crashed"}
  BY <1>1 DEF Told, RightPlaces, AgedOver, RestoresActive, Recovering, Call
<1>2. \A p, q \in Call : pc[p] = "restore" /\ pc[q] = "restore" => p = q
  BY <1>1 DEF OneRecovers
<1>3. \A p \in Call, w \in Writer : pc[p] = "restore" => pc[w] # "write"
  BY <1>1 DEF WritesActive
<1> QED BY <1>2, <1>3

\* A restoration is of the active transaction.
LEMMA RestoresActiveStep ==
  ASSUME pc \in [Call -> Labels], after \in [Call -> {"read", "begin", "undo", "clean"}],
         journal = [w \in Writer |-> journal[w]],
         left \in [Call -> SUBSET Collection], txn \in [Call -> Writer \cup {NoCall}],
         Told, RightPlaces, AgedOver, PointerPlaces, OneRecovers, RestoresActive, WritesActive, [Next]_vars
  PROVE  RestoresActive'
<1> USE CallAssumption DEF Call, Goto, Return, Fail, Forget, Labels, tx
<1>1. ASSUME NEW r \in Reader, BeginRead(r)
      PROVE  RestoresActive'
  BY <1>1 DEF BeginRead, RestoresActive, work
<1>2. ASSUME NEW w \in Writer, BeginWrite(w)
      PROVE  RestoresActive'
  BY <1>2 DEF BeginWrite, RestoresActive, work
<1>3. ASSUME NEW w \in Writer, Judge(w)
      PROVE  RestoresActive'
  BY <1>3 DEF Judge, RestoresActive, work
<1>4. ASSUME NEW w \in Writer, MoveAside(w) \/ Place(w) \/ MoveFails(w)
      PROVE  RestoresActive'
  BY <1>4 DEF MoveAside, Place, MoveFails, RestoresActive, work
<1>5. ASSUME NEW w \in Writer, Undo(w) \/ UndoFails(w)
      PROVE  RestoresActive'
  BY <1>5 DEF Undo, UndoFails, RestoresActive, work
<1>6. ASSUME NEW w \in Writer, Publish(w) \/ PublishFails(w)
      PROVE  RestoresActive'
  BY <1>6 DEF Publish, PublishFails, RestoresActive, PointerPlaces, work
<1>7. ASSUME NEW w \in Writer, WriteFile(w) \/ WriteFails(w)
      PROVE  RestoresActive'
  <2>1. /\ pointer' = pointer /\ journal' = journal /\ aged' = aged /\ pc[w] = "write"
        /\ \A q \in Call \ {w} : pc'[q] = pc[q] /\ txn'[q] = txn[q] /\ after'[q] = after[q] /\ left'[q] = left[q]
        /\ pc'[w] = "restore" => txn'[w] = w /\ left'[w] = DOMAIN journal[w] /\ after'[w] = "undo"
    BY <1>7 DEF WriteFile, WriteFails, work, tx
  <2>2. pointer = w /\ w # NoCall
    BY <2>1 DEF WritesActive
  <2> QED BY <2>1, <2>2 DEF RestoresActive
<1>8. ASSUME NEW w \in Writer, Finalize(w) \/ FinalizeFails(w)
      PROVE  RestoresActive'
  <2>1. CASE FinalizeFails(w)
    <3>1. /\ pointer' = pointer /\ journal' = journal /\ aged' = aged
          /\ \A q \in Call : pc'[q] = "restore" =>
                pc[q] = "restore" /\ txn'[q] = txn[q] /\ after'[q] = after[q] /\ left'[q] = left[q]
      BY <2>1 DEF FinalizeFails, work, tx
    <3> QED BY <3>1 DEF RestoresActive
  <2>2. CASE Finalize(w)
    <3>1. pc[w] = "write" /\ pc' = [pc EXCEPT ![w] = "discard"]
      BY <2>2 DEF Finalize
    <3>2. \A q \in Call : pc'[q] # "restore"
      BY <3>1, Alone
    <3> QED BY <3>2 DEF RestoresActive
  <2> QED BY <1>8, <2>1, <2>2
<1>9. ASSUME NEW w \in Writer, Clean(w) \/ Close(w)
      PROVE  RestoresActive'
  <2>1. /\ pointer' = pointer /\ journal' = journal /\ aged' = aged
        /\ \A q \in Call : pc'[q] = "restore" =>
              /\ pc[q] = "restore" /\ txn'[q] = txn[q] /\ after'[q] = after[q]
              /\ left'[q] \subseteq left[q]
    BY <1>9 DEF Clean, Close, work, tx
  <2> QED BY <2>1 DEF RestoresActive
<1>10. ASSUME NEW p \in Call, Clear(p) \/ Refused(p) \/ Recover(p)
       PROVE  RestoresActive'
  <2>1. CASE Recover(p)
    <3>1. /\ pointer' = pointer /\ journal' = journal /\ aged' = aged /\ pc[p] = "check"
          /\ pointer \in aged /\ pointer # NoCall /\ after' = after
          /\ txn'[p] = pointer /\ left'[p] = DOMAIN journal[pointer]
          /\ \A q \in Call \ {p} : pc'[q] = pc[q] /\ txn'[q] = txn[q] /\ left'[q] = left[q]
      BY <2>1 DEF Recover, Recoverable, work, tx
    <3>2. after[p] \in {"read", "begin"}
      BY <3>1 DEF RightPlaces, Call
    <3> QED BY <3>1, <3>2 DEF RestoresActive
  <2>2. CASE Clear(p) \/ Refused(p)
    <3>1. /\ pointer' = pointer /\ journal' = journal /\ aged' = aged
          /\ pc[p] = "check" /\ txn' = txn /\ after' = after /\ left' = left
          /\ \A q \in Call \ {p} : pc'[q] = pc[q]
      BY <2>2 DEF Clear, Refused, work, tx
    <3>2. after[p] \in {"read", "begin"}
      BY <3>1 DEF RightPlaces, Call
    <3>3. pc'[p] # "restore"
      BY <2>2, <3>2 DEF Clear, Refused
    <3> QED BY <3>1, <3>3 DEF RestoresActive
  <2> QED BY <1>10, <2>1, <2>2
<1>11. ASSUME NEW p \in Call, Read(p)
      PROVE  RestoresActive'
  <2>1. /\ pointer' = pointer /\ journal' = journal /\ aged' = aged
        /\ \A q \in Call : pc'[q] = "restore" =>
              /\ pc[q] = "restore" /\ txn'[q] = txn[q] /\ after'[q] = after[q]
              /\ left'[q] \subseteq left[q]
    BY <1>11 DEF Read, work, tx
  <2> QED BY <2>1 DEF RestoresActive
<1>12. ASSUME NEW p \in Call, RestoreFile(p) \/ Restored(p) \/ RestoreGivesUp(p) \/ Discard(p)
       PROVE  RestoresActive'
  <2>1. CASE RestoreFile(p) \/ RestoreGivesUp(p) \/ Discard(p)
    <3>1. /\ pointer' = pointer /\ journal' = journal /\ aged' = aged
          /\ \A q \in Call : pc'[q] = "restore" =>
                /\ pc[q] = "restore" /\ txn'[q] = txn[q] /\ after'[q] = after[q]
                /\ left'[q] \subseteq left[q]
      BY <2>1 DEF RestoreFile, RestoreGivesUp, Discard, work, tx
    <3> QED BY <3>1 DEF RestoresActive
  <2>2. CASE Restored(p)
    <3>1. pc[p] = "restore" /\ pc' = [pc EXCEPT ![p] = "discard"]
      BY <2>2 DEF Restored
    <3>2. \A q \in Call : pc'[q] # "restore"
      BY <3>1, Alone
    <3> QED BY <3>2 DEF RestoresActive
  <2> QED BY <1>12, <2>1, <2>2
<1>13. ASSUME NEW p \in Call, Crash(p)
       PROVE  RestoresActive'
  BY <1>13 DEF Crash, RestoresActive, work
<1>14. CASE (\E t \in Writer : Age(t)) \/ UNCHANGED vars
  BY <1>14 DEF Age, RestoresActive, work, vars
<1> QED
  BY <1>1, <1>2, <1>3, <1>4, <1>5, <1>6, <1>7, <1>8, <1>9, <1>10, <1>11, <1>12, <1>13, <1>14
  DEF Next, Load, Restore, Move, Commit

\* A commit writes under its own pointer.
LEMMA WritesActiveStep ==
  ASSUME pc \in [Call -> Labels], after \in [Call -> {"read", "begin", "undo", "clean"}],
         left \in [Call -> SUBSET Collection],
         Told, RightPlaces, OneWriter, AgedOver, OneRecovers, RestoresActive, WritesActive, [Next]_vars
  PROVE  WritesActive'
<1> USE CallAssumption DEF Call, Goto, Return, Fail, Forget, Labels, WritesActive, tx
<1>1. ASSUME NEW r \in Reader, BeginRead(r)
      PROVE  WritesActive'
  BY <1>1 DEF BeginRead, work
<1>2. ASSUME NEW w \in Writer, BeginWrite(w)
      PROVE  WritesActive'
  BY <1>2 DEF BeginWrite, work
<1>3. ASSUME NEW w \in Writer, Judge(w)
      PROVE  WritesActive'
  BY <1>3 DEF Judge, work
<1>4. ASSUME NEW w \in Writer, MoveAside(w) \/ Place(w) \/ MoveFails(w)
      PROVE  WritesActive'
  BY <1>4 DEF MoveAside, Place, MoveFails, work
<1>5. ASSUME NEW w \in Writer, Undo(w) \/ UndoFails(w)
      PROVE  WritesActive'
  BY <1>5 DEF Undo, UndoFails, work
<1>6. ASSUME NEW w \in Writer, Publish(w) \/ PublishFails(w)
      PROVE  WritesActive'
  BY <1>6 DEF Publish, PublishFails, OneWriter, work
<1>7. ASSUME NEW w \in Writer, WriteFile(w) \/ WriteFails(w)
      PROVE  WritesActive'
  BY <1>7 DEF WriteFile, WriteFails, work
<1>8. ASSUME NEW w \in Writer, Finalize(w) \/ FinalizeFails(w)
      PROVE  WritesActive'
  BY <1>8 DEF Finalize, FinalizeFails, OneWriter, work
<1>9. ASSUME NEW w \in Writer, Clean(w) \/ Close(w)
      PROVE  WritesActive'
  BY <1>9 DEF Clean, Close, work
<1>10. ASSUME NEW p \in Call, Clear(p) \/ Refused(p) \/ Recover(p)
       PROVE  WritesActive'
  BY <1>10 DEF Clear, Refused, Recover, RightPlaces, work
<1>11. ASSUME NEW p \in Call, Read(p)
       PROVE  WritesActive'
  BY <1>11 DEF Read, work
<1>12. ASSUME NEW p \in Call, RestoreFile(p) \/ Restored(p) \/ RestoreGivesUp(p) \/ Discard(p)
       PROVE  WritesActive'
  BY <1>12, Alone DEF RestoreFile, Restored, RestoreGivesUp, Discard, Told, RightPlaces, work
<1>13. ASSUME NEW p \in Call, Crash(p)
       PROVE  WritesActive'
  BY <1>13 DEF Crash, work
<1>14. CASE (\E t \in Writer : Age(t)) \/ UNCHANGED vars
  BY <1>14 DEF Age, work, vars
<1> QED
  BY <1>1, <1>2, <1>3, <1>4, <1>5, <1>6, <1>7, <1>8, <1>9, <1>10, <1>11, <1>12, <1>13, <1>14
  DEF Next, Load, Restore, Move, Commit

\* The steps that matter to the files, and what the others leave alone.
Writing == \E w \in Writer : Publish(w) \/ WriteFile(w) \/ WriteFails(w) \/ Finalize(w)
Restoring == \E p \in Call : Recover(p) \/ RestoreFile(p) \/ Restored(p)
Elsewhere ==
    /\ files' = files /\ pointer' = pointer /\ journal' = journal /\ committed' = committed
    /\ \A q \in Call : pc'[q] = "restore" => pc[q] = "restore" /\ left'[q] = left[q] /\ bad'[q] = bad[q]
    /\ \A w \in Writer : pc'[w] = "write" => pc[w] = "write" /\ left'[w] = left[w] /\ seen'[w] = seen[w]

\* These are all steps.
LEMMA StepsMatter ==
  ASSUME pc \in [Call -> Labels], after \in [Call -> {"read", "begin", "undo", "clean"}],
         left \in [Call -> SUBSET Collection], seen \in [Call -> Collections], bad \in [Call -> BOOLEAN],
         RightPlaces, [Next]_vars
  PROVE  Writing \/ Restoring \/ Elsewhere
<1> USE CallAssumption DEF Call, Goto, Return, Fail, Forget, Labels
<1>1. ASSUME NEW r \in Reader, BeginRead(r)
      PROVE  Elsewhere
  BY <1>1 DEF BeginRead, Elsewhere, tx, work
<1>2. ASSUME NEW w \in Writer, BeginWrite(w)
      PROVE  Elsewhere
  BY <1>2 DEF BeginWrite, Elsewhere, tx, work
<1>3. ASSUME NEW w \in Writer, Judge(w)
      PROVE  Elsewhere
  BY <1>3 DEF Judge, Elsewhere, tx, work
<1>4. ASSUME NEW w \in Writer, MoveAside(w) \/ Place(w) \/ MoveFails(w)
      PROVE  Elsewhere
  BY <1>4 DEF MoveAside, Place, MoveFails, Elsewhere, tx, work
<1>5. ASSUME NEW w \in Writer, Undo(w) \/ UndoFails(w)
      PROVE  Elsewhere
  BY <1>5 DEF Undo, UndoFails, Elsewhere, tx, work
<1>6. ASSUME NEW w \in Writer, Publish(w) \/ PublishFails(w)
      PROVE  Writing \/ Elsewhere
  BY <1>6 DEF PublishFails, Elsewhere, Writing, work, tx
<1>7. ASSUME NEW w \in Writer, WriteFile(w) \/ WriteFails(w)
      PROVE  Writing \/ Elsewhere
  BY <1>7 DEF Writing
<1>8. ASSUME NEW w \in Writer, Finalize(w) \/ FinalizeFails(w)
      PROVE  Writing \/ Elsewhere
  BY <1>8 DEF FinalizeFails, Elsewhere, Writing, work, tx
<1>9. ASSUME NEW w \in Writer, Clean(w) \/ Close(w)
      PROVE  Elsewhere
  BY <1>9 DEF Clean, Close, Elsewhere, tx, work
<1>10. ASSUME NEW p \in Call, Clear(p) \/ Refused(p) \/ Recover(p)
      PROVE  Restoring \/ Elsewhere
  BY <1>10 DEF Clear, Refused, RightPlaces, Elsewhere, Restoring, work, tx
<1>11. ASSUME NEW p \in Call, Read(p)
       PROVE  Elsewhere
  BY <1>11 DEF Read, Elsewhere, tx, work
<1>12. ASSUME NEW p \in Call, RestoreFile(p) \/ Restored(p) \/ RestoreGivesUp(p) \/ Discard(p)
      PROVE  Restoring \/ Elsewhere
  BY <1>12 DEF RestoreGivesUp, Discard, Elsewhere, Restoring, work, tx
<1>13. ASSUME NEW p \in Call, Crash(p)
       PROVE  Elsewhere
  BY <1>13 DEF Crash, Elsewhere, tx, work
<1>14. CASE (\E t \in Writer : Age(t)) \/ UNCHANGED vars
  BY <1>14 DEF Age, Elsewhere, tx, work, vars
<1> QED
  BY <1>1, <1>2, <1>3, <1>4, <1>5, <1>6, <1>7, <1>8, <1>9, <1>10, <1>11, <1>12, <1>13, <1>14
  DEF Next, Load, Restore, Move, Commit

\* What a mutation commits are collections.
LEMMA CommitsIn == \A w \in Writer : Commits(MutationOf[w]) \subseteq Collection
  BY CallAssumption DEF Commits, Loads, Collection, Mutation

\* A restoration that has not failed leaves every file as it was snapshotted.
LEMMA RestoresRightStep ==
  ASSUME StoreInv, [Next]_vars
  PROVE  RestoresRight'
<1> USE CallAssumption DEF Goto, work, tx
<1>1. /\ pc \in [Call -> Labels] /\ after \in [Call -> {"read", "begin", "undo", "clean"}]
      /\ left \in [Call -> SUBSET Collection] /\ bad \in [Call -> BOOLEAN]
      /\ files = [c \in Collection |-> files[c]]
  BY DEF StoreInv, Told, StoreTyped, Files
<1>2. Writing \/ Restoring \/ Elsewhere
  BY <1>1, StepsMatter DEF StoreInv, StoreTyped
<1>3. /\ \A p, q \in Call : pc[p] = "restore" /\ pc[q] = "restore" => p = q
      /\ \A p \in Call, w \in Writer : pc[p] = "restore" => pc[w] # "write"
  BY Alone DEF StoreInv
<1>4. CASE Elsewhere
  BY <1>4 DEF StoreInv, RestoresRight, Elsewhere
<1>5. ASSUME NEW w \in Writer, Publish(w) \/ WriteFile(w) \/ Finalize(w)
      PROVE  RestoresRight'
  <2>1. CASE Publish(w)
    <3>1. \A q \in Call : pc[q] # "restore"
      BY <2>1 DEF Publish, StoreInv, PointerPlaces, RestoresActive
    <3> QED BY <1>1, <2>1, <3>1 DEF Publish, RestoresRight, Call
  <2>2. CASE WriteFile(w) \/ Finalize(w)
    BY <1>1, <1>3, <2>2 DEF WriteFile, Finalize, RestoresRight, Call
  <2> QED BY <1>5, <2>1, <2>2
<1>6. ASSUME NEW w \in Writer, WriteFails(w)
      PROVE  RestoresRight'
  <2>1. /\ w \in Call /\ pc[w] = "write" /\ pointer' = pointer /\ journal' = journal
        /\ left'[w] = DOMAIN journal[w]
        /\ \A q \in Call \ {w} : pc'[q] = pc[q]
    BY <1>1, <1>6 DEF WriteFails, Call
  <2>2. pointer = w
    BY <2>1 DEF StoreInv, WritesActive
  <2> QED BY <1>3, <2>1, <2>2 DEF RestoresRight
<1>7. ASSUME NEW p \in Call, Recover(p) \/ Restored(p)
      PROVE  RestoresRight'
  <2>1. CASE Recover(p)
    BY <1>1, <2>1 DEF Recover, StoreInv, RestoresRight
  <2>2. CASE Restored(p)
    BY <1>1, <1>3, <2>2 DEF Restored, RestoresRight
  <2> QED BY <1>7, <2>1, <2>2
<1>8. ASSUME NEW p \in Call, RestoreFile(p)
      PROVE  RestoresRight'
  <2> DEFINE c == First(left[p])
             snapshot == journal[txn[p]][c]
  <2>1. /\ pc[p] = "restore" /\ pc' = pc /\ pointer' = pointer /\ journal' = journal
        /\ left'[p] = left[p] \ {c}
        /\ bad'[p] = TRUE \/ (bad' = bad /\ files' = [files EXCEPT ![c] = snapshot])
    BY <1>1, <1>8 DEF RestoreFile
  <2>2. txn[p] = pointer /\ left[p] \subseteq Collection /\ left[p] # {}
    BY <1>1, <1>8, <2>1 DEF StoreInv, RestoresActive, RestoreFile
  <2>3. c \in Collection /\ DOMAIN journal[pointer] \subseteq Collection
    BY <2>1, <2>2, FirstIn, CommitsIn DEF StoreInv, StoreTyped, RestoresActive
  <2> HIDE DEF c
  <2>4. ASSUME ~bad'[p], NEW d \in DOMAIN journal[pointer] \ left'[p]
        PROVE  files'[d] = journal[pointer][d]
    <3>1. CASE d = c
      BY <1>1, <2>1, <2>2, <2>3, <2>4, <3>1
    <3>2. CASE d # c
      <4>1. d \in DOMAIN journal[pointer] \ left[p] /\ ~bad[p]
        BY <2>1, <2>4, <3>2
      <4>2. files[d] = journal[pointer][d]
        BY <4>1, <2>1 DEF StoreInv, RestoresRight
      <4> QED BY <1>1, <2>1, <2>3, <2>4, <3>2, <4>2
    <3> QED BY <3>1, <3>2
  <2> QED BY <1>3, <2>1, <2>4 DEF RestoresRight
<1> QED
  BY <1>2, <1>4, <1>5, <1>6, <1>7, <1>8 DEF Writing, Restoring

\* A commit leaves every file it has written as its mutation makes it.
LEMMA WritesRightStep ==
  ASSUME StoreInv, [Next]_vars
  PROVE  WritesRight'
<1> USE CallAssumption DEF Goto, work, tx
<1>1. /\ pc \in [Call -> Labels] /\ after \in [Call -> {"read", "begin", "undo", "clean"}]
      /\ left \in [Call -> SUBSET Collection] /\ bad \in [Call -> BOOLEAN]
      /\ files = [c \in Collection |-> files[c]]
  BY DEF StoreInv, Told, StoreTyped, Files
<1>2. Writing \/ Restoring \/ Elsewhere
  BY <1>1, StepsMatter DEF StoreInv, StoreTyped
<1>3. /\ \A p \in Call, w \in Writer : pc[p] = "restore" => pc[w] # "write"
      /\ \A v, w \in Writer : pc[v] = "write" /\ pc[w] = "write" => v = w
  BY Alone DEF StoreInv, OneWriter
<1>4. CASE Elsewhere
  BY <1>4 DEF StoreInv, WritesRight, Elsewhere
<1>5. ASSUME NEW w \in Writer, Publish(w)
      PROVE  WritesRight'
  <2>1. /\ files' = files /\ seen' = seen /\ pc' = [pc EXCEPT ![w] = "write"]
        /\ left' = [left EXCEPT ![w] = Commits(MutationOf[w])]
    BY <1>5 DEF Publish
  <2> QED BY <1>1, <2>1 DEF StoreInv, WritesRight, Call
<1>6. ASSUME NEW w \in Writer, WriteFails(w) \/ Finalize(w)
      PROVE  WritesRight'
  <2>1. pc[w] = "write" /\ \A v \in Writer \ {w} : pc'[v] = pc[v]
    BY <1>1, <1>6 DEF WriteFails, Finalize, Call
  <2>2. pc'[w] # "write"
    BY <1>1, <1>6 DEF WriteFails, Finalize, Call
  <2> QED BY <1>3, <2>1, <2>2 DEF WritesRight
<1>7. ASSUME NEW p \in Call, Recover(p) \/ Restored(p)
      PROVE  WritesRight'
  <2>1. files' = files /\ seen' = seen
    BY <1>7 DEF Recover, Restored
  <2>2. \A w \in Writer : pc'[w] = "write" => pc[w] = "write" /\ left'[w] = left[w]
    BY <1>1, <1>7 DEF Recover, Restored, Call
  <2> QED BY <2>1, <2>2 DEF StoreInv, WritesRight
<1>8. ASSUME NEW p \in Call, RestoreFile(p)
      PROVE  WritesRight'
  BY <1>3, <1>8 DEF RestoreFile, WritesRight
<1>9. ASSUME NEW w \in Writer, WriteFile(w)
      PROVE  WritesRight'
  <2> DEFINE c == First(left[w])
  <2>1. /\ pc[w] = "write" /\ pc' = pc /\ seen' = seen /\ left'[w] = left[w] \ {c}
        /\ files' = [files EXCEPT ![c] = Applied(MutationOf[w], seen[w])[c]]
        /\ left[w] \subseteq Collection /\ left[w] # {}
    BY <1>1, <1>9 DEF WriteFile, Written, Call
  <2>2. c \in Collection
    BY <2>1, FirstIn
  <2>3. Commits(MutationOf[w]) \subseteq Collection
    BY CommitsIn
  <2> HIDE DEF c
  <2>4. ASSUME NEW d \in Commits(MutationOf[w]) \ left'[w]
        PROVE  files'[d] = Applied(MutationOf[w], seen[w])[d]
    <3>1. CASE d = c
      BY <1>1, <2>1, <2>2, <3>1
    <3>2. CASE d # c
      <4>1. d \in Commits(MutationOf[w]) \ left[w]
        BY <2>1, <2>4, <3>2
      <4>2. files[d] = Applied(MutationOf[w], seen[w])[d]
        BY <4>1, <2>1 DEF StoreInv, WritesRight
      <4> QED BY <1>1, <2>1, <2>3, <2>4, <3>2, <4>2
    <3> QED BY <3>1, <3>2
  <2>5. \A v \in Writer : pc'[v] = "write" => v = w
    BY <1>3, <2>1
  <2> QED BY <2>1, <2>4, <2>5 DEF WritesRight
<1> QED
  BY <1>2, <1>4, <1>5, <1>6, <1>7, <1>8, <1>9 DEF Writing, Restoring

-----------------------------------------------------------------------------
(* What the store holds.                                                    *)

\* The files that count.
Current == [c \in Collection |->
    IF pointer # NoCall /\ c \in DOMAIN journal[pointer] THEN journal[pointer][c] ELSE files[c]]

\* The store holds collections.
LEMMA CurrentTyped ==
  ASSUME StoreTyped
  PROVE  Current \in Files /\ Store = Loaded(Current) /\ Store \in Collections
<1>1. Current \in Files
  <2>1. \A c \in Collection : Current[c] \in CollectionType(c) \cup {NoFile}
    BY DEF StoreTyped, Current, Files
  <2>2. \A c \in Collection : CollectionType(c) \subseteq Anything
    BY TypesAre, Zenon DEF Collection
  <2> QED BY <2>1, <2>2 DEF Files, Current
<1>2. Store = Loaded(Current)
  BY DEF Store, Current
<1> QED BY <1>1, <1>2, LoadedTyped

\* Only the end of a commit changes what the store holds.
LEMMA CurrentKept ==
  ASSUME StoreInv, [Next]_vars
  PROVE  (\E w \in Writer : Finalize(w)) \/ (Current' = Current /\ committed' = committed)
<1> USE CallAssumption DEF Goto, work, tx
<1>1. /\ pc \in [Call -> Labels] /\ after \in [Call -> {"read", "begin", "undo", "clean"}]
      /\ left \in [Call -> SUBSET Collection] /\ bad \in [Call -> BOOLEAN]
      /\ files = [c \in Collection |-> files[c]] /\ journal = [w \in Writer |-> journal[w]]
      /\ pointer \in Writer \cup {NoCall}
      /\ pointer # NoCall => DOMAIN journal[pointer] = Commits(MutationOf[pointer])
  BY DEF StoreInv, Told, StoreTyped, Files
<1>2. Writing \/ Restoring \/ Elsewhere
  BY <1>1, StepsMatter DEF StoreInv, StoreTyped
<1>3. CASE Elsewhere
  BY <1>3 DEF Elsewhere, Current
<1>4. ASSUME NEW w \in Writer, Publish(w)
      PROVE  Current' = Current /\ committed' = committed
  <2>1. pointer = NoCall
    BY <1>4 DEF Publish, StoreInv, PointerPlaces
  <2>2. /\ files' = files /\ pointer' = w /\ w # NoCall /\ committed' = committed
        /\ journal'[w] = [c \in Commits(MutationOf[w]) |-> files[c]]
    BY <1>1, <1>4 DEF Publish, Snapshots, Restrict, Call
  <2> QED BY <2>1, <2>2 DEF Current
<1>5. ASSUME NEW w \in Writer, WriteFile(w) \/ WriteFails(w)
      PROVE  Current' = Current /\ committed' = committed
  <2> DEFINE c == First(left[w])
  <2>1. pc[w] = "write" /\ left[w] # {}
    BY <1>5 DEF WriteFile, WriteFails
  <2>2. pointer = w /\ w # NoCall /\ c \in DOMAIN journal[w]
    BY <1>1, <2>1, FirstIn, CommitsIn DEF StoreInv, WritesActive, Call
  <2>3. /\ pointer' = pointer /\ journal' = journal /\ committed' = committed
        /\ files' = files \/ files' = [files EXCEPT ![c] = Applied(MutationOf[w], seen[w])[c]]
    BY <1>5 DEF WriteFile, WriteFails, Written
  <2> HIDE DEF c
  <2> QED BY <1>1, <2>2, <2>3 DEF Current
<1>6. ASSUME NEW p \in Call, Recover(p)
      PROVE  Current' = Current /\ committed' = committed
  BY <1>6 DEF Recover, Current
<1>7. ASSUME NEW p \in Call, RestoreFile(p)
      PROVE  Current' = Current /\ committed' = committed
  <2> DEFINE c == First(left[p])
  <2>1. pc[p] = "restore" /\ left[p] # {}
    BY <1>7 DEF RestoreFile
  <2>2. pointer = txn[p] /\ pointer # NoCall /\ c \in DOMAIN journal[pointer]
    BY <1>1, <2>1, FirstIn DEF StoreInv, RestoresActive
  <2>3. /\ pointer' = pointer /\ journal' = journal /\ committed' = committed
        /\ files' = files \/ files' = [files EXCEPT ![c] = journal[txn[p]][c]]
    BY <1>7 DEF RestoreFile
  <2> HIDE DEF c
  <2> QED BY <1>1, <2>2, <2>3 DEF Current
<1>8. ASSUME NEW p \in Call, Restored(p)
      PROVE  Current' = Current /\ committed' = committed
  <2>1. /\ pc[p] = "restore" /\ left[p] = {} /\ ~bad[p] /\ pointer' = NoCall
        /\ files' = files /\ journal' = journal /\ committed' = committed
    BY <1>8 DEF Restored
  <2>2. pointer # NoCall /\ \A c \in DOMAIN journal[pointer] : files[c] = journal[pointer][c]
    BY <2>1 DEF StoreInv, RestoresActive, RestoresRight
  <2> QED BY <2>1, <2>2 DEF Current
<1> QED
  BY <1>2, <1>3, <1>4, <1>5, <1>6, <1>7, <1>8 DEF Writing, Restoring

\* A commit begins only if the mutation was admitted on what it loaded.
LEMMA AdmittedStep ==
  ASSUME pc \in [Call -> Labels], after \in [Call -> {"read", "begin", "undo", "clean"}],
         left \in [Call -> SUBSET Collection], need \in [Call -> SUBSET Collection],
         seen \in [Call -> Collections], bad \in [Call -> BOOLEAN], txn \in [Call -> Writer \cup {NoCall}],
         RightPlaces, Admitted, [Next]_vars
  PROVE  Admitted'
<1> USE CallAssumption DEF Call, Goto, Return, Fail, Forget, Labels, RightPlaces, Admitted, Loading, Recovering, tx
<1>1. ASSUME NEW r \in Reader, BeginRead(r)
      PROVE  Admitted'
  BY <1>1 DEF BeginRead, work
<1>2. ASSUME NEW w \in Writer, BeginWrite(w)
      PROVE  Admitted'
  BY <1>2 DEF BeginWrite, work
<1>3. ASSUME NEW w \in Writer, Judge(w)
      PROVE  Admitted'
  BY <1>3 DEF Judge, work
<1>4. ASSUME NEW w \in Writer, MoveAside(w) \/ Place(w) \/ MoveFails(w)
      PROVE  Admitted'
  BY <1>4 DEF MoveAside, Place, MoveFails, work
<1>5. ASSUME NEW w \in Writer, Undo(w) \/ UndoFails(w)
      PROVE  Admitted'
  BY <1>5 DEF Undo, UndoFails, work
<1>6. ASSUME NEW w \in Writer, Publish(w) \/ PublishFails(w)
      PROVE  Admitted'
  BY <1>6 DEF Publish, PublishFails, work
<1>7. ASSUME NEW w \in Writer, WriteFile(w) \/ WriteFails(w)
      PROVE  Admitted'
  BY <1>7 DEF WriteFile, WriteFails, work
<1>8. ASSUME NEW w \in Writer, Finalize(w) \/ FinalizeFails(w)
      PROVE  Admitted'
  BY <1>8 DEF Finalize, FinalizeFails, work
<1>9. ASSUME NEW w \in Writer, Clean(w) \/ Close(w)
      PROVE  Admitted'
  BY <1>9 DEF Clean, Close, work
<1>10. ASSUME NEW p \in Call, Clear(p) \/ Refused(p) \/ Recover(p)
       PROVE  Admitted'
  BY <1>10 DEF Clear, Refused, Recover, work
<1>11. ASSUME NEW p \in Call, Read(p)
       PROVE  Admitted'
  BY <1>11 DEF Read, work
<1>12. ASSUME NEW p \in Call, RestoreFile(p) \/ Restored(p) \/ RestoreGivesUp(p) \/ Discard(p)
       PROVE  Admitted'
  BY <1>12 DEF RestoreFile, Restored, RestoreGivesUp, Discard, work
<1>13. ASSUME NEW p \in Call, Crash(p)
       PROVE  Admitted'
  BY <1>13 DEF Crash, work
<1>14. CASE (\E t \in Writer : Age(t)) \/ UNCHANGED vars
  BY <1>14 DEF Age, work, vars
<1> QED
  BY <1>1, <1>2, <1>3, <1>4, <1>5, <1>6, <1>7, <1>8, <1>9, <1>10, <1>11, <1>12, <1>13, <1>14
  DEF Next, Load, Restore, Move, Commit

\* What a step may do to what a writer has loaded.
Looked == \A w \in Writer : Pending(w)' =>
    \/ need'[w] = Loads(MutationOf[w])
    \/ Pending(w) /\ seen'[w] = seen[w] /\ need'[w] = need[w]
    \/ Read(w)

\* A writer loads step by step.
LEMMA LookedStep ==
  ASSUME pc \in [Call -> Labels], after \in [Call -> {"read", "begin", "undo", "clean"}],
         left \in [Call -> SUBSET Collection], need \in [Call -> SUBSET Collection],
         seen \in [Call -> Collections], bad \in [Call -> BOOLEAN], txn \in [Call -> Writer \cup {NoCall}],
         RightPlaces, [Next]_vars
  PROVE  Looked
<1> USE CallAssumption DEF Call, Goto, Return, Fail, Forget, Labels, RightPlaces, Looked, Pending, Loading, Recovering, tx
<1>1. ASSUME NEW r \in Reader, BeginRead(r)
      PROVE  Looked
  BY <1>1 DEF BeginRead, work
<1>2. ASSUME NEW w \in Writer, BeginWrite(w)
      PROVE  Looked
  BY <1>2 DEF BeginWrite, work
<1>3. ASSUME NEW w \in Writer, Judge(w)
      PROVE  Looked
  BY <1>3 DEF Judge, work
<1>4. ASSUME NEW w \in Writer, MoveAside(w) \/ Place(w) \/ MoveFails(w)
      PROVE  Looked
  BY <1>4 DEF MoveAside, Place, MoveFails, work
<1>5. ASSUME NEW w \in Writer, Undo(w) \/ UndoFails(w)
      PROVE  Looked
  BY <1>5 DEF Undo, UndoFails, work
<1>6. ASSUME NEW w \in Writer, Publish(w) \/ PublishFails(w)
      PROVE  Looked
  BY <1>6 DEF Publish, PublishFails, work
<1>7. ASSUME NEW w \in Writer, WriteFile(w) \/ WriteFails(w)
      PROVE  Looked
  BY <1>7 DEF WriteFile, WriteFails, work
<1>8. ASSUME NEW w \in Writer, Finalize(w) \/ FinalizeFails(w)
      PROVE  Looked
  BY <1>8 DEF Finalize, FinalizeFails, work
<1>9. ASSUME NEW w \in Writer, Clean(w) \/ Close(w)
      PROVE  Looked
  BY <1>9 DEF Clean, Close, work
<1>10. ASSUME NEW p \in Call, Clear(p) \/ Refused(p) \/ Recover(p)
       PROVE  Looked
  BY <1>10 DEF Clear, Refused, Recover, work
<1>11. ASSUME NEW p \in Call, Read(p)
       PROVE  Looked
  <2>1. /\ after' = after
        /\ \A w \in Call \ {p} : pc'[w] = pc[w] /\ seen'[w] = seen[w] /\ need'[w] = need[w]
    BY <1>11 DEF Read, work
  <2>2. ASSUME NEW w \in Writer, Pending(w)', w # p
        PROVE  Pending(w) /\ seen'[w] = seen[w] /\ need'[w] = need[w]
    BY <2>1, <2>2 DEF Pending, Loading, Recovering
  <2>3. \A w \in Writer : w = p => Read(w)
    BY <1>11
  <2> QED BY <2>2, <2>3 DEF Looked
<1>12. ASSUME NEW p \in Call, RestoreFile(p) \/ Restored(p) \/ RestoreGivesUp(p) \/ Discard(p)
       PROVE  Looked
  BY <1>12 DEF RestoreFile, Restored, RestoreGivesUp, Discard, work
<1>13. ASSUME NEW p \in Call, Crash(p)
       PROVE  Looked
  BY <1>13 DEF Crash, work
<1>14. CASE (\E t \in Writer : Age(t)) \/ UNCHANGED vars
  BY <1>14 DEF Age, work, vars
<1> QED
  BY <1>1, <1>2, <1>3, <1>4, <1>5, <1>6, <1>7, <1>8, <1>9, <1>10, <1>11, <1>12, <1>13, <1>14
  DEF Next, Load, Restore, Move, Commit

\* What a writer has loaded is what the store holds.
LEMMA SawStoreStep ==
  ASSUME StoreInv, [Next]_vars
  PROVE  SawStore'
<1> USE CallAssumption
<1>1. /\ pc \in [Call -> Labels] /\ after \in [Call -> {"read", "begin", "undo", "clean"}]
      /\ left \in [Call -> SUBSET Collection] /\ need \in [Call -> SUBSET Collection]
      /\ seen \in [Call -> Collections] /\ bad \in [Call -> BOOLEAN]
      /\ txn \in [Call -> Writer \cup {NoCall}]
  BY DEF StoreInv, Told, StoreTyped
<1>2. Looked
  BY <1>1, LookedStep DEF StoreInv
<1>3. CASE \E v \in Writer : Finalize(v)
  <2>1. PICK v \in Writer : Finalize(v)
    BY <1>3
  <2>2. /\ pc[v] = "write" /\ pc' = [pc EXCEPT ![v] = "discard"] /\ after' = [after EXCEPT ![v] = "clean"]
    BY <2>1 DEF Finalize, Goto
  <2>3. \A w \in Writer : ~Pending(w)'
    BY <1>1, <2>2 DEF StoreInv, OneWriter, Pending, Loading, Recovering, Call
  <2> QED BY <2>3 DEF SawStore
<1>4. CASE Current' = Current
  <2>1. Store' = Store
    BY <1>4 DEF Store, Current
  <2>2. ASSUME NEW w \in Writer, Pending(w)', Read(w), NEW d \in Loads(MutationOf[w]) \ need'[w]
        PROVE  seen'[w][d] = Store[d]
    <3> DEFINE c == First(need[w])
    <3>1. pc[w] = "read" /\ w \in Call /\ w \notin Reader
      BY <2>2 DEF Read, Call
    <3>2. pointer = NoCall /\ need[w] # {}
      BY <3>1 DEF StoreInv, PointerPlaces, RightPlaces, Loading
    <3>3. c \in Collection /\ Pending(w)
      BY <1>1, <3>1, <3>2, FirstIn DEF Pending, Loading
    <3>4. Store[c] = Loaded(files)[c]
      BY <3>2, <3>3 DEF Store, Loaded
    <3>5. seen' = [seen EXCEPT ![w][c] = Loaded(files)[c]] /\ need' = [need EXCEPT ![w] = @ \ {c}]
      BY <2>2, <3>1 DEF Read
    <3>6. d \in Collection /\ seen[w] = [e \in Collection |-> seen[w][e]]
      BY <1>1, <3>1, LoadsSomething DEF Collections
    <3> HIDE DEF c
    <3>7. seen'[w] = [seen[w] EXCEPT ![c] = Loaded(files)[c]] /\ need'[w] = need[w] \ {c}
      BY <1>1, <3>1, <3>5
    <3>8. CASE d = c
      BY <3>3, <3>4, <3>6, <3>7, <3>8
    <3>9. CASE d # c
      <4>1. d \in Loads(MutationOf[w]) \ need[w]
        BY <2>2, <3>7, <3>9
      <4>2. seen[w][d] = Store[d]
        BY <3>3, <4>1 DEF StoreInv, SawStore
      <4> QED BY <3>6, <3>7, <3>9, <4>2
    <3> QED BY <3>8, <3>9
  <2> QED BY <1>2, <2>1, <2>2 DEF StoreInv, SawStore, Looked
<1> QED BY <1>3, <1>4, CurrentKept

\* The bookkeeping of the calls keeps its types.
LocalsTyped ==
    /\ need \in [Call -> SUBSET Collection] /\ left \in [Call -> SUBSET Collection]
    /\ txn \in [Call -> Writer \cup {NoCall}] /\ bad \in [Call -> BOOLEAN]
    /\ pointer \in Writer \cup {NoCall} /\ holder \in Writer \cup {NoCall}
    /\ aged \subseteq Writer /\ committed \subseteq Writer


\* Every step keeps them.
LEMMA LocalsTypedStep ==
  ASSUME journal = [w \in Writer |-> journal[w]],
         pointer # NoCall => DOMAIN journal[pointer] = Commits(MutationOf[pointer]),
         \A w \in Writer : pc[w] = "write" => pointer = w,
         LocalsTyped, [Next]_vars
  PROVE  LocalsTyped'
<1> USE CallAssumption DEF Call, Goto, Return, Fail, Forget, LocalsTyped, tx
<1>1. ASSUME NEW r \in Reader, BeginRead(r)
      PROVE  LocalsTyped'
  BY <1>1 DEF BeginRead, work
<1>2. ASSUME NEW w \in Writer, BeginWrite(w)
      PROVE  LocalsTyped'
  BY <1>2, LoadsSomething DEF BeginWrite, work
<1>3. ASSUME NEW w \in Writer, Judge(w)
      PROVE  LocalsTyped'
  BY <1>3 DEF Judge, work
<1>4. ASSUME NEW w \in Writer, MoveAside(w) \/ Place(w) \/ MoveFails(w)
      PROVE  LocalsTyped'
  BY <1>4 DEF MoveAside, Place, MoveFails, work
<1>5. ASSUME NEW w \in Writer, Undo(w) \/ UndoFails(w)
      PROVE  LocalsTyped'
  BY <1>5 DEF Undo, UndoFails, work
<1>6. ASSUME NEW w \in Writer, Publish(w) \/ PublishFails(w)
      PROVE  LocalsTyped'
  BY <1>6, CommitsIn DEF Publish, PublishFails, work
<1>7. ASSUME NEW w \in Writer, WriteFile(w) \/ WriteFails(w)
      PROVE  LocalsTyped'
  <2>1. CASE WriteFile(w)
    <3>1. left' = [left EXCEPT ![w] = left[w] \ {First(left[w])}]
      BY <2>1 DEF WriteFile
    <3> QED BY <2>1, <3>1 DEF WriteFile, work
  <2>2. CASE WriteFails(w)
    <3>1. pc[w] = "write" /\ left' = [left EXCEPT ![w] = DOMAIN journal[w]]
      BY <2>2 DEF WriteFails
    <3>2. DOMAIN journal[w] \subseteq Collection
      BY <3>1, CommitsIn
    <3> QED BY <2>2, <3>1, <3>2 DEF WriteFails
  <2> QED BY <1>7, <2>1, <2>2
<1>8. ASSUME NEW w \in Writer, Finalize(w) \/ FinalizeFails(w)
      PROVE  LocalsTyped'
  BY <1>8 DEF Finalize, FinalizeFails, work
<1>9. ASSUME NEW w \in Writer, Clean(w) \/ Close(w)
      PROVE  LocalsTyped'
  BY <1>9 DEF Clean, Close, work
<1>10. ASSUME NEW p \in Call, Clear(p) \/ Refused(p) \/ Recover(p)
       PROVE  LocalsTyped'
  <2>1. CASE Clear(p)
    BY <2>1 DEF Clear, work
  <2>2. CASE Refused(p)
    BY <2>2 DEF Refused, work
  <2>3. CASE Recover(p)
    <3>1. pointer \in Writer /\ left' = [left EXCEPT ![p] = DOMAIN journal[pointer]]
      BY <2>3 DEF Recover
    <3>2. DOMAIN journal[pointer] \subseteq Collection
      BY <3>1, CommitsIn
    <3> QED BY <2>3, <3>1, <3>2 DEF Recover
  <2> QED BY <1>10, <2>1, <2>2, <2>3
<1>11. ASSUME NEW p \in Call, Read(p)
       PROVE  LocalsTyped'
  BY <1>11 DEF Read, work
<1>12. ASSUME NEW p \in Call, RestoreFile(p) \/ Restored(p) \/ RestoreGivesUp(p) \/ Discard(p)
       PROVE  LocalsTyped'
  <2>1. CASE RestoreFile(p)
    <3>1. \E c : left' = [left EXCEPT ![p] = left[p] \ {c}]
      BY <2>1 DEF RestoreFile
    <3>2. bad' = bad \/ bad' = [bad EXCEPT ![p] = TRUE]
      BY <2>1 DEF RestoreFile
    <3> QED BY <2>1, <3>1, <3>2 DEF RestoreFile
  <2>2. CASE Restored(p)
    BY <2>2 DEF Restored, work
  <2>3. CASE RestoreGivesUp(p)
    BY <2>3 DEF RestoreGivesUp, work
  <2>4. CASE Discard(p)
    BY <2>4 DEF Discard, work
  <2> QED BY <1>12, <2>1, <2>2, <2>3, <2>4
<1>13. ASSUME NEW p \in Call, Crash(p)
       PROVE  LocalsTyped'
  BY <1>13 DEF Crash, work
<1>14. CASE (\E t \in Writer : Age(t)) \/ UNCHANGED vars
  BY <1>14 DEF Age, work, vars
<1> QED
  BY <1>1, <1>2, <1>3, <1>4, <1>5, <1>6, <1>7, <1>8, <1>9, <1>10, <1>11, <1>12, <1>13, <1>14
  DEF Next, Load, Restore, Move, Commit

\* Every step keeps the types of the files, the journals and the loaded collections.
LEMMA StoreTypedStep ==
  ASSUME StoreInv, [Next]_vars
  PROVE  StoreTyped'
<1> USE CallAssumption DEF Goto, work, tx
<1>1. /\ pc \in [Call -> Labels] /\ after \in [Call -> {"read", "begin", "undo", "clean"}]
      /\ left \in [Call -> SUBSET Collection] /\ bad \in [Call -> BOOLEAN] /\ seen \in [Call -> Collections]
      /\ journal = [w \in Writer |-> journal[w]] /\ pointer \in Writer \cup {NoCall} /\ LocalsTyped
      /\ pointer # NoCall => DOMAIN journal[pointer] = Commits(MutationOf[pointer])
      /\ \A w \in Writer : pc[w] = "write" => pointer = w
  BY DEF StoreInv, Told, StoreTyped, LocalsTyped, WritesActive
<1>2. Writing \/ Restoring \/ Elsewhere
  BY <1>1, StepsMatter DEF StoreInv
<1>3. LocalsTyped'
  BY <1>1, LocalsTypedStep
<1>4. seen' \in [Call -> Collections]
  <2>1. ASSUME NEW p \in Call, Read(p)
        PROVE  seen' \in [Call -> Collections]
    <3> DEFINE c == First(need[p])
    <3>1. seen' = seen \/ seen' = [seen EXCEPT ![p][c] = Loaded(files)[c]]
      BY <2>1 DEF Read
    <3>2. seen[p] \in Collections /\ Loaded(files) \in Collections
      BY <1>1, LoadedTyped DEF StoreInv, StoreTyped
    <3>3. [seen[p] EXCEPT ![c] = Loaded(files)[c]] \in Collections
      <4> DEFINE t == [seen[p] EXCEPT ![c] = Loaded(files)[c]]
      <4>1. t = seen[p] \/ (c \in Collection /\ t = [seen[p] EXCEPT ![c] = Loaded(files)[c]])
        BY <3>2 DEF Collections
      <4> QED BY <3>2, <4>1 DEF Collections
    <3> HIDE DEF c
    <3> QED BY <1>1, <3>1, <3>3
  <2>2. ASSUME NEW p \in Call, Forget(p)
        PROVE  seen' \in [Call -> Collections]
    BY <1>1, <2>2, EmptyTyped DEF Forget
  <2>3. \/ seen' = seen
        \/ \E p \in Call : Read(p) \/ Forget(p)
    BY DEF Next, Move, Commit, Load, Restore, BeginRead, BeginWrite, Judge, MoveAside, Place, MoveFails, Undo, UndoFails, Publish,
       PublishFails, WriteFile, WriteFails, Finalize, FinalizeFails, Clean, Close, Clear, Refused, Recover, RestoreFile,
       Restored, RestoreGivesUp, Discard, Crash, Age, vars, Call
  <2> QED BY <1>1, <2>1, <2>2, <2>3
<1> DEFINE FilesTypedNext ==
             /\ files' \in Files /\ journal' = [w \in Writer |-> journal'[w]]
             /\ pointer' # NoCall =>
                   /\ DOMAIN journal'[pointer'] = Commits(MutationOf[pointer'])
                   /\ \A c \in DOMAIN journal'[pointer'] : journal'[pointer'][c] \in CollectionType(c) \cup {NoFile}
<1>5. FilesTypedNext
  <2>0. /\ files \in Files /\ \A c \in Collection : CollectionType(c) \subseteq Anything
        /\ pointer # NoCall =>
              \A c \in DOMAIN journal[pointer] : journal[pointer][c] \in CollectionType(c) \cup {NoFile}
    BY TypesAre, Zenon DEF StoreInv, StoreTyped, Collection
  <2>1. CASE UNCHANGED <<files, pointer, journal>>
    BY <1>1, <2>0, <2>1
  <2>2. CASE UNCHANGED <<files, journal>> /\ pointer' = NoCall
    BY <1>1, <2>0, <2>2
  <2>3. ASSUME NEW w \in Writer, Publish(w)
        PROVE  FilesTypedNext
    <3>1. /\ files' = files /\ pointer' = w
          /\ journal' = [journal EXCEPT ![w] = [c \in Commits(MutationOf[w]) |-> files[c]]]
      BY <2>3 DEF Publish, Snapshots, Restrict
    <3>2. \A c \in Commits(MutationOf[w]) : files[c] \in CollectionType(c) \cup {NoFile}
      BY <2>0, CommitsIn DEF Files
    <3>3. journal'[w] = [c \in Commits(MutationOf[w]) |-> files[c]] /\ journal' = [v \in Writer |-> journal'[v]]
      BY <1>1, <3>1
    <3> QED BY <2>0, <3>1, <3>2, <3>3
  <2>4. ASSUME NEW w \in Writer, WriteFile(w) \/ WriteFails(w)
        PROVE  FilesTypedNext
    <3> DEFINE c == First(left[w])
               value == Applied(MutationOf[w], seen[w])[c]
    <3>1. /\ pointer' = pointer /\ journal' = journal /\ pc[w] = "write" /\ left[w] # {} /\ w \in Call
          /\ files' = files \/ files' = [files EXCEPT ![c] = value]
      BY <2>4 DEF WriteFile, WriteFails, Written, Call
    <3>2. c \in Collection
      BY <1>1, <3>1, FirstIn
    <3>3. value \in CollectionType(c)
      <4>1. MutationOf[w] \in Mutation /\ seen[w] \in Collections /\ Admits(MutationOf[w], seen[w])
        BY <1>1, <3>1 DEF StoreInv, Admitted
      <4>2. Applied(MutationOf[w], seen[w]) \in Collections
        BY <4>1, MutationWrites
      <4> QED BY <3>2, <4>2 DEF Collections
    <3> HIDE DEF c, value
    <3>4. files' \in Files
      BY <2>0, <3>1, <3>2, <3>3 DEF Files
    <3> QED BY <1>1, <2>0, <3>1, <3>4
  <2>5. ASSUME NEW p \in Call, RestoreFile(p)
        PROVE  FilesTypedNext
    <3> DEFINE c == First(left[p])
               value == journal[txn[p]][c]
    <3>1. /\ pointer' = pointer /\ journal' = journal /\ pc[p] = "restore" /\ left[p] # {}
          /\ files' = files \/ files' = [files EXCEPT ![c] = value]
      BY <2>5 DEF RestoreFile
    <3>2. c \in Collection /\ c \in DOMAIN journal[pointer] /\ txn[p] = pointer /\ pointer # NoCall
      BY <1>1, <3>1, FirstIn DEF StoreInv, RestoresActive
    <3>3. value \in CollectionType(c) \cup {NoFile}
      BY <2>0, <3>2
    <3> HIDE DEF c, value
    <3>4. files' \in Files
      BY <2>0, <3>1, <3>2, <3>3 DEF Files
    <3> QED BY <1>1, <2>0, <3>1, <3>4
  <2>6. \/ UNCHANGED <<files, pointer, journal>>
        \/ UNCHANGED <<files, journal>> /\ pointer' = NoCall
        \/ \E w \in Writer : Publish(w) \/ WriteFile(w) \/ WriteFails(w)
        \/ \E p \in Call : RestoreFile(p)
    BY <1>2 DEF Writing, Restoring, Elsewhere, Recover, Restored, Finalize
  <2> HIDE DEF FilesTypedNext
  <2> QED BY <2>1, <2>2, <2>3, <2>4, <2>5, <2>6
<1> QED BY <1>3, <1>4, <1>5 DEF StoreTyped, LocalsTyped

\* Every step keeps the invariant.
LEMMA StoreInvStep ==
  ASSUME ~Overlap, ~Suspend, StoreInv, [Next]_vars
  PROVE  StoreInv'
<1>1. /\ pc \in [Call -> Labels] /\ after \in [Call -> {"read", "begin", "undo", "clean"}]
      /\ left \in [Call -> SUBSET Collection] /\ need \in [Call -> SUBSET Collection]
      /\ seen \in [Call -> Collections] /\ bad \in [Call -> BOOLEAN]
      /\ txn \in [Call -> Writer \cup {NoCall}] /\ journal = [w \in Writer |-> journal[w]]
      /\ Told /\ StoreTyped /\ RightPlaces /\ OneWriter /\ AgedOver /\ PointerPlaces /\ OneRecovers
      /\ RestoresActive /\ WritesActive /\ Admitted
  BY DEF StoreInv, Told, StoreTyped
<1>2. Told' /\ RightPlaces' /\ OneWriter' /\ AgedOver' /\ PointerPlaces' /\ OneRecovers'
  BY <1>1, ToldStep, RightPlacesStep, OneWriterStep, AgedOverStep, PointerPlacesStep, OneRecoversStep
<1>3. RestoresActive' /\ WritesActive' /\ Admitted'
  BY <1>1, RestoresActiveStep, WritesActiveStep, AdmittedStep
<1>4. StoreTyped' /\ RestoresRight' /\ WritesRight' /\ SawStore'
  BY StoreTypedStep, RestoresRightStep, WritesRightStep, SawStoreStep
<1> QED BY <1>2, <1>3, <1>4 DEF StoreInv

-----------------------------------------------------------------------------
(* The refinement.                                                          *)

\* The abstract store's operators are those of the store.
LEMMA SameOperators ==
  /\ \A m, s : Atomic!Admits(m, s) = Admits(m, s) /\ Atomic!Applied(m, s) = Applied(m, s)
  /\ Atomic!Contents = Contents
<1>0. \A S : Atomic!Cardinality(S) = Cardinality(S)
  BY Zenon DEF Atomic!Cardinality, Cardinality
<1>1. ASSUME NEW items, NEW i, NEW n
      PROVE  Atomic!Above(items, i, n) = Above(items, i, n)
  BY DEF Atomic!Above, Above
<1>2. ASSUME NEW items, NEW item
      PROVE  Atomic!DeleteSet(items, item) = DeleteSet(items, item)
  <2>1. \A i, n : Atomic!Above(items, i, n) = Above(items, i, n)
    BY <1>1
  <2> QED BY <1>0, <2>1 DEF Atomic!DeleteSet, DeleteSet
<1>3. ASSUME NEW items, NEW item, NEW parent
      PROVE  Atomic!CreatesCycle(items, item, parent) = CreatesCycle(items, item, parent)
  <2>1. \A n : Atomic!Above(items, parent, n) = Above(items, parent, n)
    BY <1>1
  <2> QED BY <1>0, <2>1 DEF Atomic!CreatesCycle, CreatesCycle
<1>4. ASSUME NEW m, NEW s
      PROVE  Atomic!Admits(m, s) = Admits(m, s)
  <2>1. Atomic!MayCreate(m, s) = MayCreate(m, s)
    BY DEF Atomic!MayCreate, MayCreate, Atomic!IsParent, IsParent
  <2>2. Atomic!MayUpdate(m, s) = MayUpdate(m, s)
    BY <1>3 DEF Atomic!MayUpdate, MayUpdate, Atomic!IsParent, IsParent
  <2>3. Atomic!MayRemember(m, s) = MayRemember(m, s)
    BY <1>0 DEF Atomic!MayRemember, MayRemember, Atomic!ValidMemory, ValidMemory
  <2>4. Atomic!MayAdd(m, s) = MayAdd(m, s)
    BY DEF Atomic!MayAdd, MayAdd
  <2> QED BY <2>1, <2>2, <2>3, <2>4 DEF Atomic!Admits, Admits
<1>5. ASSUME NEW m, NEW s
      PROVE  Atomic!Applied(m, s) = Applied(m, s)
  <2>1. \A f, D : Atomic!Restrict(f, D) = Restrict(f, D)
    BY DEF Atomic!Restrict, Restrict
  <2>2. \A f, x, y : Atomic!Put(f, x, y) = Put(f, x, y)
    BY DEF Atomic!Put, Put
  <2>3. Atomic!WithoutSubtree(s, m.item) = WithoutSubtree(s, m.item)
    BY <1>2, <2>1 DEF Atomic!WithoutSubtree, WithoutSubtree
  <2> QED BY <2>1, <2>2, <2>3 DEF Atomic!Applied, Applied
<1>6. Atomic!Contents = Contents
  BY Zenon DEF Atomic!Contents, Contents, Atomic!Hierarchy, Hierarchy, Atomic!Registry, Registry, Atomic!Partial, Partial
<1> QED BY <1>4, <1>5, <1>6

\* The end of a commit is the abstract one.
LEMMA FinalizeCommits ==
  ASSUME StoreInv, NEW w \in Writer, Finalize(w), [Next]_vars
  PROVE  Atomic!Commit(w)
<1> DEFINE m == MutationOf[w]
<1>1. /\ pc[w] = "write" /\ left[w] = {} /\ w \in Call /\ pointer' = NoCall /\ files' = files
      /\ committed' = committed \cup {w} /\ m \in Mutation
  BY CallAssumption DEF Finalize, Call
<1>2. w \notin committed
  BY <1>1 DEF StoreInv, Told
<1>3. /\ pointer = w /\ need[w] = {} /\ Admits(m, seen[w]) /\ seen[w] \in Collections /\ Loads(m) \subseteq Collection
      /\ files \in Files
  BY <1>1, LoadsSomething DEF StoreInv, WritesActive, RightPlaces, Admitted, StoreTyped
<1>4. \A c \in Loads(m) : seen[w][c] = Store[c]
  BY <1>1, <1>3 DEF StoreInv, SawStore, Pending
<1>5. Store \in Collections /\ Store' \in Collections /\ Store' = Loaded(files)
  <2>1. Store \in Collections
    BY CurrentTyped DEF StoreInv
  <2>2. Store' = Loaded([c \in Collection |-> files[c]])
    BY <1>1 DEF Store
  <2>3. [c \in Collection |-> files[c]] = files
    BY <1>3 DEF Files
  <2> QED BY <1>3, <2>1, <2>2, <2>3, LoadedTyped
<1>6. /\ Admits(m, Store)
      /\ \A c \in Commits(m) : Applied(m, seen[w])[c] = Applied(m, Store)[c]
  BY <1>1, <1>3, <1>4, <1>5, MutationReads
<1>7. /\ Applied(m, Store) \in Collections /\ Commits(m) \subseteq Collection
      /\ \A c \in Collection \ Commits(m) : Applied(m, Store)[c] = Store[c]
  BY <1>1, <1>5, <1>6, MutationWrites
<1>8. ASSUME NEW c \in Collection
      PROVE  Store'[c] = Applied(m, Store)[c]
  <2>1. CASE c \in Commits(m)
    <3>1. files[c] = Applied(m, Store)[c]
      BY <1>1, <1>6, <2>1 DEF StoreInv, WritesRight
    <3>2. files[c] # NoFile
      BY <1>7, <3>1, FilesAssumption DEF Collections, CollectionType, Collection
    <3> QED BY <1>5, <3>1, <3>2 DEF Loaded
  <2>2. CASE c \notin Commits(m)
    <3>1. c \notin DOMAIN journal[pointer]
      BY <1>1, <1>3, <2>2, CallAssumption DEF StoreInv, StoreTyped
    <3>2. Store[c] = Loaded(files)[c]
      BY <3>1 DEF Store, Loaded
    <3> QED BY <1>5, <1>7, <2>2, <3>2
  <2> QED BY <2>1, <2>2
<1>9. Store' = Applied(m, Store)
  BY <1>5, <1>7, <1>8 DEF Collections
<1> QED BY <1>1, <1>2, <1>6, <1>9, SameOperators DEF Atomic!Commit

\* If recoveries do not overlap and no live commit looks stale, then through any crashes
\* and failed steps every mutation takes effect as a whole, on what its predecessor left,
\* or not at all (internal/workspace/transaction.go).
THEOREM WorkspaceImplementsStore ==
  ASSUME ~Overlap, ~Suspend
  PROVE  Spec => ImplementsAtomicStore
<1>1. Init => Atomic!Init
  <2>1. SUFFICES ASSUME Init
                 PROVE  Store \in Contents /\ committed = {}
    BY SameOperators DEF Atomic!Init
  <2> QED BY <2>1, StoreInvInit, CurrentTyped, ContentsAreCollections DEF StoreInv, Init
<1>2. StoreInv /\ [Next]_vars => [Atomic!Next]_<<Store, committed>>
  <2>1. SUFFICES ASSUME StoreInv, [Next]_vars
                 PROVE  Atomic!Next \/ (Store' = Store /\ committed' = committed)
    OBVIOUS
  <2>2. CASE \E w \in Writer : Finalize(w)
    BY <2>1, <2>2, FinalizeCommits DEF Atomic!Next
  <2>3. CASE Current' = Current /\ committed' = committed
    BY <2>3 DEF Store, Current
  <2> QED BY <2>1, <2>2, <2>3, CurrentKept
<1>3. StoreInv /\ [Next]_vars => StoreInv'
  BY StoreInvStep
<1> QED BY <1>1, <1>2, <1>3, StoreInvInit, PTL DEF Spec, ImplementsAtomicStore, Atomic!Spec

\* Under the same hypotheses no file changes while no transaction is active: not even a
\* rollback writes once its pointer is gone (internal/workspace/transaction.go,
\* restoreTransaction).
THEOREM WorkspacePointerIsAuthority ==
  ASSUME ~Overlap, ~Suspend
  PROVE  Spec => PointerIsAuthority
<1>1. StoreInv /\ [Next]_vars => [pointer = NoCall => files' = files]_vars
  <2>1. SUFFICES ASSUME StoreInv, [Next]_vars, pointer = NoCall
                 PROVE  files' = files
    OBVIOUS
  <2>2. Writing \/ Restoring \/ Elsewhere
    BY <2>1, StepsMatter DEF StoreInv, Told, StoreTyped
  <2>3. \A w \in Writer : pc[w] # "write"
    BY <2>1, CallAssumption DEF StoreInv, WritesActive, Call
  <2>4. \A p \in Call : pc[p] # "restore"
    BY <2>1 DEF StoreInv, RestoresActive
  <2> QED BY <2>2, <2>3, <2>4 DEF Writing, Restoring, Elsewhere, Publish, WriteFile, WriteFails, Finalize, Recover,
      RestoreFile, Restored
<1>2. StoreInv /\ [Next]_vars => StoreInv'
  BY StoreInvStep
<1> QED BY <1>1, <1>2, StoreInvInit, PTL DEF Spec, PointerIsAuthority

-----------------------------------------------------------------------------
(* Type correctness, with the artifact directories.                         *)

\* Directories joined to directories are directories.
LEMMA OverTyped ==
  ASSUME NEW S, NEW T, NEW f \in Partial(S, T), NEW g \in Partial(S, T)
  PROVE  Joined(f, g) \in Partial(S, T)
<1>1. PICK D \in SUBSET S : f \in [D -> T]
  BY DEF Partial
<1>2. PICK E \in SUBSET S : g \in [E -> T]
  BY DEF Partial
<1>3. D \cup E \in SUBSET S /\ Joined(f, g) \in [D \cup E -> T]
  BY <1>1, <1>2 DEF Joined
<1> QED BY <1>3 DEF Partial

\* So are none at all.
LEMMA NothingTyped == <<>> \in Directories
<1>1. <<>> \in [{} -> Version]
  OBVIOUS
<1> QED BY <1>1 DEF Directories, Partial

DirectoriesTyped ==
    /\ dirs \in Directories /\ aside \in [Writer -> Directories]
    /\ txDirs \subseteq Writer /\ mishaps \in 0 .. MaxMishaps

\* Initially the directories are those of the registered artifacts.
LEMMA DirectoriesTypedInit == Init => DirectoriesTyped
<1> SUFFICES ASSUME Init
             PROVE  DirectoriesTyped
  OBVIOUS
<1> DEFINE registry == Loaded(files).artifacts
           keys == {<<registry[a].of, a>> : a \in DOMAIN registry}
<1>1. registry \in Registry
  <2>1. Loaded(files) \in Collections
    BY FilesTyped, LoadedTyped DEF Init
  <2> QED BY <2>1, CollectionsAre
<1>2. \A a \in DOMAIN registry :
        a \in Artifact /\ registry[a].of \in Item \ Folder /\ registry[a].version \in Version
  <2>1. PICK D \in SUBSET Artifact : registry \in [D -> [of : Item \ Folder, version : Version]]
    BY <1>1 DEF Registry, Partial
  <2> QED BY <2>1
<1>3. dirs = [k \in keys |-> registry[k[2]].version]
  BY DEF Init
<1> HIDE DEF registry
<1>4. keys \in SUBSET ((Item \ Folder) \X Artifact) /\ [k \in keys |-> registry[k[2]].version] \in [keys -> Version]
  BY <1>2
<1>5. dirs \in Directories
  BY <1>3, <1>4 DEF Directories, Partial
<1> QED BY <1>5, NothingTyped, CallAssumption DEF Init, DirectoriesTyped

\* Every step keeps their types.
LEMMA DirectoriesTypedStep ==
  ASSUME StoreInv, DirectoriesTyped, [Next]_vars
  PROVE  DirectoriesTyped'
<1> USE CallAssumption
<1>1. txDirs' \subseteq Writer
  <2>1. \/ txDirs' = txDirs \/ (\E w \in Writer : txDirs' = txDirs \cup {w})
        \/ \E S : txDirs' = txDirs \ S
        \/ \E S, T : txDirs' = (txDirs \ S) \ T
    BY DEF Next, Move, Commit, Load, Restore, BeginRead, BeginWrite, Judge, MoveAside, Place, MoveFails,
       Undo, UndoFails, Publish, PublishFails, WriteFile, WriteFails, Finalize, FinalizeFails, Clean, Close, Clear, Refused, Recover,
       Read, RestoreFile, Restored, RestoreGivesUp, Discard, Crash, Age, vars, tx
  <2> QED BY <2>1 DEF DirectoriesTyped
<1>2. mishaps' \in 0 .. MaxMishaps
  <2>1. mishaps' = mishaps \/ Mishap
    BY DEF Next, Move, Commit, Load, Restore, BeginRead, BeginWrite, Judge, MoveAside, Place, MoveFails,
       Undo, UndoFails, Publish, PublishFails, WriteFile, WriteFails, Finalize, FinalizeFails, Clean, Close, Clear, Refused, Recover,
       Read, RestoreFile, Restored, RestoreGivesUp, Discard, Crash, Age, vars
  <2> QED BY <2>1 DEF Mishap, DirectoriesTyped
<1> DEFINE Typed == dirs' \in Directories /\ aside' \in [Writer -> Directories]
<1>3. CASE UNCHANGED content
  BY <1>1, <1>2, <1>3 DEF content, DirectoriesTyped
<1>4. ASSUME NEW w \in Writer, MoveAside(w)
      PROVE  Typed
  <2>1. PICK k : /\ aside' = [aside EXCEPT ![w] = Joined(Restrict(dirs, k), @)]
                 /\ dirs' = Restrict(dirs, DOMAIN dirs \ k)
                 /\ k \in ToMove(w)
    BY <1>4 DEF MoveAside
  <2>2. k \subseteq DOMAIN dirs
    BY <2>1 DEF ToMove
  <2>3. Restrict(dirs, k) \in Directories /\ dirs' \in Directories
    BY <2>1, <2>2, RestrictTyped DEF DirectoriesTyped, Directories
  <2>4. aside[w] \in Directories
    BY DEF DirectoriesTyped
  <2>5. Joined(Restrict(dirs, k), aside[w]) \in Directories
    BY <2>3, <2>4, OverTyped DEF Directories
  <2> QED BY <2>1, <2>3, <2>5 DEF DirectoriesTyped
<1>5. ASSUME NEW w \in Writer, Place(w)
      PROVE  Typed
  <2> DEFINE m == MutationOf[w]
  <2>1. aside' = aside /\ pc[w] = "move" /\ w \in Call
    BY <1>5 DEF Place, Call
  <2>2. CASE dirs' = dirs
    BY <2>1, <2>2 DEF DirectoriesTyped
  <2>3. CASE Places(w) /\ dirs' = Put(dirs, <<m.item, m.artifact>>, m.version)
    <3>1. Admits(m, seen[w]) /\ m.kind \in {"add", "replace"} /\ m \in Mutation /\ seen[w] \in Collections
      BY <2>1, <2>3 DEF StoreInv, StoreTyped, Admitted, Places
    <3>2. m.item \in DOMAIN seen[w]["items"] \ Folder /\ seen[w]["items"] \in Hierarchy
      BY <3>1, CollectionsAre DEF Admits, MayAdd
    <3>3. DOMAIN seen[w]["items"] \subseteq Item
      BY <3>2 DEF Hierarchy, Partial
    <3>4. <<m.item, m.artifact>> \in (Item \ Folder) \X Artifact /\ m.version \in Version
      BY <3>1, <3>2, <3>3 DEF Mutation
    <3> QED BY <2>1, <2>3, <3>4, PutTyped DEF DirectoriesTyped, Directories
  <2> QED BY <1>5, <2>2, <2>3 DEF Place
<1>6. ASSUME NEW w \in Writer, Undo(w)
      PROVE  Typed
  <2>1. Restrict(dirs, DOMAIN dirs \ PlacedBy(w)) \in Directories /\ aside[w] \in Directories
    BY RestrictTyped DEF DirectoriesTyped, Directories
  <2>2. PutBack(w) \in Directories
    BY <2>1, OverTyped DEF PutBack, Directories
  <2> QED BY <1>6, <2>2, NothingTyped DEF Undo, DirectoriesTyped
<1>9. ASSUME NEW w \in Writer, UndoFails(w)
      PROVE  Typed
  <2>1. PICK gone, stays, back :
           /\ stays \subseteq DOMAIN aside[w] /\ back = DOMAIN aside[w] \ stays
           /\ dirs' = Joined(Restrict(aside[w], back), Restrict(dirs, DOMAIN dirs \ gone))
           /\ aside' = [aside EXCEPT ![w] = Restrict(aside[w], stays)]
    BY <1>9 DEF UndoFails, AsideOf
  <2>2. aside[w] \in Directories /\ dirs \in Directories
    BY DEF DirectoriesTyped
  <2>3. /\ Restrict(aside[w], back) \in Directories /\ Restrict(aside[w], stays) \in Directories
        /\ Restrict(dirs, DOMAIN dirs \ gone) \in Directories
    BY <2>1, <2>2, RestrictTyped DEF Directories
  <2>4. dirs' \in Directories
    BY <2>1, <2>3, OverTyped DEF Directories
  <2> QED BY <2>1, <2>3, <2>4 DEF DirectoriesTyped
<1>7. ASSUME NEW w \in Writer, Clean(w)
      PROVE  Typed
  <2>1. dirs' = dirs /\ (aside' = aside \/ aside' = [aside EXCEPT ![w] = <<>>])
    BY <1>7 DEF Clean, DirectoriesTyped
  <2> QED BY <2>1, NothingTyped DEF DirectoriesTyped
<1>8. UNCHANGED content \/ \E w \in Writer : MoveAside(w) \/ Place(w) \/ Undo(w) \/ UndoFails(w) \/ Clean(w)
  BY DEF Next, Move, Commit, Load, Restore, BeginRead, BeginWrite, Judge, MoveFails, Publish, PublishFails,
     WriteFile, WriteFails, Finalize, FinalizeFails, Close, Clear, Refused, Recover, Read, RestoreFile, Restored,
     RestoreGivesUp, Discard, Crash, Age, vars, content
<1> QED BY <1>1, <1>2, <1>3, <1>4, <1>5, <1>6, <1>7, <1>8, <1>9 DEF DirectoriesTyped

\* The variables keep their types, and the journal of the active transaction holds a
\* snapshot of every file that the transaction writes (internal/workspace/transaction.go,
\* beginTransaction).
THEOREM WorkspaceTypeCorrect ==
  ASSUME ~Overlap, ~Suspend
  PROVE  Spec => []TypeOK
<1>1. StoreInv /\ DirectoriesTyped => TypeOK
  <2> SUFFICES ASSUME StoreInv, DirectoriesTyped
               PROVE  TypeOK
    OBVIOUS
  <2>1. files \in [items : Hierarchy \cup {NoFile}, memory : (SUBSET Item) \cup {NoFile},
                   artifacts : Registry \cup {NoFile}]
    <3>1. files = [c \in Collection |-> files[c]] /\ \A c \in Collection : files[c] \in CollectionType(c) \cup {NoFile}
      BY DEF StoreInv, StoreTyped, Files
    <3> QED BY <3>1 DEF CollectionType, Collection
  <2> QED BY <2>1 DEF TypeOK, StoreInv, StoreTyped, Told, Labels, DirectoriesTyped, Call
<1>2. StoreInv /\ DirectoriesTyped /\ [Next]_vars => StoreInv' /\ DirectoriesTyped'
  BY StoreInvStep, DirectoriesTypedStep
<1> QED BY <1>1, <1>2, StoreInvInit, DirectoriesTypedInit, PTL DEF Spec

-----------------------------------------------------------------------------
(* The walks of the hierarchy.                                              *)

\* A set of numbers has a least one.
LEMMA Least ==
  ASSUME NEW T \in SUBSET Nat, T # {}
  PROVE  \E n \in T : \A k \in T : n <= k
<1> DEFINE R == {ss \in Nat \X Nat : ss[1] < ss[2]}
<1>1. IsWellFoundedOn(R, Nat)
  BY NatLessThanWellFounded DEF OpToRel
<1>2. \A x, y \in Nat : <<y, x>> \notin R => x <= y
  OBVIOUS
<1> HIDE DEF R
<1>3. \E x \in T : \A y \in T : <<y, x>> \notin R
  BY <1>1, WFMin
<1> QED BY <1>2, <1>3

Nodes == Item \cup {Top}
Up(items) == [c \in Nodes |-> IF c \in DOMAIN items THEN items[c] ELSE Top]

\* f walks the first n steps of g from i.
Walks(g, i, n, f) == f[0] = i /\ \A k \in 0 .. n - 1 : f[k + 1] = g[f[k]]

\* There is such a walk of every length.
LEMMA WalkExists ==
  ASSUME NEW S, NEW g \in [S -> S], NEW i \in S, NEW n \in Nat
  PROVE  \E f \in [0 .. n -> S] : Walks(g, i, n, f)
<1> DEFINE None == {k \in Nat : ~\E f \in [0 .. k -> S] : Walks(g, i, k, f)}
<1>1. SUFFICES ASSUME None # {}
               PROVE  FALSE
  OBVIOUS
<1>2. PICK m \in None : \A k \in None : m <= k
  BY <1>1, Least
<1>3. m # 0
  <2>1. [k \in 0 .. 0 |-> i] \in [0 .. 0 -> S] /\ Walks(g, i, 0, [k \in 0 .. 0 |-> i])
    BY DEF Walks
  <2> QED BY <2>1
<1>4. m - 1 \in Nat /\ m - 1 \notin None
  BY <1>2, <1>3
<1>5. PICK f \in [0 .. m - 1 -> S] : Walks(g, i, m - 1, f)
  BY <1>4
<1> DEFINE h == [k \in 0 .. m |-> IF k = m THEN g[f[m - 1]] ELSE f[k]]
<1>6. h \in [0 .. m -> S]
  BY <1>4
<1>7. Walks(g, i, m, h)
  <2>1. h[0] = i
    BY <1>3, <1>5 DEF Walks
  <2>2. ASSUME NEW k \in 0 .. m - 1
        PROVE  h[k + 1] = g[h[k]]
    <3>1. h[k] = f[k] /\ k + 1 \in 0 .. m /\ k \in Nat
      OBVIOUS
    <3>2. CASE k = m - 1
      BY <3>1, <3>2
    <3>3. CASE k # m - 1
      <4>1. k \in 0 .. (m - 1) - 1 /\ h[k + 1] = f[k + 1]
        BY <3>1, <3>3
      <4> QED BY <1>5, <3>1, <4>1 DEF Walks
    <3> QED BY <3>2, <3>3
  <2> QED BY <2>1, <2>2 DEF Walks
<1> QED BY <1>6, <1>7

\* Walks agree as far as both go.
LEMMA WalksAgree ==
  ASSUME NEW g, NEW i, NEW n \in Nat, NEW m \in Nat, n <= m,
         NEW f, NEW h, Walks(g, i, n, f), Walks(g, i, m, h)
  PROVE  f[n] = h[n]
<1> DEFINE Apart == {k \in 0 .. n : f[k] # h[k]}
<1>1. SUFFICES ASSUME Apart # {}
               PROVE  FALSE
  OBVIOUS
<1>2. PICK k \in Apart : \A j \in Apart : k <= j
  <2>1. Apart \in SUBSET Nat
    OBVIOUS
  <2> HIDE DEF Apart
  <2> QED BY <1>1, <2>1, Least
<1>3. k # 0
  BY DEF Walks
<1>4. k - 1 \in 0 .. n - 1 /\ k - 1 \in 0 .. m - 1 /\ k - 1 \notin Apart
  BY <1>2, <1>3
<1>5. f[k - 1] = h[k - 1]
  BY <1>4
<1>6. f[(k - 1) + 1] = g[f[k - 1]] /\ h[(k - 1) + 1] = g[h[k - 1]]
  BY <1>4 DEF Walks
<1> QED BY <1>5, <1>6

\* So there is one without end.
LEMMA EndlessWalk ==
  ASSUME NEW S, NEW g \in [S -> S], NEW i \in S
  PROVE  \E f \in [Nat -> S] : f = [k \in Nat |-> IF k = 0 THEN i ELSE g[f[k - 1]]]
<1> DEFINE Walk(n) == CHOOSE f \in [0 .. n -> S] : Walks(g, i, n, f)
           f == [n \in Nat |-> Walk(n)[n]]
<1>1. ASSUME NEW n \in Nat
      PROVE  Walk(n) \in [0 .. n -> S] /\ Walks(g, i, n, Walk(n))
  BY WalkExists
<1>2. \A n \in Nat : f[n] = Walk(n)[n]
  OBVIOUS
<1> HIDE DEF Walk
<1>3. f \in [Nat -> S]
  BY <1>1
<1>4. f[0] = i
  BY <1>1 DEF Walks
<1>5. ASSUME NEW k \in Nat, k # 0
      PROVE  f[k] = g[f[k - 1]]
  <2>1. k - 1 \in Nat /\ k - 1 <= k /\ k - 1 \in 0 .. k - 1 /\ (k - 1) + 1 = k
    BY <1>5
  <2>2. Walks(g, i, k - 1, Walk(k - 1)) /\ Walks(g, i, k, Walk(k))
    BY <1>1, <2>1
  <2>3. Walk(k - 1)[k - 1] = Walk(k)[k - 1]
    BY <2>1, <2>2, WalksAgree
  <2>4. Walk(k)[(k - 1) + 1] = g[Walk(k)[k - 1]]
    BY <2>1, <2>2 DEF Walks
  <2> QED BY <1>2, <2>1, <2>3, <2>4
<1> HIDE DEF f
<1>6. f = [k \in Nat |-> IF k = 0 THEN i ELSE g[f[k - 1]]]
  <2>1. \A k \in Nat : f[k] = IF k = 0 THEN i ELSE g[f[k - 1]]
    BY <1>4, <1>5
  <2> QED BY <1>3, <2>1
<1> QED BY <1>3, <1>6

\* A step up leads from nodes to nodes.
LEMMA UpTyped ==
  ASSUME NEW items \in Hierarchy
  PROVE  /\ Up(items) \in [Nodes -> Nodes] /\ DOMAIN items \subseteq Item
         /\ Up(items)[Top] = Top /\ Top \notin DOMAIN items
         /\ \A i \in DOMAIN items : Up(items)[i] = items[i] /\ items[i] \in Nodes
<1>1. PICK D \in SUBSET Item : items \in [D -> Item \cup {Top}]
  BY DEF Hierarchy, Partial
<1>2. DOMAIN items = D /\ Top \notin D
  BY <1>1, WorkspaceAssumption
<1> QED BY <1>1, <1>2 DEF Up, Nodes

\* Above follows the parents.
LEMMA AboveSteps ==
  ASSUME NEW items \in Hierarchy, NEW i \in Nodes
  PROVE  /\ Above(items, i, 0) = i
         /\ \A n \in Nat : Above(items, i, n) \in Nodes
         /\ \A n \in Nat : Above(items, i, n + 1) = Up(items)[Above(items, i, n)]
<1> DEFINE Parent(c) == IF c \in DOMAIN items THEN items[c] ELSE Top
           Is(up) == up = [k \in Nat |-> IF k = 0 THEN i ELSE Parent(up[k - 1])]
           walk == CHOOSE up : Is(up)
<1>1. PICK f \in [Nat -> Nodes] : f = [k \in Nat |-> IF k = 0 THEN i ELSE Up(items)[f[k - 1]]]
  <2> DEFINE g == Up(items)
  <2>1. g \in [Nodes -> Nodes]
    BY UpTyped
  <2> HIDE DEF g
  <2>2. \E f \in [Nat -> Nodes] : f = [k \in Nat |-> IF k = 0 THEN i ELSE g[f[k - 1]]]
    BY <2>1, EndlessWalk
  <2> QED BY <2>2 DEF g
<1>2. Is(f)
  <2>1. \A k \in Nat : f[k] = IF k = 0 THEN i ELSE Up(items)[f[k - 1]]
    BY <1>1
  <2>2. \A k \in Nat : k # 0 => k - 1 \in Nat /\ f[k - 1] \in Nodes
    BY <1>1
  <2>3. \A k \in Nat : f[k] = IF k = 0 THEN i ELSE Parent(f[k - 1])
    BY <2>1, <2>2 DEF Up
  <2> QED BY <1>1, <2>3
<1>3. Is(walk)
  BY <1>2
<1>4. \A n : Above(items, i, n) = walk[n]
  BY DEF Above
<1> HIDE DEF walk
<1>5. walk[0] = i
  BY <1>3
<1>6. ASSUME NEW n \in Nat
      PROVE  walk[n + 1] = Parent(walk[n])
  <2>1. n + 1 \in Nat /\ n + 1 # 0 /\ (n + 1) - 1 = n
    OBVIOUS
  <2>2. walk[n + 1] = Parent(walk[(n + 1) - 1])
    BY <1>3, <2>1
  <2> QED BY <2>1, <2>2
<1>7. \A n \in Nat : walk[n] \in Nodes
  <2> DEFINE Astray == {n \in Nat : walk[n] \notin Nodes}
  <2>1. SUFFICES ASSUME Astray # {}
                 PROVE  FALSE
    OBVIOUS
  <2>2. PICK n \in Astray : \A k \in Astray : n <= k
    BY <2>1, Least
  <2>3. n # 0
    BY <1>5
  <2>4. n - 1 \in Nat /\ n - 1 \notin Astray /\ (n - 1) + 1 = n
    BY <2>2, <2>3
  <2>5. walk[n] = Parent(walk[n - 1])
    BY <1>6, <2>4
  <2> QED BY <2>5, UpTyped DEF Nodes
<1>8. \A n \in Nat : walk[n + 1] = Up(items)[walk[n]]
  BY <1>6, <1>7 DEF Up
<1> QED BY <1>4, <1>5, <1>7, <1>8

\* A walk of a + b steps is one of b steps from where a steps lead.
LEMMA AboveAdds ==
  ASSUME NEW items \in Hierarchy, NEW i \in Nodes, NEW a \in Nat, NEW b \in Nat
  PROVE  Above(items, i, a + b) = Above(items, Above(items, i, a), b)
<1> DEFINE j == Above(items, i, a)
           Astray == {n \in Nat : Above(items, i, a + n) # Above(items, j, n)}
<1>0. j \in Nodes
  BY AboveSteps
<1>1. SUFFICES ASSUME Astray # {}
               PROVE  FALSE
  OBVIOUS
<1>2. PICK n \in Astray : \A k \in Astray : n <= k
  <2>1. Astray \in SUBSET Nat
    OBVIOUS
  <2> HIDE DEF Astray
  <2> QED BY <1>1, <2>1, Least
<1>3. n # 0
  <2>1. Above(items, j, 0) = j /\ a + 0 = a
    BY <1>0, AboveSteps
  <2> QED BY <2>1
<1>4. n - 1 \in Nat /\ n - 1 \notin Astray /\ (n - 1) + 1 = n /\ a + n = (a + (n - 1)) + 1 /\ a + (n - 1) \in Nat
  BY <1>2, <1>3
<1>5. Above(items, i, a + (n - 1)) = Above(items, j, n - 1)
  BY <1>4
<1> HIDE DEF j
<1>6. Above(items, i, (a + (n - 1)) + 1) = Up(items)[Above(items, i, a + (n - 1))]
  BY <1>4, AboveSteps
<1>7. Above(items, j, (n - 1) + 1) = Up(items)[Above(items, j, n - 1)]
  BY <1>0, <1>4, AboveSteps
<1> QED BY <1>4, <1>5, <1>6, <1>7

\* Beyond the top there is only the top.
LEMMA TopStays ==
  ASSUME NEW items \in Hierarchy, NEW i \in Nodes, NEW a \in Nat, NEW b \in Nat, a <= b,
         Above(items, i, a) = Top
  PROVE  Above(items, i, b) = Top
<1> DEFINE Astray == {n \in Nat : a <= n /\ Above(items, i, n) # Top}
<1>1. SUFFICES ASSUME Astray # {}
               PROVE  FALSE
  OBVIOUS
<1>2. PICK n \in Astray : \A k \in Astray : n <= k
  <2>1. Astray \in SUBSET Nat
    OBVIOUS
  <2> HIDE DEF Astray
  <2> QED BY <1>1, <2>1, Least
<1>3. n - 1 \in Nat /\ n - 1 \notin Astray /\ (n - 1) + 1 = n /\ a <= n - 1
  BY <1>2
<1>4. Above(items, i, n - 1) = Top
  BY <1>3
<1>5. Above(items, i, (n - 1) + 1) = Up(items)[Above(items, i, n - 1)]
  BY <1>3, AboveSteps
<1> QED BY <1>3, <1>4, <1>5, UpTyped

\* The walk from i ends.
Rises(items, i) == \E n \in Nat : Above(items, i, n) = Top

\* A walk that ends does so within as many steps as there are items.
LEMMA RisesSoon ==
  ASSUME NEW items \in Hierarchy, NEW i \in Nodes, Rises(items, i)
  PROVE  Above(items, i, Cardinality(Item)) = Top
<1> DEFINE C == Cardinality(Item)
           Ends == {n \in Nat : Above(items, i, n) = Top}
<1>0. C \in Nat
  BY WorkspaceAssumption, FS_CardinalityType
<1>1. PICK m \in Ends : \A k \in Ends : m <= k
  <2>1. Ends \in SUBSET Nat /\ Ends # {}
    BY DEF Rises
  <2> HIDE DEF Ends
  <2> QED BY <2>1, Least
<1>2. CASE m <= C
  BY <1>0, <1>2, TopStays
<1>3. CASE m > C
  <2> DEFINE f == [k \in 0 .. C |-> Above(items, i, k)]
  <2>1. ASSUME NEW k \in 0 .. C
        PROVE  Above(items, i, k) \in Item
    <3>1. k \in Nat /\ k \notin Ends
      BY <1>0, <1>1, <1>3
    <3> QED BY <3>1, AboveSteps DEF Nodes
  <2>2. f \in [0 .. C -> Item]
    BY <2>1
  <2>3. IsFiniteSet(0 .. C) /\ Cardinality(0 .. C) = C + 1
    BY <1>0, FS_Interval
  <2>4. \A k \in 0 .. C : f[k] = Above(items, i, k)
    OBVIOUS
  <2> HIDE DEF f
  <2>5. \E x, y \in 0 .. C : x # y /\ f[x] = f[y]
    BY <1>0, <2>2, <2>3, WorkspaceAssumption, FS_PigeonHole
  <2>6. PICK a, b \in 0 .. C : a < b /\ f[a] = f[b]
    BY <1>0, <2>5
  <2>7. /\ a \in Nat /\ b \in Nat /\ m - b \in Nat /\ a + (m - b) \in Nat /\ b + (m - b) = m
        /\ a + (m - b) < m
    BY <1>0, <1>1, <1>3, <2>6
  <2>8. Above(items, i, a) = Above(items, i, b)
    BY <2>4, <2>6
  <2>9. Above(items, i, b + (m - b)) = Above(items, Above(items, i, b), m - b)
    BY <2>7, AboveAdds
  <2>10. Above(items, i, a + (m - b)) = Above(items, Above(items, i, a), m - b)
    BY <2>7, AboveAdds
  <2>11. a + (m - b) \in Ends
    BY <1>1, <2>7, <2>8, <2>9, <2>10
  <2> QED BY <1>1, <2>7, <2>11
<1> QED BY <1>0, <1>1, <1>2, <1>3

\* A walk from an item goes on from its parent.
LEMMA AboveParent ==
  ASSUME NEW items \in Hierarchy, NEW i \in DOMAIN items, NEW n \in Nat
  PROVE  Above(items, i, n + 1) = Above(items, items[i], n)
<1>1. i \in Nodes /\ Up(items)[i] = items[i]
  BY UpTyped DEF Nodes
<1>2. Above(items, i, 1 + n) = Above(items, Above(items, i, 1), n)
  BY <1>1, AboveAdds
<1>3. Above(items, i, 0) = i /\ Above(items, i, 0 + 1) = Up(items)[Above(items, i, 0)]
  BY <1>1, AboveSteps
<1>4. 1 + n = n + 1 /\ 0 + 1 = 1
  OBVIOUS
<1> QED BY <1>1, <1>2, <1>3, <1>4

\* The code's test of a loaded item says that its walk ends.
LEMMA NoCycleRises ==
  ASSUME NEW items \in Hierarchy, NEW i \in DOMAIN items
  PROVE  ~CreatesCycle(items, i, items[i]) <=> Rises(items, i)
<1> DEFINE C == Cardinality(Item)
           p == items[i]
<1>0. C \in Nat /\ i \in Nodes /\ i # Top /\ p \in Nodes
  BY WorkspaceAssumption, FS_CardinalityType, UpTyped DEF Nodes
<1>1. ASSUME ~CreatesCycle(items, i, p)
      PROVE  Rises(items, i)
  <2>1. Above(items, p, C) = Top
    BY <1>1 DEF CreatesCycle
  <2>2. Above(items, i, C + 1) = Top /\ C + 1 \in Nat
    BY <1>0, <2>1, AboveParent
  <2> QED BY <2>2 DEF Rises
<1>2. ASSUME Rises(items, i)
      PROVE  ~CreatesCycle(items, i, p)
  <2> DEFINE Ends == {n \in Nat : Above(items, i, n) = Top}
  <2>1. PICK m \in Ends : \A k \in Ends : m <= k
    <3>1. Ends \in SUBSET Nat /\ Ends # {}
      BY <1>2 DEF Rises
    <3> HIDE DEF Ends
    <3> QED BY <3>1, Least
  <2>2. m # 0 /\ m - 1 \in Nat /\ (m - 1) + 1 = m
    <3>1. Above(items, i, 0) = i
      BY <1>0, AboveSteps
    <3>2. m \in Nat /\ Above(items, i, m) = Top
      BY <2>1
    <3>3. m # 0
      BY <1>0, <3>1, <3>2
    <3> QED BY <3>2, <3>3
  <2>3. Above(items, p, m - 1) = Top
    BY <2>1, <2>2, AboveParent
  <2>4. Above(items, p, C) = Top
    <3>1. Rises(items, p)
      BY <2>2, <2>3 DEF Rises
    <3> QED BY <1>0, <3>1, RisesSoon
  <2>5. ASSUME NEW n \in 0 .. C, Above(items, p, n) = i
        PROVE  FALSE
    <3>1. n \in Nat /\ n + 1 \in Nat /\ Above(items, i, n + 1) = i
      BY <1>0, <2>5, AboveParent
    <3>2. CASE n + 1 <= m
      <4>1. m - (n + 1) \in Nat /\ (n + 1) + (m - (n + 1)) = m /\ m - (n + 1) < m
        BY <2>2, <3>1, <3>2
      <4>2. Above(items, i, (n + 1) + (m - (n + 1))) = Above(items, Above(items, i, n + 1), m - (n + 1))
        BY <1>0, <3>1, <4>1, AboveAdds
      <4>3. m - (n + 1) \in Ends
        BY <2>1, <3>1, <4>1, <4>2
      <4> QED BY <2>1, <4>1, <4>3
    <3>3. CASE n + 1 > m
      <4>1. Above(items, i, n + 1) = Top
        BY <1>0, <2>1, <2>2, <3>1, <3>3, TopStays
      <4> QED BY <1>0, <3>1, <4>1
    <3> QED BY <2>2, <3>1, <3>2, <3>3
  <2> QED BY <2>4, <2>5 DEF CreatesCycle
<1> QED BY <1>1, <1>2

\* Two hierarchies that agree along a walk have it in common.
LEMMA SameWalk ==
  ASSUME NEW items \in Hierarchy, NEW others \in Hierarchy, NEW i \in Nodes, NEW N \in Nat,
         \A k \in Nat : k < N => Up(others)[Above(items, i, k)] = Up(items)[Above(items, i, k)]
  PROVE  Above(others, i, N) = Above(items, i, N)
<1> DEFINE Astray == {n \in 0 .. N : Above(others, i, n) # Above(items, i, n)}
<1>1. SUFFICES ASSUME Astray # {}
               PROVE  FALSE
  OBVIOUS
<1>2. PICK n \in Astray : \A k \in Astray : n <= k
  <2>1. Astray \in SUBSET Nat
    OBVIOUS
  <2> HIDE DEF Astray
  <2> QED BY <1>1, <2>1, Least
<1>3. n # 0
  BY AboveSteps
<1>4. n - 1 \in Nat /\ n - 1 \notin Astray /\ (n - 1) + 1 = n /\ n - 1 \in 0 .. N /\ n - 1 < N
  BY <1>2, <1>3
<1>5. Above(others, i, n - 1) = Above(items, i, n - 1)
  BY <1>4
<1>6. Above(items, i, (n - 1) + 1) = Up(items)[Above(items, i, n - 1)]
  BY <1>4, AboveSteps
<1>7. Above(others, i, (n - 1) + 1) = Up(others)[Above(others, i, n - 1)]
  BY <1>4, AboveSteps
<1> QED BY <1>4, <1>5, <1>6, <1>7

\* A walk that ends beyond one of its steps ends.
LEMMA RisesThrough ==
  ASSUME NEW items \in Hierarchy, NEW i \in Nodes, NEW n \in Nat, Rises(items, Above(items, i, n))
  PROVE  Rises(items, i)
<1>1. PICK k \in Nat : Above(items, Above(items, i, n), k) = Top
  BY DEF Rises
<1>2. Above(items, i, n + k) = Top /\ n + k \in Nat
  BY <1>1, AboveAdds
<1> QED BY <1>2 DEF Rises

\* Where an item x is put under a parent whose walk ends without x, every walk still ends.
LEMMA PutRises ==
  ASSUME NEW items \in Hierarchy, NEW x \in Item, NEW p \in Nodes,
         \A i \in DOMAIN items : Rises(items, i),
         Rises(items, p), \A n \in Nat : Above(items, p, n) # x
  PROVE  /\ Put(items, x, p) \in Hierarchy
         /\ \A i \in DOMAIN Put(items, x, p) : Rises(Put(items, x, p), i)
<1> DEFINE others == Put(items, x, p)
<1>1. others \in Hierarchy /\ DOMAIN others = DOMAIN items \cup {x}
  BY PutTyped DEF Hierarchy, Nodes, Put
<1>2. \A c \in Nodes : c # x => Up(others)[c] = Up(items)[c]
  BY DEF Up, Put
<1>3. Up(others)[x] = p /\ x \in Nodes
  BY DEF Up, Put, Nodes
<1> HIDE DEF others
<1>4. ASSUME NEW i \in Nodes, NEW N \in Nat, \A k \in Nat : k < N => Above(items, i, k) # x
      PROVE  Above(others, i, N) = Above(items, i, N)
  <2>1. \A k \in Nat : k < N => Up(others)[Above(items, i, k)] = Up(items)[Above(items, i, k)]
    BY <1>2, <1>4, AboveSteps
  <2> QED BY <1>1, <2>1, SameWalk
<1>5. Rises(others, p)
  <2>1. PICK n \in Nat : Above(items, p, n) = Top
    BY DEF Rises
  <2>2. Above(others, p, n) = Top
    BY <1>4, <2>1
  <2> QED BY <2>2 DEF Rises
<1>6. Rises(others, x)
  <2>1. Above(others, x, 0) = x /\ Above(others, x, 0 + 1) = Up(others)[Above(others, x, 0)]
    BY <1>1, <1>3, AboveSteps
  <2>2. Above(others, x, 1) = p
    BY <1>3, <2>1
  <2> QED BY <1>1, <1>3, <1>5, <2>2, RisesThrough
<1>7. ASSUME NEW i \in DOMAIN items
      PROVE  Rises(others, i)
  <2>0. i \in Nodes
    BY UpTyped DEF Nodes
  <2>1. CASE \A n \in Nat : Above(items, i, n) # x
    <3>1. PICK n \in Nat : Above(items, i, n) = Top
      BY DEF Rises
    <3>2. Above(others, i, n) = Top
      BY <1>4, <2>0, <2>1, <3>1
    <3> QED BY <3>2 DEF Rises
  <2>2. CASE \E n \in Nat : Above(items, i, n) = x
    <3> DEFINE Hits == {n \in Nat : Above(items, i, n) = x}
    <3>1. PICK n \in Hits : \A k \in Hits : n <= k
      <4>1. Hits \in SUBSET Nat /\ Hits # {}
        BY <2>2
      <4> HIDE DEF Hits
      <4> QED BY <4>1, Least
    <3>2. n \in Nat /\ Above(items, i, n) = x /\ \A k \in Nat : k < n => Above(items, i, k) # x
      BY <3>1
    <3>3. Above(others, i, n) = x
      BY <1>4, <2>0, <3>2
    <3> QED BY <1>1, <1>6, <2>0, <3>2, <3>3, RisesThrough
  <2> QED BY <2>1, <2>2
<1>8. \A i \in DOMAIN others : Rises(others, i)
  BY <1>1, <1>6, <1>7
<1> QED BY <1>1, <1>8 DEF others

\* What validateLoadedItems accepts, but for the number of items.
Forest(items) ==
    \A i \in DOMAIN items : IsParent(items, items[i]) /\ ~CreatesCycle(items, i, items[i])

\* create and update keep the hierarchy a forest.
LEMMA PutForest ==
  ASSUME NEW items \in Hierarchy, Forest(items), NEW x \in Item, NEW p \in Nodes, IsParent(items, p),
         x \notin DOMAIN items \/ ~CreatesCycle(items, x, p)
  PROVE  Put(items, x, p) \in Hierarchy /\ Forest(Put(items, x, p))
<1> DEFINE others == Put(items, x, p)
           C == Cardinality(Item)
<1>0. C \in Nat
  BY WorkspaceAssumption, FS_CardinalityType
<1>1. \A i \in DOMAIN items : Rises(items, i)
  BY NoCycleRises DEF Forest
<1>2. Rises(items, p)
  <2>1. Above(items, Top, 0) = Top
    BY AboveSteps DEF Nodes
  <2> QED BY <1>1, <2>1 DEF IsParent, Rises
<1>3. ASSUME NEW n \in Nat
      PROVE  Above(items, p, n) # x
  <2>1. CASE x \notin DOMAIN items
    \* The walk stays among the items there are.
    <3> DEFINE Astray == {k \in Nat : Above(items, p, k) \notin DOMAIN items \cup {Top}}
    <3>1. SUFFICES ASSUME Astray # {}
                   PROVE  FALSE
      BY <2>1, WorkspaceAssumption
    <3>2. PICK k \in Astray : \A j \in Astray : k <= j
      <4>1. Astray \in SUBSET Nat
        OBVIOUS
      <4> HIDE DEF Astray
      <4> QED BY <3>1, <4>1, Least
    <3>3. k # 0
      <4>1. Above(items, p, 0) = p
        BY AboveSteps
      <4> QED BY <4>1 DEF IsParent
    <3>4. k - 1 \in Nat /\ k - 1 \notin Astray /\ (k - 1) + 1 = k
      BY <3>2, <3>3
    <3>5. Above(items, p, k - 1) \in DOMAIN items \cup {Top}
      BY <3>4
    <3>6. Above(items, p, (k - 1) + 1) = Up(items)[Above(items, p, k - 1)]
      BY <3>4, AboveSteps
    <3>7. \A c \in DOMAIN items \cup {Top} : Up(items)[c] \in DOMAIN items \cup {Top}
      BY UpTyped DEF Forest, IsParent
    <3> QED BY <3>4, <3>5, <3>6, <3>7
  <2>2. CASE ~CreatesCycle(items, x, p)
    <3>1. CASE n <= C
      BY <1>0, <2>2, <3>1 DEF CreatesCycle
    <3>2. CASE n > C
      <4>1. Above(items, p, n) = Top
        BY <1>0, <2>2, <3>2, TopStays DEF CreatesCycle
      <4> QED BY <4>1, WorkspaceAssumption
    <3> QED BY <1>0, <3>1, <3>2
  <2> QED BY <2>1, <2>2
<1>4. others \in Hierarchy /\ \A i \in DOMAIN others : Rises(others, i)
  BY <1>1, <1>2, <1>3, PutRises
<1>5. \A i \in DOMAIN others : IsParent(others, others[i])
  BY DEF Put, Forest, IsParent
<1> HIDE DEF others
<1>6. Forest(others)
  BY <1>4, <1>5, NoCycleRises DEF Forest
<1> QED BY <1>4, <1>6 DEF others

\* So does delete: the parent of what stays is not deleted.
LEMMA DeleteForest ==
  ASSUME NEW items \in Hierarchy, Forest(items), NEW x \in Item
  PROVE  LET others == Restrict(items, DOMAIN items \ DeleteSet(items, x))
         IN  others \in Hierarchy /\ Forest(others)
<1> DEFINE keep == DOMAIN items \ DeleteSet(items, x)
           others == Restrict(items, keep)
           C == Cardinality(Item)
<1>0. C \in Nat /\ x # Top
  BY WorkspaceAssumption, FS_CardinalityType
<1>1. others \in Hierarchy /\ DOMAIN others = keep /\ \A i \in keep : others[i] = items[i]
  BY RestrictTyped DEF Hierarchy, Restrict
<1>2. ASSUME NEW i \in keep
      PROVE  items[i] = Top \/ items[i] \in keep
  <2>1. items[i] = Top \/ items[i] \in DOMAIN items
    BY DEF Forest, IsParent
  <2>2. ASSUME items[i] \in DeleteSet(items, x)
        PROVE  FALSE
    <3>1. PICK n \in 0 .. C : Above(items, items[i], n) = x
      BY <2>2 DEF DeleteSet
    <3>2. Above(items, items[i], C) = Top
      BY DEF Forest, CreatesCycle
    <3>3. n + 1 \in 0 .. C /\ n \in Nat
      BY <1>0, <3>1, <3>2
    <3>4. Above(items, i, n + 1) = x
      BY <3>1, <3>3, AboveParent
    <3> QED BY <3>3, <3>4 DEF DeleteSet
  <2> QED BY <2>1, <2>2
<1>3. keep \subseteq DOMAIN items
  OBVIOUS
<1> HIDE DEF keep, others
<1>4. \A c \in keep \cup {Top} : Up(others)[c] = Up(items)[c] /\ Up(items)[c] \in keep \cup {Top}
  BY <1>1, <1>2, <1>3, UpTyped
<1>5. ASSUME NEW i \in keep, NEW n \in Nat
      PROVE  Above(items, i, n) \in keep \cup {Top}
  <2> DEFINE Astray == {k \in Nat : Above(items, i, k) \notin keep \cup {Top}}
  <2>0. i \in Nodes
    BY <1>3, UpTyped DEF Nodes
  <2>1. SUFFICES ASSUME Astray # {}
                 PROVE  FALSE
    OBVIOUS
  <2>2. PICK k \in Astray : \A j \in Astray : k <= j
    <3>1. Astray \in SUBSET Nat
      OBVIOUS
    <3> HIDE DEF Astray
    <3> QED BY <2>1, <3>1, Least
  <2>3. k # 0
    BY <2>0, AboveSteps
  <2>4. k - 1 \in Nat /\ k - 1 \notin Astray /\ (k - 1) + 1 = k
    BY <2>2, <2>3
  <2>5. Above(items, i, k - 1) \in keep \cup {Top}
    BY <2>4
  <2>6. Above(items, i, (k - 1) + 1) = Up(items)[Above(items, i, k - 1)]
    BY <2>0, <2>4, AboveSteps
  <2> QED BY <1>4, <2>4, <2>5, <2>6
<1>6. ASSUME NEW i \in keep
      PROVE  Rises(others, i)
  <2>0. i \in DOMAIN items /\ i \in Nodes
    BY <1>3, UpTyped DEF Nodes
  <2>1. PICK n \in Nat : Above(items, i, n) = Top
    BY <2>0, NoCycleRises DEF Forest, Rises
  <2>2. \A k \in Nat : k < n => Up(others)[Above(items, i, k)] = Up(items)[Above(items, i, k)]
    BY <1>4, <1>5
  <2>3. Above(others, i, n) = Top
    BY <1>1, <2>0, <2>1, <2>2, SameWalk
  <2> QED BY <2>3 DEF Rises
<1>7. \A i \in keep : IsParent(others, others[i])
  BY <1>1, <1>2, <1>3 DEF Forest, IsParent
<1>8. Forest(others)
  BY <1>1, <1>6, <1>7, NoCycleRises DEF Forest
<1> QED BY <1>1, <1>8 DEF others, keep

\* Every mutation that goes ahead leaves a forest.
LEMMA AppliedForest ==
  ASSUME NEW m \in Mutation, NEW s \in Collections, Admits(m, s), Forest(s.items)
  PROVE  Forest(Applied(m, s).items)
<1>1. /\ s.items \in Hierarchy /\ DOMAIN s = Collection /\ m.item \in Item /\ m.parent \in Nodes
      /\ m.kind \in {"create", "update", "delete", "remember", "forget", "add", "replace", "remove"}
  BY CollectionsAre DEF Mutation, Nodes, Collections
<1>2. CASE m.kind = "create"
  <2>1. m.item \notin DOMAIN s.items /\ IsParent(s.items, m.parent)
    BY <1>2 DEF Admits, MayCreate
  <2>2. Applied(m, s).items = Put(s.items, m.item, m.parent)
    BY <1>1, <1>2 DEF Applied, Collection
  <2> QED BY <1>1, <2>1, <2>2, PutForest
<1>3. CASE m.kind = "update"
  <2>1. ~CreatesCycle(s.items, m.item, m.parent) /\ IsParent(s.items, m.parent)
    BY <1>3 DEF Admits, MayUpdate
  <2>2. Applied(m, s).items = Put(s.items, m.item, m.parent)
    BY <1>1, <1>3 DEF Applied, Collection
  <2> QED BY <1>1, <2>1, <2>2, PutForest
<1>4. CASE m.kind = "delete"
  <2>1. Applied(m, s).items = Restrict(s.items, DOMAIN s.items \ DeleteSet(s.items, m.item))
    BY <1>4 DEF Applied, WithoutSubtree
  <2> QED BY <1>1, <2>1, DeleteForest
<1>5. CASE m.kind \in {"remember", "forget", "add", "replace", "remove"}
  <2>1. Applied(m, s).items = s.items
    BY <1>1, <1>5 DEF Applied, Collection
  <2> QED BY <2>1
<1> QED BY <1>1, <1>2, <1>3, <1>4, <1>5

\* The hierarchy of the store is a forest.
StoreIsForest == Forest(Store.items)

\* The files a behaviour starts from have been loaded before.
LEMMA ForestInit == Init => StoreIsForest
<1> SUFFICES ASSUME Init
             PROVE  StoreIsForest
  OBVIOUS
<1>1. ValidItems(Loaded(files).items)
  BY LoadableAssumption DEF Init
<1>2. Store = Loaded([c \in Collection |-> files[c]])
  BY DEF Store, Init
<1>3. [c \in Collection |-> files[c]] = files
  BY FilesTyped DEF Init, Files
<1> QED BY <1>1, <1>2, <1>3 DEF StoreIsForest, Forest, ValidItems

\* Every step of the store keeps it one, because it is a step of the abstract store.
LEMMA ForestStep ==
  ASSUME ~Overlap, ~Suspend, StoreInv, [Next]_vars, StoreIsForest
  PROVE  StoreIsForest'
<1>1. CASE \E w \in Writer : Finalize(w)
  <2>1. PICK w \in Writer : Finalize(w)
    BY <1>1
  <2>2. Atomic!Commit(w)
    BY <2>1, FinalizeCommits
  <2>3. Admits(MutationOf[w], Store) /\ Store' = Applied(MutationOf[w], Store)
    BY <2>2, SameOperators DEF Atomic!Commit
  <2>4. Store \in Collections /\ MutationOf[w] \in Mutation
    BY CurrentTyped, CallAssumption DEF StoreInv
  <2> QED BY <2>3, <2>4, AppliedForest DEF StoreIsForest
<1>2. CASE Current' = Current /\ committed' = committed
  BY <1>2 DEF Store, Current, StoreIsForest
<1> QED BY <1>1, <1>2, CurrentKept

\* If recoveries do not overlap and no live commit looks stale, the hierarchy of the store
\* is always a forest of folders: through any crashes, failed writes, rollbacks and
\* recoveries no walk to the top goes round, and none loses a parent
\* (internal/workspace/store.go, createsCycle and validateLoadedItems).
THEOREM WorkspaceForest ==
  ASSUME ~Overlap, ~Suspend
  PROVE  Spec => []StoreIsForest
<1>1. StoreInv /\ StoreIsForest /\ [Next]_vars => StoreInv' /\ StoreIsForest'
  BY StoreInvStep, ForestStep
<1> QED BY <1>1, StoreInvInit, ForestInit, PTL DEF Spec

\* So whatever is committed is loaded again, where the identifiers are too few for the
\* limit on items, which Create does not check.
THEOREM WorkspaceStoreLoads ==
  ASSUME ~Overlap, ~Suspend, Cardinality(Item) <= MaxItems
  PROVE  Spec => []StoreLoads
<1>1. StoreInv /\ StoreIsForest => StoreLoads
  <2>1. SUFFICES ASSUME StoreInv, StoreIsForest
                 PROVE  StoreLoads
    OBVIOUS
  <2>2. Store.items \in Hierarchy
    BY <2>1, CurrentTyped, CollectionsAre DEF StoreInv
  <2>3. DOMAIN Store.items \subseteq Item
    BY <2>2, UpTyped
  <2>4. /\ Cardinality(DOMAIN Store.items) <= Cardinality(Item) /\ Cardinality(DOMAIN Store.items) \in Nat
        /\ Cardinality(Item) \in Nat
    BY <2>3, WorkspaceAssumption, FS_Subset, FS_CardinalityType
  <2> QED BY <2>1, <2>4, WorkspaceAssumption DEF StoreLoads, ValidItems, StoreIsForest, Forest
<1>2. StoreInv /\ StoreIsForest /\ [Next]_vars => StoreInv' /\ StoreIsForest'
  BY StoreInvStep, ForestStep
<1> QED BY <1>1, <1>2, StoreInvInit, ForestInit, PTL DEF Spec

-----------------------------------------------------------------------------
(* The content of the artifacts.                                            *)

\* The directories of the artifacts of a registry.
DirectoriesOf(registry) ==
    [k \in {<<registry[a].of, a>> : a \in DOMAIN registry} |-> registry[k[2]].version]

\* May the writer still move directories back?
MayUndo(w) ==
    /\ pc[w] \in {"check", "restore", "discard", "read", "judge", "move", "begin", "write", "undo"}
    /\ after[w] # "clean"

\* The directories as they would be if the writer at work gave up.
Base == IF holder # NoCall /\ MayUndo(holder) THEN PutBack(holder) ELSE dirs

\* A writer has moved only what its mutation renames, and nothing has taken its place
\* but what the writer itself has placed.
MovedRight == \A w \in Writer :
    /\ pc[w] = "idle" => aside[w] = <<>>
    /\ pc[w] = "undo" => after[w] # "clean"
    /\ MayUndo(w) =>
          /\ DOMAIN aside[w] \subseteq UNION Renames(MutationOf[w], seen[w])
          /\ DOMAIN aside[w] \cap (DOMAIN dirs \ PlacedBy(w)) = {}
          /\ after[w] = "read" /\ pc[w] \notin {"move", "undo"} => aside[w] = <<>>

\* Beyond its moves everything is aside and the new directory in place.
PlacedRight == \A w \in Writer : MayUndo(w) /\ after[w] # "read" =>
    /\ Places(w) => LET k == <<MutationOf[w].item, MutationOf[w].artifact>>
                    IN  k \in DOMAIN dirs /\ dirs[k] = MutationOf[w].version
    /\ DOMAIN dirs \cap UNION Renames(MutationOf[w], seen[w]) \subseteq PlacedBy(w)

\* The content f has for the artifact a of a registry.
Holds(f, registry, a) ==
    LET k == <<registry[a].of, a>> IN k \in DOMAIN f /\ f[k] = registry[a].version

\* What is not among the directories was left aside by its writer.
ContentKept == \A a \in DOMAIN Store.artifacts :
    \/ Holds(Base, Store.artifacts, a)
    \/ \E x \in Writer : LeftBehind(x) /\ Holds(aside[x], Store.artifacts, a)

\* Where nothing was left behind the directories are those of the registry.
ContentExact == (\A w \in Writer : ~LeftBehind(w)) => Base = DirectoriesOf(Store.artifacts)

ContentInv == DirectoriesTyped /\ MovedRight /\ PlacedRight /\ ContentKept /\ ContentExact

\* What a writer can do to what it may undo, where no directory moves.
Begins(w) ==
    /\ ~MayUndo(w) /\ pc[w] = "idle" /\ pc'[w] = "check" /\ after'[w] = "read"
    /\ holder = NoCall
Ends(w) ==
    MayUndo(w) /\ ~MayUndo(w)' /\ after[w] = "read" /\ pc[w] \notin {"move", "undo"}
Goes(w) ==
    /\ MayUndo(w) /\ MayUndo(w)'
    /\ (after'[w] = "read") <=> (after[w] = "read")
    /\ seen'[w] = seen[w] \/ (after[w] = "read" /\ pc[w] = "read")
    /\ after'[w] = "read" /\ pc'[w] \notin {"move", "undo"} => pc[w] \notin {"move", "undo"}
Stays(w) == ~MayUndo(w) /\ ~MayUndo(w)'

Quiet ==
    /\ UNCHANGED content
    /\ \A w \in Writer :
          /\ Begins(w) \/ Ends(w) \/ Goes(w) \/ Stays(w)
          /\ pc'[w] = "idle" => pc[w] = "idle"
          /\ pc'[w] = "undo" /\ after'[w] = "clean" => pc[w] = "undo" /\ after[w] = "clean"
          /\ LeftBehind(w)' <=> LeftBehind(w)
Loud == \E w \in Writer : MoveAside(w) \/ Place(w) \/ Undo(w) \/ UndoFails(w) \/ Clean(w) \/ Finalize(w) \/ Crash(w)

\* These are all steps.
LEMMA QuietOrLoud ==
  ASSUME StoreInv, [Next]_vars
  PROVE  Quiet \/ Loud
<1>0. /\ pc \in [Call -> Labels] /\ after \in [Call -> {"read", "begin", "undo", "clean"}]
      /\ seen \in [Call -> Collections]
      /\ result \in [Writer -> {"none", "ok", "unchanged", "failed", "unfinalized", "stranded"}]
      /\ \A w \in Writer : result[w] = "stranded" => pc[w] \in {"close", "done", "crashed"}
      /\ \A w \in Writer :
            /\ pc[w] \in {"idle", "read", "judge", "move"} => after[w] = "read"
            /\ pc[w] = "check" => after[w] \in {"read", "begin"}
            /\ pc[w] \in {"begin", "write"} => after[w] = "begin"
            /\ pc[w] = "restore" => after[w] # "clean"
            /\ pc[w] = "clean" => after[w] = "clean"
  BY DEF StoreInv, Told, StoreTyped, RightPlaces
<1> USE CallAssumption DEF Call, Goto, Return, Fail, Forget, Labels, LeftBehind, MayUndo, Quiet, Begins, Ends, Goes, Stays, content, work, tx
<1>1. ASSUME NEW r \in Reader, BeginRead(r)
      PROVE  Quiet
  BY <1>0, <1>1 DEF BeginRead
<1>2. ASSUME NEW w \in Writer, BeginWrite(w)
      PROVE  Quiet
  BY <1>0, <1>2 DEF BeginWrite
<1>3. ASSUME NEW w \in Writer, Judge(w)
      PROVE  Quiet
  BY <1>0, <1>3 DEF Judge
<1>4. ASSUME NEW w \in Writer, MoveFails(w)
      PROVE  Quiet
  BY <1>0, <1>4 DEF MoveFails
<1>5. ASSUME NEW w \in Writer, Publish(w) \/ PublishFails(w)
      PROVE  Quiet
  BY <1>0, <1>5 DEF Publish, PublishFails
<1>6. ASSUME NEW w \in Writer, WriteFile(w) \/ WriteFails(w) \/ FinalizeFails(w)
      PROVE  Quiet
  BY <1>0, <1>6 DEF WriteFile, WriteFails, FinalizeFails
<1>7. ASSUME NEW w \in Writer, Close(w)
      PROVE  Quiet
  BY <1>0, <1>7 DEF Close
<1>8. ASSUME NEW p \in Call, Clear(p) \/ Refused(p) \/ Recover(p)
      PROVE  Quiet
  BY <1>0, <1>8 DEF Clear, Refused, Recover
<1>9. ASSUME NEW p \in Call, Read(p)
       PROVE  Quiet
  <2>1. /\ UNCHANGED content /\ after' = after /\ pc[p] = "read"
        /\ \A w \in Call \ {p} : pc'[w] = pc[w] /\ seen'[w] = seen[w]
        /\ \A w \in Writer : result'[w] = "stranded" <=> result[w] = "stranded"
        /\ pc'[p] \in {"idle", "check", "judge", "close", "undo"}
        /\ p \in Writer => after[p] = "read" /\ pc'[p] \in {"check", "judge", "close"}
    BY <1>0, <1>9 DEF Read
  <2> QED BY <1>0, <2>1
<1>10. ASSUME NEW p \in Call, RestoreFile(p) \/ Restored(p) \/ RestoreGivesUp(p) \/ Discard(p)
       PROVE  Quiet
  BY <1>0, <1>10 DEF RestoreFile, Restored, RestoreGivesUp, Discard
<1>11. ASSUME NEW p \in Reader, Crash(p)
       PROVE  Quiet
  BY <1>0, <1>11 DEF Crash
<1>12. CASE (\E t \in Writer : Age(t)) \/ UNCHANGED vars
  BY <1>0, <1>12 DEF Age, vars
<1> QED
  BY <1>1, <1>2, <1>3, <1>4, <1>5, <1>6, <1>7, <1>8, <1>9, <1>10, <1>11, <1>12
  DEF Next, Load, Restore, Move, Commit, Loud

\* Only the writer at work may undo, and it is the holder of the lease.
LEMMA OneMayUndo ==
  ASSUME StoreInv
  PROVE  /\ \A w \in Writer : MayUndo(w) => holder = w /\ holder # NoCall
         /\ \A w \in Writer : MayUndo(w) => Base = PutBack(w)
         /\ (\A w \in Writer : ~MayUndo(w)) => Base = dirs
<1>1. \A w \in Writer : MayUndo(w) => holder = w /\ w # NoCall
  BY CallAssumption DEF StoreInv, OneWriter, MayUndo, Call
<1>2. holder \in Writer \cup {NoCall}
  BY DEF StoreInv, StoreTyped
<1> QED BY <1>1, <1>2 DEF Base

\* Directories are maps from places to contents.
LEMMA DirectoriesAre ==
  ASSUME NEW f \in Directories
  PROVE  /\ f = [k \in DOMAIN f |-> f[k]] /\ DOMAIN f \subseteq (Item \ Folder) \X Artifact
         /\ Joined(<<>>, f) = f
<1>1. PICK D \in SUBSET ((Item \ Folder) \X Artifact) : f \in [D -> Version]
  BY DEF Directories, Partial
<1>2. <<>> \in [{} -> Version]
  OBVIOUS
<1>3. DOMAIN <<>> = {}
  BY <1>2
<1> QED BY <1>1, <1>3 DEF Joined

\* What the directories are when they are back.
LEMMA PutBackIs ==
  ASSUME DirectoriesTyped, NEW w \in Writer
  PROVE  /\ DOMAIN PutBack(w) = DOMAIN aside[w] \cup (DOMAIN dirs \ PlacedBy(w))
         /\ \A k \in DOMAIN PutBack(w) : PutBack(w)[k] = IF k \in DOMAIN aside[w] THEN aside[w][k] ELSE dirs[k]
         /\ PutBack(w) = [k \in DOMAIN PutBack(w) |-> PutBack(w)[k]]
  BY DEF PutBack, Joined, Restrict

\* Before its moves there is nothing to put back.
LEMMA NothingAside ==
  ASSUME DirectoriesTyped, NEW w \in Writer, aside[w] = <<>>, after[w] = "read"
  PROVE  PutBack(w) = dirs
<1>1. dirs = [k \in DOMAIN dirs |-> dirs[k]] /\ Joined(<<>>, dirs) = dirs
  BY DirectoriesAre DEF DirectoriesTyped
<1>2. PlacedBy(w) = {} /\ DOMAIN dirs \ PlacedBy(w) = DOMAIN dirs
  BY DEF PlacedBy
<1>3. Restrict(dirs, DOMAIN dirs) = dirs
  BY <1>1 DEF Restrict
<1> QED BY <1>1, <1>2, <1>3 DEF PutBack

\* Where no directory moves, what the writer may undo stays what it is.
LEMMA QuietKeeps ==
  ASSUME StoreInv, StoreInv', DirectoriesTyped, MovedRight, PlacedRight, Quiet
  PROVE  MovedRight' /\ PlacedRight' /\ Base' = Base
<1>0. UNCHANGED <<dirs, aside>>
  BY DEF Quiet, content
<1>1. ASSUME NEW w \in Writer, Begins(w) \/ Goes(w)
      PROVE  /\ PlacedBy(w)' = IF Goes(w) THEN PlacedBy(w) ELSE {}
             /\ Begins(w) => aside[w] = <<>> /\ after'[w] = "read"
             /\ Goes(w) => \/ seen'[w] = seen[w]
                           \/ aside[w] = <<>> /\ after[w] = "read"
  <2>1. Begins(w) => ~Goes(w)
    BY DEF Begins, Goes
  <2>2. Goes(w) => PlacedBy(w)' = PlacedBy(w)
    BY DEF Goes, PlacedBy, Places
  <2>3. Begins(w) => PlacedBy(w)' = {} /\ aside[w] = <<>>
    BY DEF Begins, PlacedBy, MovedRight
  <2> QED BY <1>1, <2>1, <2>2, <2>3 DEF Begins, Goes, MovedRight
<1>2. MovedRight'
  <2>1. SUFFICES ASSUME NEW w \in Writer
                 PROVE  /\ pc'[w] = "idle" => aside'[w] = <<>>
                        /\ pc'[w] = "undo" => after'[w] # "clean"
                        /\ MayUndo(w)' =>
                              /\ DOMAIN aside'[w] \subseteq UNION Renames(MutationOf[w], seen'[w])
                              /\ DOMAIN aside'[w] \cap (DOMAIN dirs' \ PlacedBy(w)') = {}
                              /\ after'[w] = "read" /\ pc'[w] \notin {"move", "undo"} => aside'[w] = <<>>
    BY DEF MovedRight
  <2>2. (pc'[w] = "idle" => aside'[w] = <<>>) /\ (pc'[w] = "undo" => after'[w] # "clean")
    BY <1>0 DEF Quiet, MovedRight
  <2>3. DOMAIN <<>> = {}
    OBVIOUS
  <2>4. CASE Begins(w)
    BY <1>0, <1>1, <2>2, <2>3, <2>4
  <2>5. CASE Goes(w)
    <3>1. /\ MayUndo(w) /\ PlacedBy(w)' = PlacedBy(w)
          /\ seen'[w] = seen[w] \/ aside[w] = <<>>
          /\ after'[w] = "read" /\ pc'[w] \notin {"move", "undo"} =>
                after[w] = "read" /\ pc[w] \notin {"move", "undo"}
      BY <1>1, <2>5 DEF Goes
    <3> QED BY <1>0, <2>2, <2>3, <3>1 DEF MovedRight
  <2>6. CASE Ends(w) \/ Stays(w)
    BY <2>2, <2>6 DEF Ends, Stays
  <2> QED BY <2>4, <2>5, <2>6 DEF Quiet
<1>3. PlacedRight'
  <2>1. SUFFICES ASSUME NEW w \in Writer, MayUndo(w)', after'[w] # "read"
                 PROVE  (/\ Places(w) => LET k == <<MutationOf[w].item, MutationOf[w].artifact>>
                                         IN  k \in DOMAIN dirs /\ dirs[k] = MutationOf[w].version
                         /\ DOMAIN dirs \cap UNION Renames(MutationOf[w], seen[w]) \subseteq PlacedBy(w))'
    BY DEF PlacedRight
  <2>2. Goes(w)
    BY <2>1 DEF Quiet, Begins, Ends, Stays
  <2>3. MayUndo(w) /\ after[w] # "read" /\ PlacedBy(w)' = PlacedBy(w) /\ seen'[w] = seen[w]
    BY <1>1, <2>1, <2>2 DEF Goes
  <2>4. Places(w)' = Places(w)
    BY DEF Places
  <2> QED BY <1>0, <2>3, <2>4 DEF PlacedRight
<1>4. Base' = Base
  <2>1. CASE \E w \in Writer : MayUndo(w)'
    <3>1. PICK w \in Writer : MayUndo(w)'
      BY <2>1
    <3>2. Base' = PutBack(w)'
      <4>1. holder' = w /\ holder' # NoCall
        BY <3>1, CallAssumption DEF StoreInv, OneWriter, MayUndo, Call
      <4> QED BY <3>1, <4>1 DEF Base
    <3>3. CASE Goes(w)
      <4>1. PlacedBy(w)' = PlacedBy(w) /\ MayUndo(w)
        BY <1>1, <3>3 DEF Goes
      <4>2. PutBack(w)' = PutBack(w)
        BY <1>0, <4>1 DEF PutBack, Joined, Restrict
      <4> QED BY <3>2, <4>1, <4>2, OneMayUndo
    <3>4. CASE Begins(w)
      <4>1. aside[w] = <<>> /\ PlacedBy(w)' = {}
        BY <1>1, <3>4 DEF Begins, Goes
      <4>2. holder = NoCall
        BY <3>4 DEF Begins
      <4>3. \A v \in Writer : ~MayUndo(v)
        BY <4>2, OneMayUndo
      <4>4. Base = dirs
        BY <4>3, OneMayUndo
      <4>5. PutBack(w)' = dirs
        <5>1. dirs = [k \in DOMAIN dirs |-> dirs[k]] /\ Joined(<<>>, dirs) = dirs
          BY DirectoriesAre DEF DirectoriesTyped
        <5>2. Restrict(dirs, DOMAIN dirs) = dirs /\ DOMAIN dirs \ {} = DOMAIN dirs
          BY <5>1 DEF Restrict
        <5> QED BY <1>0, <4>1, <5>1, <5>2 DEF PutBack
      <4> QED BY <3>2, <4>4, <4>5
    <3> QED BY <3>1, <3>3, <3>4 DEF Quiet, Ends, Stays
  <2>2. CASE \A w \in Writer : ~MayUndo(w)'
    <3>1. Base' = dirs
      <4>1. holder' \in Writer \cup {NoCall}
        BY DEF StoreInv, StoreTyped
      <4> QED BY <1>0, <2>2, <4>1 DEF Base
    <3>2. CASE \E w \in Writer : MayUndo(w)
      <4>1. PICK w \in Writer : MayUndo(w)
        BY <3>2
      <4>2. Ends(w)
        BY <2>2, <4>1 DEF Quiet, Begins, Goes, Stays
      <4>3. aside[w] = <<>> /\ after[w] = "read"
        BY <4>2 DEF Ends, MovedRight
      <4>4. PutBack(w) = dirs
        BY <4>3, NothingAside
      <4> QED BY <3>1, <4>1, <4>4, OneMayUndo
    <3> QED BY <3>1, <3>2, OneMayUndo
  <2> QED BY <2>1, <2>2
<1> QED BY <1>2, <1>3, <1>4

\* Types a step of a writer relies on.
LEMMA ContentTypes ==
  ASSUME StoreInv, DirectoriesTyped
  PROVE  /\ pc \in [Call -> Labels] /\ after \in [Call -> {"read", "begin", "undo", "clean"}]
         /\ aside \in [Writer -> Directories] /\ dirs \in Directories /\ Writer \subseteq Call
         /\ \A w \in Writer : pc[w] \in {"idle", "read", "judge", "move"} => after[w] = "read"
         /\ \A w \in Writer : pc[w] \in {"begin", "write"} => after[w] = "begin"
  BY DEF StoreInv, Told, RightPlaces, DirectoriesTyped, Call

\* While one writer is at work no other may undo.
LEMMA OthersRest ==
  ASSUME StoreInv, NEW w \in Writer, pc[w] \notin {"idle", "done", "crashed"}
  PROVE  \A v \in Writer \ {w} : pc[v] \in {"idle", "done", "crashed"} /\ ~MayUndo(v)
<1>1. \A v \in Writer : pc[v] \notin {"idle", "done", "crashed"} => holder = v
  BY DEF StoreInv, OneWriter
<1> QED BY <1>1 DEF MayUndo

\* The places of the renames.
LEMMA RenamesAre ==
  ASSUME NEW w \in Writer, NEW k \in ToMove(w)
  PROVE  k \subseteq DOMAIN dirs /\ k \subseteq UNION Renames(MutationOf[w], seen[w])
  BY DEF ToMove

\* What is kept in either place is kept.
LEMMA SameBase ==
  ASSUME ContentKept, ContentExact, Base' = Base, Store' = Store,
         \A x \in Writer : LeftBehind(x) => LeftBehind(x)' /\ aside'[x] = aside[x]
  PROVE  ContentKept' /\ ContentExact'
<1>1. ContentKept'
  <2>1. SUFFICES ASSUME NEW a \in DOMAIN Store.artifacts
                 PROVE  \/ Holds(Base, Store.artifacts, a)'
                        \/ \E x \in Writer : LeftBehind(x)' /\ Holds(aside[x], Store.artifacts, a)'
    BY DEF ContentKept
  <2>2. CASE Holds(Base, Store.artifacts, a)
    BY <2>2 DEF Holds
  <2>3. ASSUME NEW x \in Writer, LeftBehind(x), Holds(aside[x], Store.artifacts, a)
        PROVE  LeftBehind(x)' /\ Holds(aside[x], Store.artifacts, a)'
    BY <2>3 DEF Holds
  <2> QED BY <2>2, <2>3 DEF ContentKept
<1>2. ContentExact'
  BY DEF ContentExact, DirectoriesOf
<1> QED BY <1>1, <1>2

\* A directory that is moved aside can be put back.
LEMMA MoveAsideKeeps ==
  ASSUME StoreInv, StoreInv', DirectoriesTyped, DirectoriesTyped', MovedRight, PlacedRight,
         NEW w \in Writer, MoveAside(w)
  PROVE  MovedRight' /\ PlacedRight' /\ Base' = Base
<1>1. PICK k \in ToMove(w) :
         /\ aside' = [aside EXCEPT ![w] = Joined(Restrict(dirs, k), @)]
         /\ dirs' = Restrict(dirs, DOMAIN dirs \ k)
  BY DEF MoveAside
<1>2. /\ pc[w] = "move" /\ pc' = pc /\ after' = after /\ seen' = seen /\ after[w] = "read"
  BY ContentTypes DEF MoveAside, work
<1>3. MayUndo(w) /\ MayUndo(w)' /\ PlacedBy(w) = {} /\ PlacedBy(w)' = {}
  BY <1>2 DEF MayUndo, PlacedBy
<1>4. k \subseteq DOMAIN dirs /\ k \subseteq UNION Renames(MutationOf[w], seen[w])
  BY RenamesAre
<1>5. /\ aside'[w] = Joined(Restrict(dirs, k), aside[w])
      /\ \A v \in Writer \ {w} : aside'[v] = aside[v]
  BY <1>1, ContentTypes
<1>6. \A v \in Writer \ {w} : ~MayUndo(v) /\ ~MayUndo(v)' /\ pc[v] # "move"
  BY <1>2, OthersRest DEF MayUndo
<1>7. /\ DOMAIN aside'[w] = k \cup DOMAIN aside[w] /\ DOMAIN dirs' = DOMAIN dirs \ k
      /\ \A x \in k : aside'[w][x] = dirs[x]
      /\ \A x \in DOMAIN aside[w] \ k : aside'[w][x] = aside[w][x]
      /\ \A x \in DOMAIN dirs \ k : dirs'[x] = dirs[x]
  BY <1>1, <1>5 DEF Joined, Restrict
<1>8. DOMAIN aside[w] \subseteq UNION Renames(MutationOf[w], seen[w]) /\ DOMAIN aside[w] \cap DOMAIN dirs = {}
  BY <1>3 DEF MovedRight
<1>9. MovedRight'
  <2>1. SUFFICES ASSUME NEW v \in Writer
                 PROVE  /\ pc'[v] = "idle" => aside'[v] = <<>>
                        /\ pc'[v] = "undo" => after'[v] # "clean"
                        /\ MayUndo(v)' =>
                              /\ DOMAIN aside'[v] \subseteq UNION Renames(MutationOf[v], seen'[v])
                              /\ DOMAIN aside'[v] \cap (DOMAIN dirs' \ PlacedBy(v)') = {}
                              /\ after'[v] = "read" /\ pc'[v] \notin {"move", "undo"} => aside'[v] = <<>>
    BY DEF MovedRight
  <2>2. CASE v = w
    BY <1>2, <1>3, <1>4, <1>7, <1>8, <2>2
  <2>3. CASE v # w
    BY <1>2, <1>5, <1>6, <2>3 DEF MovedRight
  <2> QED BY <2>2, <2>3
<1>10. PlacedRight'
  BY <1>2, <1>6 DEF PlacedRight
<1>11. Base' = Base
  <2>1. Base = PutBack(w)
    BY <1>3, OneMayUndo
  <2>2. Base' = PutBack(w)'
    <3>1. holder' = w /\ holder' # NoCall
      BY <1>3, CallAssumption DEF StoreInv, OneWriter, MayUndo, Call
    <3> QED BY <1>3, <3>1 DEF Base
  <2>3. /\ DOMAIN PutBack(w) = DOMAIN aside[w] \cup DOMAIN dirs
        /\ \A x \in DOMAIN PutBack(w) : PutBack(w)[x] = IF x \in DOMAIN aside[w] THEN aside[w][x] ELSE dirs[x]
        /\ PutBack(w) = [x \in DOMAIN PutBack(w) |-> PutBack(w)[x]]
    BY <1>3, PutBackIs
  <2>4. /\ DOMAIN PutBack(w)' = DOMAIN aside'[w] \cup DOMAIN dirs'
        /\ \A x \in DOMAIN PutBack(w)' : PutBack(w)'[x] = IF x \in DOMAIN aside'[w] THEN aside'[w][x] ELSE dirs'[x]
        /\ PutBack(w)' = [x \in DOMAIN PutBack(w)' |-> PutBack(w)'[x]]
    BY <1>3 DEF PutBack, Joined, Restrict
  <2>5. DOMAIN PutBack(w)' = DOMAIN PutBack(w)
    BY <1>4, <1>7, <2>3, <2>4
  <2>6. \A x \in DOMAIN PutBack(w) : PutBack(w)'[x] = PutBack(w)[x]
    BY <1>4, <1>7, <1>8, <2>3, <2>4, <2>5
  <2> QED BY <2>1, <2>2, <2>3, <2>4, <2>5, <2>6
<1> QED BY <1>9, <1>10, <1>11

\* So can they all when a new directory is in place.
LEMMA PlaceKeeps ==
  ASSUME StoreInv, StoreInv', DirectoriesTyped, DirectoriesTyped', MovedRight, PlacedRight,
         NEW w \in Writer, Place(w)
  PROVE  MovedRight' /\ PlacedRight' /\ Base' = Base
<1> DEFINE m == MutationOf[w]
           key == <<m.item, m.artifact>>
<1>1. /\ pc[w] = "move" /\ after[w] = "read" /\ pc'[w] = "check" /\ after'[w] = "begin" /\ seen' = seen
      /\ \A v \in Writer \ {w} : pc'[v] = pc[v] /\ after'[v] = after[v]
      /\ aside' = aside /\ ToMove(w) = {}
  BY ContentTypes DEF Place, Goto
<1>2. /\ MayUndo(w) /\ MayUndo(w)' /\ PlacedBy(w) = {}
      /\ PlacedBy(w)' = IF Places(w) THEN {key} ELSE {}
  BY <1>1 DEF MayUndo, PlacedBy, Places
<1>3. \A v \in Writer \ {w} : ~MayUndo(v) /\ ~MayUndo(v)'
  BY <1>1, OthersRest DEF MayUndo
<1>4. \/ /\ Places(w) /\ key \notin DOMAIN dirs
         /\ DOMAIN dirs' = DOMAIN dirs \cup {key} /\ dirs'[key] = m.version
         /\ \A x \in DOMAIN dirs : dirs'[x] = dirs[x]
      \/ ~Places(w) /\ dirs' = dirs
  BY DEF Place, Put
<1>5. DOMAIN dirs \cap UNION Renames(m, seen[w]) = {}
  <2>1. ASSUME NEW S \in Renames(m, seen[w]), NEW x \in S \cap DOMAIN dirs
        PROVE  FALSE
    <3>1. S \cap DOMAIN dirs \in ToMove(w)
      BY <2>1 DEF ToMove
    <3> QED BY <1>1, <3>1
  <2> QED BY <2>1
<1>6. Places(w)' = Places(w)
  BY DEF Places
<1> HIDE DEF key, m
<1>7. MovedRight'
  <2>1. SUFFICES ASSUME NEW v \in Writer
                 PROVE  /\ pc'[v] = "idle" => aside'[v] = <<>>
                        /\ pc'[v] = "undo" => after'[v] # "clean"
                        /\ MayUndo(v)' =>
                              /\ DOMAIN aside'[v] \subseteq UNION Renames(MutationOf[v], seen'[v])
                              /\ DOMAIN aside'[v] \cap (DOMAIN dirs' \ PlacedBy(v)') = {}
                              /\ after'[v] = "read" /\ pc'[v] \notin {"move", "undo"} => aside'[v] = <<>>
    BY DEF MovedRight
  <2>2. CASE v = w
    <3>1. DOMAIN aside[w] \subseteq UNION Renames(MutationOf[w], seen[w]) /\ DOMAIN aside[w] \cap DOMAIN dirs = {}
      BY <1>2 DEF MovedRight
    <3>2. DOMAIN dirs' \ PlacedBy(w)' \subseteq DOMAIN dirs
      BY <1>2, <1>4
    <3> QED BY <1>1, <2>2, <3>1, <3>2
  <2>3. CASE v # w
    BY <1>1, <1>3, <2>3 DEF MovedRight
  <2> QED BY <2>2, <2>3
<1>8. PlacedRight'
  <2>1. SUFFICES ASSUME NEW v \in Writer, MayUndo(v)', after'[v] # "read"
                 PROVE  (/\ Places(v) => LET k == <<MutationOf[v].item, MutationOf[v].artifact>>
                                         IN  k \in DOMAIN dirs /\ dirs[k] = MutationOf[v].version
                         /\ DOMAIN dirs \cap UNION Renames(MutationOf[v], seen[v]) \subseteq PlacedBy(v))'
    BY DEF PlacedRight
  <2>2. v = w
    BY <1>3, <2>1
  <2>3. DOMAIN dirs' \cap UNION Renames(MutationOf[w], seen'[w]) \subseteq PlacedBy(w)'
    BY <1>1, <1>2, <1>4, <1>5 DEF m
  <2>4. Places(w) => <<MutationOf[w].item, MutationOf[w].artifact>> \in DOMAIN dirs'
                     /\ dirs'[<<MutationOf[w].item, MutationOf[w].artifact>>] = MutationOf[w].version
    BY <1>4 DEF key, m
  <2> QED BY <1>6, <2>2, <2>3, <2>4
<1>9. Base' = Base
  <2>1. Base = PutBack(w)
    BY <1>2, OneMayUndo
  <2>2. Base' = PutBack(w)'
    <3>1. holder' = w /\ holder' # NoCall
      BY <1>2, CallAssumption DEF StoreInv, OneWriter, MayUndo, Call
    <3> QED BY <1>2, <3>1 DEF Base
  <2>3. Restrict(dirs', DOMAIN dirs' \ PlacedBy(w)') = Restrict(dirs, DOMAIN dirs \ PlacedBy(w))
    <3>1. DOMAIN dirs' \ PlacedBy(w)' = DOMAIN dirs /\ DOMAIN dirs \ PlacedBy(w) = DOMAIN dirs
      BY <1>2, <1>4
    <3>2. \A x \in DOMAIN dirs : dirs'[x] = dirs[x]
      BY <1>4
    <3> QED BY <3>1, <3>2 DEF Restrict
  <2>4. PutBack(w)' = Joined(aside'[w], Restrict(dirs', DOMAIN dirs' \ PlacedBy(w)'))
    BY DEF PutBack, Joined, Restrict
  <2>5. PutBack(w) = Joined(aside[w], Restrict(dirs, DOMAIN dirs \ PlacedBy(w)))
    BY DEF PutBack
  <2> QED BY <1>1, <2>1, <2>2, <2>3, <2>4, <2>5
<1> QED BY <1>7, <1>8, <1>9

\* Directories that are put back are as they were.
LEMMA UndoKeeps ==
  ASSUME StoreInv, StoreInv', DirectoriesTyped, DirectoriesTyped', MovedRight, PlacedRight,
         NEW w \in Writer, Undo(w)
  PROVE  MovedRight' /\ PlacedRight' /\ Base' = Base
<1>1. /\ pc[w] = "undo" /\ pc'[w] = "close" /\ after' = after /\ seen' = seen
      /\ dirs' = PutBack(w)
      /\ \A v \in Writer \ {w} : pc'[v] = pc[v] /\ aside'[v] = aside[v]
  BY ContentTypes DEF Undo, Return, Goto, work
<1>2. MayUndo(w) /\ ~MayUndo(w)'
  BY <1>1 DEF MayUndo, MovedRight
<1>3. \A v \in Writer \ {w} : ~MayUndo(v) /\ ~MayUndo(v)'
  BY <1>1, OthersRest DEF MayUndo
<1>4. MovedRight'
  BY <1>1, <1>2, <1>3 DEF MovedRight
<1>5. PlacedRight'
  BY <1>2, <1>3 DEF PlacedRight
<1>6. Base' = Base
  <2>1. Base = PutBack(w)
    BY <1>2, OneMayUndo
  <2>2. Base' = dirs'
    <3>1. holder' \in Writer \cup {NoCall}
      BY DEF StoreInv, StoreTyped
    <3> QED BY <1>2, <1>3, <3>1 DEF Base
  <2> QED BY <1>1, <2>1, <2>2
<1> QED BY <1>4, <1>5, <1>6

\* What a rollback leaves aside is not lost.
LEMMA UndoFailsKeeps ==
  ASSUME StoreInv, StoreInv', DirectoriesTyped, DirectoriesTyped', MovedRight, PlacedRight, ContentKept,
         Store' = Store, NEW w \in Writer, UndoFails(w)
  PROVE  MovedRight' /\ PlacedRight' /\ ContentKept' /\ ContentExact'
<1>1. /\ pc[w] = "undo" /\ pc'[w] = "close" /\ after' = after /\ seen' = seen /\ LeftBehind(w)'
      /\ \A v \in Writer \ {w} : pc'[v] = pc[v] /\ aside'[v] = aside[v] /\ result'[v] = result[v]
  BY ContentTypes DEF UndoFails, Return, Goto, work, LeftBehind, StoreInv, Told
<1>2. MayUndo(w) /\ ~MayUndo(w)'
  BY <1>1 DEF MayUndo, MovedRight
<1>3. \A v \in Writer \ {w} : ~MayUndo(v) /\ ~MayUndo(v)'
  BY <1>1, OthersRest DEF MayUndo
<1>4. MovedRight'
  BY <1>1, <1>2, <1>3 DEF MovedRight
<1>5. PlacedRight'
  BY <1>2, <1>3 DEF PlacedRight
<1>6. Base = PutBack(w) /\ Base' = dirs'
  <2>1. holder' \in Writer \cup {NoCall}
    BY DEF StoreInv, StoreTyped
  <2> QED BY <1>2, <1>3, <2>1, OneMayUndo DEF Base
<1>7. PICK gone, stays, back :
         /\ stays \subseteq DOMAIN aside[w] /\ back = DOMAIN aside[w] \ stays /\ gone \subseteq PlacedBy(w)
         /\ dirs' = Joined(Restrict(aside[w], back), Restrict(dirs, DOMAIN dirs \ gone))
         /\ aside'[w] = Restrict(aside[w], stays)
  <2>1. PICK items \in SUBSET Item, gone \in SUBSET PlacedBy(w) :
           /\ dirs' = Joined(Restrict(aside[w], DOMAIN aside[w] \ AsideOf(w, items)),
                             Restrict(dirs, DOMAIN dirs \ gone))
           /\ aside' = [aside EXCEPT ![w] = Restrict(aside[w], AsideOf(w, items))]
    BY DEF UndoFails
  <2>2. aside'[w] = Restrict(aside[w], AsideOf(w, items))
    BY <2>1, ContentTypes
  <2>3. AsideOf(w, items) \subseteq DOMAIN aside[w]
    BY DEF AsideOf
  <2> QED BY <2>1, <2>2, <2>3
<1>8. /\ \A k \in back : k \in DOMAIN dirs' /\ dirs'[k] = aside[w][k]
      /\ \A k \in (DOMAIN dirs \ PlacedBy(w)) \ DOMAIN aside[w] : k \in DOMAIN dirs' /\ dirs'[k] = dirs[k]
      /\ \A k \in stays : k \in DOMAIN aside'[w] /\ aside'[w][k] = aside[w][k]
  BY <1>7 DEF Joined, Restrict
<1>9. ASSUME NEW registry, NEW a, Holds(PutBack(w), registry, a)
      PROVE  Holds(dirs', registry, a) \/ Holds(aside'[w], registry, a)
  <2> DEFINE k == <<registry[a].of, a>>
  <2>1. k \in DOMAIN aside[w] \cup (DOMAIN dirs \ PlacedBy(w))
    BY <1>9, PutBackIs DEF Holds
  <2>2. registry[a].version = IF k \in DOMAIN aside[w] THEN aside[w][k] ELSE dirs[k]
    BY <1>9, PutBackIs DEF Holds
  <2> QED BY <1>7, <1>8, <2>1, <2>2 DEF Holds
<1>10. ContentKept'
  <2>1. SUFFICES ASSUME NEW a \in DOMAIN Store.artifacts
                 PROVE  \/ Holds(dirs', Store.artifacts, a)
                        \/ \E x \in Writer : LeftBehind(x)' /\ Holds(aside'[x], Store.artifacts, a)
    BY <1>6 DEF ContentKept, Holds
  <2>2. CASE Holds(Base, Store.artifacts, a)
    BY <1>1, <1>6, <1>9, <2>2
  <2>3. ASSUME NEW x \in Writer, LeftBehind(x), Holds(aside[x], Store.artifacts, a)
        PROVE  LeftBehind(x)' /\ Holds(aside'[x], Store.artifacts, a)
    <3>1. x # w
      BY <1>1, <2>3 DEF LeftBehind, StoreInv, Told
    <3> QED BY <1>1, <2>3, <3>1 DEF LeftBehind
  <2> QED BY <2>2, <2>3 DEF ContentKept
<1>11. ContentExact'
  BY <1>1 DEF ContentExact
<1> QED BY <1>4, <1>5, <1>10, <1>11

\* After the commit the directories that were moved aside are no longer needed.
LEMMA CleanKeeps ==
  ASSUME StoreInv, StoreInv', DirectoriesTyped, DirectoriesTyped', MovedRight, PlacedRight,
         NEW w \in Writer, Clean(w)
  PROVE  MovedRight' /\ PlacedRight' /\ Base' = Base
<1>1. /\ pc[w] = "clean" /\ pc'[w] = "close" /\ after' = after /\ seen' = seen /\ dirs' = dirs
      /\ \A v \in Writer \ {w} : pc'[v] = pc[v] /\ aside'[v] = aside[v]
  BY ContentTypes DEF Clean, Return, Goto, work
<1>2. ~MayUndo(w) /\ ~MayUndo(w)'
  BY <1>1 DEF MayUndo
<1>3. \A v \in Writer \ {w} : ~MayUndo(v) /\ ~MayUndo(v)'
  BY <1>1, OthersRest DEF MayUndo
<1>4. MovedRight'
  BY <1>1, <1>2, <1>3 DEF MovedRight
<1>5. PlacedRight'
  BY <1>2, <1>3 DEF PlacedRight
<1>6. Base' = Base
  <2>1. Base = dirs
    BY <1>2, <1>3, OneMayUndo
  <2>2. Base' = dirs'
    <3>1. holder' \in Writer \cup {NoCall}
      BY DEF StoreInv, StoreTyped
    <3> QED BY <1>2, <1>3, <3>1 DEF Base
  <2> QED BY <1>1, <2>1, <2>2
<1> QED BY <1>4, <1>5, <1>6

\* What a writer that crashes had moved aside stays there.
LEMMA CrashKeeps ==
  ASSUME StoreInv, StoreInv', DirectoriesTyped, DirectoriesTyped', MovedRight, PlacedRight, ContentKept,
         Store' = Store, NEW w \in Writer, Crash(w)
  PROVE  MovedRight' /\ PlacedRight' /\ ContentKept' /\ ContentExact'
<1>0. w \notin Reader
  BY CallAssumption
<1>1. /\ pc[w] \notin {"idle", "done", "crashed"} /\ pc'[w] = "crashed" /\ dirs' = dirs /\ aside' = aside
      /\ \A v \in Writer \ {w} : pc'[v] = pc[v] /\ after'[v] = after[v] /\ seen'[v] = seen[v]
      /\ result' = result
  BY <1>0, ContentTypes DEF Crash, Goto, Forget, content, StoreInv, StoreTyped
<1>2. ~MayUndo(w)'
  BY <1>1 DEF MayUndo
<1>3. \A v \in Writer \ {w} : ~MayUndo(v) /\ ~MayUndo(v)' /\ pc[v] # "undo"
  BY <1>1, OthersRest DEF MayUndo
<1>4. MovedRight'
  BY <1>1, <1>2, <1>3 DEF MovedRight
<1>5. PlacedRight'
  BY <1>2, <1>3 DEF PlacedRight
<1>6. Base' = dirs
  <2>1. holder' \in Writer \cup {NoCall}
    BY DEF StoreInv, StoreTyped
  <2> QED BY <1>1, <1>2, <1>3, <2>1 DEF Base
<1>7. ContentKept'
  <2>1. SUFFICES ASSUME NEW a \in DOMAIN Store.artifacts
                 PROVE  \/ Holds(Base, Store.artifacts, a)'
                        \/ \E x \in Writer : LeftBehind(x)' /\ Holds(aside[x], Store.artifacts, a)'
    BY DEF ContentKept
  <2>2. CASE Holds(Base, Store.artifacts, a)
    <3>1. CASE MayUndo(w)
      <4>1. Base = PutBack(w)
        BY <3>1, OneMayUndo
      <4>2. /\ DOMAIN PutBack(w) = DOMAIN aside[w] \cup (DOMAIN dirs \ PlacedBy(w))
            /\ \A k \in DOMAIN PutBack(w) : PutBack(w)[k] = IF k \in DOMAIN aside[w] THEN aside[w][k] ELSE dirs[k]
        BY PutBackIs
      <4>3. Holds(aside[w], Store.artifacts, a) \/ Holds(dirs, Store.artifacts, a)
        BY <2>2, <4>1, <4>2 DEF Holds
      <4>4. CASE Holds(aside[w], Store.artifacts, a)
        <5>1. LeftBehind(w)' /\ Holds(aside[w], Store.artifacts, a)'
          BY <1>1, <4>4 DEF Holds, LeftBehind
        <5> QED BY <5>1
      <4>5. CASE Holds(dirs, Store.artifacts, a)
        BY <1>6, <4>5 DEF Holds
      <4> QED BY <4>3, <4>4, <4>5
    <3>2. CASE ~MayUndo(w)
      <4>1. Base = dirs
        BY <1>3, <3>2, OneMayUndo
      <4> QED BY <1>6, <2>2, <4>1 DEF Holds
    <3> QED BY <3>1, <3>2
  <2>3. ASSUME NEW x \in Writer, LeftBehind(x), Holds(aside[x], Store.artifacts, a)
        PROVE  LeftBehind(x)' /\ Holds(aside[x], Store.artifacts, a)'
    BY <1>1, <2>3 DEF Holds, LeftBehind
  <2> QED BY <2>2, <2>3 DEF ContentKept
<1>8. ContentExact'
  BY <1>1 DEF ContentExact, LeftBehind
<1> QED BY <1>4, <1>5, <1>7, <1>8

\* What a mutation renames away leaves the registry, and what it places enters it.
LEMMA CommitRegistry ==
  ASSUME NEW m \in Mutation, NEW s \in Collections, Admits(m, s)
  PROVE  LET registry == s.artifacts
             new == Applied(m, s).artifacts
             moved == UNION Renames(m, s)
             placed == m.kind \in {"add", "replace"}
         IN  /\ placed => /\ m.artifact \in DOMAIN new
                          /\ new[m.artifact] = [of |-> m.item, version |-> m.version]
             /\ \A a \in DOMAIN new :
                   \/ placed /\ a = m.artifact
                   \/ a \in DOMAIN registry /\ new[a] = registry[a] /\ <<registry[a].of, a>> \notin moved
             /\ \A a \in DOMAIN registry :
                   \/ <<registry[a].of, a>> \in moved
                   \/ a \in DOMAIN new /\ new[a] = registry[a] /\ ~(placed /\ a = m.artifact)
<1> DEFINE registry == s.artifacts
           new == Applied(m, s).artifacts
           moved == UNION Renames(m, s)
           placed == m.kind \in {"add", "replace"}
           key(a) == <<registry[a].of, a>>
<1>0. /\ DOMAIN s = Collection /\ registry \in Registry /\ m.item \in Item /\ m.artifact \in Artifact
      /\ DOMAIN registry \subseteq Artifact
      /\ m.kind \in {"create", "update", "delete", "remember", "forget", "add", "replace", "remove"}
  <2>1. registry \in Registry /\ DOMAIN s = Collection
    BY CollectionsAre DEF Collections
  <2> HIDE DEF registry
  <2>2. DOMAIN registry \subseteq Artifact
    BY <2>1 DEF Registry, Partial
  <2> QED BY <2>1, <2>2 DEF Mutation
<1> DEFINE Good == /\ placed => /\ m.artifact \in DOMAIN new
                                /\ new[m.artifact] = [of |-> m.item, version |-> m.version]
                   /\ \A a \in DOMAIN new :
                         \/ placed /\ a = m.artifact
                         \/ a \in DOMAIN registry /\ new[a] = registry[a] /\ key(a) \notin moved
                   /\ \A a \in DOMAIN registry :
                         \/ key(a) \in moved
                         \/ a \in DOMAIN new /\ new[a] = registry[a] /\ ~(placed /\ a = m.artifact)
<1>1. ASSUME m.kind \in {"create", "update", "remember", "forget"}
      PROVE  Good
  <2>1. new = registry /\ moved = {} /\ ~placed
    BY <1>0, <1>1 DEF Applied, Collection, Renames
  <2> HIDE DEF new, moved, placed, registry
  <2> QED BY <2>1
<1>2. ASSUME m.kind = "delete"
      PROVE  Good
  <2> DEFINE gone == DeleteSet(s.items, m.item)
  <2>1. new = Restrict(registry, {a \in DOMAIN registry : registry[a].of \notin gone}) /\ ~placed
    BY <1>2 DEF Applied, WithoutSubtree
  <2>2. moved = UNION {{i} \X Artifact : i \in gone}
    BY <1>2 DEF Renames
  <2> HIDE DEF new, moved, placed, registry, gone
  <2>3. \A a \in DOMAIN registry : key(a) \in moved <=> registry[a].of \in gone
    BY <1>0, <2>2
  <2>4. /\ DOMAIN new = {a \in DOMAIN registry : registry[a].of \notin gone}
        /\ \A a \in DOMAIN new : new[a] = registry[a]
    BY <2>1 DEF Restrict
  <2> QED BY <2>1, <2>3, <2>4
<1>3. ASSUME m.kind \in {"add", "replace"}
      PROVE  Good
  <2> DEFINE entry == [of |-> m.item, version |-> m.version]
  <2>1. new = Put(registry, m.artifact, entry) /\ placed
    BY <1>0, <1>3 DEF Applied, Collection
  <2>2. m.artifact \in DOMAIN registry => m.kind = "replace"
    BY <1>3 DEF Admits, MayAdd
  <2>3. moved = IF m.artifact \in DOMAIN registry THEN {key(m.artifact)} ELSE {}
    BY <1>3, <2>2 DEF Renames
  <2> HIDE DEF new, moved, placed, registry, entry
  <2>4. /\ DOMAIN new = DOMAIN registry \cup {m.artifact} /\ new[m.artifact] = entry
        /\ \A a \in DOMAIN registry : a # m.artifact => new[a] = registry[a]
    BY <2>1 DEF Put
  <2> QED BY <2>1, <2>3, <2>4 DEF entry
<1>4. ASSUME m.kind = "remove"
      PROVE  Good
  <2>1. new = Restrict(registry, DOMAIN registry \ {m.artifact}) /\ ~placed
    BY <1>0, <1>4 DEF Applied, Collection
  <2>2. m.artifact \in DOMAIN registry
    BY <1>4 DEF Admits
  <2>3. moved = {key(m.artifact)}
    BY <1>4, <2>2 DEF Renames
  <2> HIDE DEF new, moved, placed, registry
  <2>4. /\ DOMAIN new = DOMAIN registry \ {m.artifact}
        /\ \A a \in DOMAIN new : new[a] = registry[a]
    BY <2>1 DEF Restrict
  <2> QED BY <2>1, <2>3, <2>4
<1>5. Good
  BY <1>0, <1>1, <1>2, <1>3, <1>4
<1> QED BY <1>5

\* A writer moves what the store says it has to.
LEMMA RenamesOfStore ==
  ASSUME StoreInv, NEW w \in Writer, pc[w] = "write"
  PROVE  Renames(MutationOf[w], seen[w]) = Renames(MutationOf[w], Store)
<1> DEFINE m == MutationOf[w]
<1>1. need[w] = {} /\ m \in Mutation
  BY CallAssumption DEF StoreInv, RightPlaces
<1>2. \A c \in Loads(m) : seen[w][c] = Store[c]
  BY <1>1 DEF StoreInv, SawStore, Pending
<1> HIDE DEF m
<1>3. CASE m.kind = "delete"
  <2>1. seen[w].items = Store.items
    BY <1>2, <1>3 DEF Loads, Collection
  <2> QED BY <1>3, <2>1 DEF Renames, m
<1>4. CASE m.kind \in {"replace", "remove"}
  <2>1. seen[w].artifacts = Store.artifacts
    BY <1>2, <1>4 DEF Loads
  <2> QED BY <1>4, <2>1 DEF Renames, m
<1>5. CASE m.kind \notin {"delete", "replace", "remove"}
  BY <1>5 DEF Renames, m
<1> QED BY <1>3, <1>4, <1>5

\* The end of a commit makes the directories those of the new registry.
LEMMA FinalizeKeeps ==
  ASSUME ~Overlap, ~Suspend, StoreInv, StoreInv', ContentInv, DirectoriesTyped', [Next]_vars,
         NEW w \in Writer, Finalize(w)
  PROVE  MovedRight' /\ PlacedRight' /\ ContentKept' /\ ContentExact'
<1> DEFINE m == MutationOf[w]
           key == <<m.item, m.artifact>>
           registry == Store.artifacts
           new == Store'.artifacts
           moved == UNION Renames(m, seen[w])
           placed == m.kind \in {"add", "replace"}
<1>0. DirectoriesTyped /\ MovedRight /\ PlacedRight /\ ContentKept /\ ContentExact
  BY DEF ContentInv
<1>1. /\ pc[w] = "write" /\ after[w] = "begin" /\ pc'[w] = "discard" /\ after'[w] = "clean" /\ seen' = seen
      /\ dirs' = dirs /\ aside' = aside
      /\ \A v \in Writer \ {w} : pc'[v] = pc[v] /\ after'[v] = after[v]
      /\ \A v \in Writer : LeftBehind(v)' <=> LeftBehind(v)
  BY <1>0, ContentTypes DEF Finalize, Goto, content, LeftBehind
<1>2. MayUndo(w) /\ ~MayUndo(w)'
  BY <1>1 DEF MayUndo
<1>3. \A v \in Writer \ {w} : ~MayUndo(v) /\ ~MayUndo(v)' /\ pc[v] # "undo"
  BY <1>1, OthersRest DEF MayUndo
<1>4. MovedRight'
  BY <1>0, <1>1, <1>2, <1>3 DEF MovedRight
<1>5. PlacedRight'
  BY <1>2, <1>3 DEF PlacedRight
<1>6. Base = PutBack(w) /\ Base' = dirs
  <2>1. holder' \in Writer \cup {NoCall}
    BY DEF StoreInv, StoreTyped
  <2> QED BY <1>1, <1>2, <1>3, <2>1, OneMayUndo DEF Base
<1>7. /\ DOMAIN PutBack(w) = DOMAIN aside[w] \cup (DOMAIN dirs \ PlacedBy(w))
      /\ \A k \in DOMAIN PutBack(w) : PutBack(w)[k] = IF k \in DOMAIN aside[w] THEN aside[w][k] ELSE dirs[k]
      /\ dirs = [k \in DOMAIN dirs |-> dirs[k]]
  BY <1>0, PutBackIs, DirectoriesAre DEF DirectoriesTyped
<1>8. /\ DOMAIN aside[w] \subseteq moved /\ DOMAIN dirs \cap moved \subseteq PlacedBy(w)
      /\ PlacedBy(w) = IF placed THEN {key} ELSE {}
      /\ placed => key \in DOMAIN dirs /\ dirs[key] = m.version
  BY <1>0, <1>1, <1>2 DEF MovedRight, PlacedRight, PlacedBy, Places
<1>9. /\ Store \in Collections /\ m \in Mutation /\ Admits(m, Store) /\ Store' = Applied(m, Store)
      /\ Renames(m, seen[w]) = Renames(m, Store)
  <2>1. Atomic!Commit(w)
    BY FinalizeCommits
  <2>2. Admits(m, Store) /\ Store' = Applied(m, Store)
    BY <2>1, SameOperators DEF Atomic!Commit
  <2> QED BY <1>1, <2>2, CurrentTyped, CallAssumption, RenamesOfStore DEF StoreInv
<1>10. /\ placed => m.artifact \in DOMAIN new /\ new[m.artifact] = [of |-> m.item, version |-> m.version]
       /\ \A a \in DOMAIN new :
             \/ placed /\ a = m.artifact
             \/ a \in DOMAIN registry /\ new[a] = registry[a] /\ <<registry[a].of, a>> \notin moved
       /\ \A a \in DOMAIN registry :
             \/ <<registry[a].of, a>> \in moved
             \/ a \in DOMAIN new /\ new[a] = registry[a] /\ ~(placed /\ a = m.artifact)
  BY <1>9, CommitRegistry
<1>11. ContentKept /\ ((\A v \in Writer : ~LeftBehind(v)) => PutBack(w) = DirectoriesOf(registry))
  BY <1>0, <1>6 DEF ContentExact
<1>12. (\A v \in Writer : ~LeftBehind(v)') => \A v \in Writer : ~LeftBehind(v)
  BY <1>1
<1> HIDE DEF registry, new, moved, placed, m
<1>13. ContentKept'
  <2>1. SUFFICES ASSUME NEW a \in DOMAIN new
                 PROVE  \/ Holds(dirs, new, a)
                        \/ \E x \in Writer : LeftBehind(x)' /\ Holds(aside'[x], new, a)
    BY <1>6 DEF ContentKept, Holds, new
  <2>2. CASE placed /\ a = m.artifact
    BY <1>8, <1>10, <2>2 DEF Holds
  <2>3. CASE a \in DOMAIN registry /\ new[a] = registry[a] /\ <<registry[a].of, a>> \notin moved
    <3>1. CASE Holds(Base, registry, a)
      BY <1>6, <1>7, <1>8, <2>3, <3>1 DEF Holds
    <3>2. ASSUME NEW x \in Writer, LeftBehind(x), Holds(aside[x], registry, a)
          PROVE  LeftBehind(x)' /\ Holds(aside'[x], new, a)
      BY <1>1, <2>3, <3>2 DEF Holds
    <3> QED BY <1>11, <2>3, <3>1, <3>2 DEF ContentKept, registry
  <2> QED BY <1>10, <2>2, <2>3
<1>14. ContentExact'
  <2>1. SUFFICES ASSUME \A v \in Writer : ~LeftBehind(v)
                 PROVE  dirs = DirectoriesOf(new)
    BY <1>6, <1>12 DEF ContentExact, DirectoriesOf, new
  <2>2. /\ DOMAIN PutBack(w) = {<<registry[a].of, a>> : a \in DOMAIN registry}
        /\ \A k \in DOMAIN PutBack(w) : PutBack(w)[k] = registry[k[2]].version
    BY <1>11, <2>1 DEF DirectoriesOf
  <2>3. ASSUME NEW k \in DOMAIN dirs
        PROVE  \E a \in DOMAIN new : k = <<new[a].of, a>> /\ dirs[k] = new[a].version
    <3>1. CASE placed /\ k = key
      BY <1>8, <1>10, <3>1
    <3>2. CASE ~(placed /\ k = key)
      <4>1. k \notin moved /\ k \in DOMAIN PutBack(w) /\ PutBack(w)[k] = dirs[k]
        BY <1>7, <1>8, <3>2
      <4>2. PICK a \in DOMAIN registry : k = <<registry[a].of, a>>
        BY <2>2, <4>1
      <4>3. dirs[k] = registry[a].version
        BY <2>2, <4>1, <4>2
      <4> QED BY <1>10, <4>1, <4>2, <4>3
    <3> QED BY <3>1, <3>2
  <2>4. ASSUME NEW a \in DOMAIN new
        PROVE  <<new[a].of, a>> \in DOMAIN dirs
    <3>1. CASE placed /\ a = m.artifact
      BY <1>8, <1>10, <3>1
    <3>2. CASE a \in DOMAIN registry /\ new[a] = registry[a] /\ <<registry[a].of, a>> \notin moved
      BY <1>7, <1>8, <2>2, <3>2
    <3> QED BY <1>10, <3>1, <3>2
  <2>5. DOMAIN dirs = {<<new[a].of, a>> : a \in DOMAIN new}
    BY <2>3, <2>4
  <2>6. \A k \in DOMAIN dirs : dirs[k] = new[k[2]].version
    BY <2>3
  <2> QED BY <1>7, <2>5, <2>6 DEF DirectoriesOf
<1> QED BY <1>4, <1>5, <1>13, <1>14

\* Initially the directories are those of the registry.
LEMMA ContentInvInit == Init => ContentInv
<1> SUFFICES ASSUME Init
             PROVE  ContentInv
  OBVIOUS
<1>1. DirectoriesTyped
  BY DirectoriesTypedInit
<1>2. Store = Loaded(files)
  <2>1. Store = Loaded([c \in Collection |-> files[c]])
    BY DEF Store, Init
  <2>2. [c \in Collection |-> files[c]] = files
    BY FilesTyped DEF Init, Files
  <2> QED BY <2>1, <2>2
<1>3. dirs = DirectoriesOf(Store.artifacts) /\ Base = dirs
  BY <1>2 DEF Init, DirectoriesOf, Base
<1>4. \A w \in Writer : ~MayUndo(w) /\ pc[w] \in {"idle", "done"} /\ aside[w] = <<>>
  BY CallAssumption DEF Init, MayUndo, Call
<1>5. MovedRight /\ PlacedRight /\ ContentExact
  BY <1>3, <1>4 DEF MovedRight, PlacedRight, ContentExact
<1>6. ContentKept
  <2>1. ASSUME NEW a \in DOMAIN Store.artifacts
        PROVE  Holds(DirectoriesOf(Store.artifacts), Store.artifacts, a)
    BY DEF Holds, DirectoriesOf
  <2> QED BY <1>3, <2>1 DEF ContentKept
<1> QED BY <1>1, <1>5, <1>6 DEF ContentInv

\* Every step keeps it.
LEMMA ContentInvStep ==
  ASSUME ~Overlap, ~Suspend, StoreInv, ContentInv, [Next]_vars
  PROVE  ContentInv'
<1>1. StoreInv' /\ DirectoriesTyped'
  BY StoreInvStep, DirectoriesTypedStep DEF ContentInv
<1>2. DirectoriesTyped /\ MovedRight /\ PlacedRight /\ ContentKept /\ ContentExact
  BY DEF ContentInv
<1>3. CASE \E w \in Writer : Finalize(w)
  BY <1>1, <1>3, FinalizeKeeps DEF ContentInv
<1>4. CASE ~\E w \in Writer : Finalize(w)
  <2>1. Store' = Store
    BY <1>4, CurrentKept DEF Store, Current
  <2>2. CASE Quiet
    <3>1. MovedRight' /\ PlacedRight' /\ Base' = Base
      BY <1>1, <1>2, <2>2, QuietKeeps
    <3>2. \A x \in Writer : LeftBehind(x) => LeftBehind(x)' /\ aside'[x] = aside[x]
      BY <2>2 DEF Quiet, content
    <3> QED BY <1>1, <1>2, <2>1, <3>1, <3>2, SameBase DEF ContentInv
  <2>3. ASSUME NEW w \in Writer, MoveAside(w) \/ Place(w) \/ Undo(w) \/ Clean(w)
        PROVE  ContentInv'
    <3>1. MovedRight' /\ PlacedRight' /\ Base' = Base
      BY <1>1, <1>2, <2>3, MoveAsideKeeps, PlaceKeeps, UndoKeeps, CleanKeeps
    <3>2. \A x \in Writer : LeftBehind(x) => LeftBehind(x)' /\ aside'[x] = aside[x]
      <4>1. /\ pc[w] \in {"move", "undo", "clean"}
            /\ \A x \in Writer \ {w} : pc'[x] = pc[x] /\ aside'[x] = aside[x] /\ result'[x] = result[x]
        BY <1>2, <2>3, ContentTypes DEF MoveAside, Place, Undo, Clean, Goto, Return, StoreInv, Told
      <4>2. ~LeftBehind(w)
        BY <4>1 DEF LeftBehind, StoreInv, Told
      <4> QED BY <4>1, <4>2 DEF LeftBehind
    <3> QED BY <1>1, <1>2, <2>1, <3>1, <3>2, SameBase DEF ContentInv
  <2>4. ASSUME NEW w \in Writer, Crash(w)
        PROVE  ContentInv'
    BY <1>1, <1>2, <2>1, <2>4, CrashKeeps DEF ContentInv
  <2>5. ASSUME NEW w \in Writer, UndoFails(w)
        PROVE  ContentInv'
    BY <1>1, <1>2, <2>1, <2>5, UndoFailsKeeps DEF ContentInv
  <2> QED BY <1>4, <2>2, <2>3, <2>4, <2>5, QuietOrLoud DEF Loud
<1> QED BY <1>3, <1>4

\* If recoveries do not overlap and no live commit looks stale, no crash, failed step or
\* failed rollback loses the content of a registered artifact, and between mutations none
\* of which crashed or failed to roll back the directories are exactly those of the registry: the renames of Delete, AddArtifact
\* and RemoveArtifact are undone when the commit fails, and stand when it does not
\* (internal/workspace/store.go, artifact.go).
THEOREM WorkspaceArtifactsSurvive ==
  ASSUME ~Overlap, ~Suspend
  PROVE  Spec => []ArtifactContentSurvives
<1>1. StoreInv /\ ContentInv => ArtifactContentSurvives
  <2>1. SUFFICES ASSUME StoreInv, ContentInv
                 PROVE  ArtifactContentSurvives
    OBVIOUS
  <2>2. DirectoriesTyped /\ ContentKept /\ ContentExact
    BY <2>1 DEF ContentInv
  <2>3. /\ Range(aside) = {aside[x] : x \in Writer}
        /\ holder \in Writer \cup {NoCall}
    BY <2>1, <2>2 DEF DirectoriesTyped, Range, StoreInv, StoreTyped
  <2>4. ASSUME NEW a \in DOMAIN Store.artifacts
        PROVE  \E d \in {dirs} \cup Range(aside) : Holds(d, Store.artifacts, a)
    <3>1. CASE Holds(Base, Store.artifacts, a)
      <4>1. CASE holder # NoCall /\ MayUndo(holder)
        <5>1. /\ DOMAIN PutBack(holder) = DOMAIN aside[holder] \cup (DOMAIN dirs \ PlacedBy(holder))
              /\ \A k \in DOMAIN PutBack(holder) :
                    PutBack(holder)[k] = IF k \in DOMAIN aside[holder] THEN aside[holder][k] ELSE dirs[k]
          BY <2>2, <2>3, <4>1, PutBackIs
        <5>2. Holds(aside[holder], Store.artifacts, a) \/ Holds(dirs, Store.artifacts, a)
          BY <3>1, <4>1, <5>1 DEF Holds, Base
        <5> QED BY <2>3, <4>1, <5>2
      <4>2. CASE ~(holder # NoCall /\ MayUndo(holder))
        BY <3>1, <4>2 DEF Base
      <4> QED BY <4>1, <4>2
    <3>2. CASE \E x \in Writer : Holds(aside[x], Store.artifacts, a)
      BY <2>3, <3>2
    <3> QED BY <2>2, <3>1, <3>2 DEF ContentKept
  <2>5. holder = NoCall /\ (\A w \in Writer : ~LeftBehind(w)) => dirs = DirectoriesOf(Store.artifacts)
    BY <2>2 DEF ContentExact, Base
  <2> QED BY <2>4, <2>5 DEF ArtifactContentSurvives, Holds, DirectoriesOf
<1>2. StoreInv /\ ContentInv /\ [Next]_vars => StoreInv' /\ ContentInv'
  BY StoreInvStep, ContentInvStep
<1> QED BY <1>1, <1>2, StoreInvInit, ContentInvInit, PTL DEF Spec

-----------------------------------------------------------------------------
(* What a caller is told.                                                   *)

\* A mutation that could not remove its pointer has written all its files.
Unfinalized == \A w \in Writer : result[w] = "unfinalized" /\ pc[w] \in {"undo", "close"} =>
    /\ pointer = w
    /\ \A c \in Commits(MutationOf[w]) : files[c] = Applied(MutationOf[w], seen[w])[c]

\* It was told so before, or it is now.
HeardBefore(w) ==
    result'[w] = "unfinalized" /\ pc'[w] \in {"undo", "close"} =>
        \/ FinalizeFails(w)
        \/ result[w] = "unfinalized" /\ pc[w] \in {"undo", "close"} /\ seen'[w] = seen[w]

\* This is so of every step.
LEMMA ToldUnfinalized ==
  ASSUME Told, StoreTyped, RightPlaces, [Next]_vars
  PROVE  \A w \in Writer : HeardBefore(w)
<1> USE CallAssumption DEF Call, Goto, Return, Fail, Forget, Told, Labels, StoreTyped, HeardBefore
<1> DEFINE Heard == \A w \in Writer : HeardBefore(w)
<1>1. ASSUME NEW r \in Reader, BeginRead(r)
      PROVE  Heard
  BY <1>1 DEF BeginRead, work
<1>2. ASSUME NEW w \in Writer, BeginWrite(w)
      PROVE  Heard
  BY <1>2 DEF BeginWrite, work
<1>3. ASSUME NEW w \in Writer, Judge(w)
      PROVE  Heard
  BY <1>3 DEF Judge, work
<1>4. ASSUME NEW w \in Writer, MoveAside(w) \/ Place(w) \/ MoveFails(w)
      PROVE  Heard
  BY <1>4 DEF MoveAside, Place, MoveFails, work
<1>5. ASSUME NEW w \in Writer, Undo(w) \/ UndoFails(w)
      PROVE  Heard
  BY <1>5 DEF Undo, UndoFails, work
<1>6. ASSUME NEW w \in Writer, Publish(w) \/ PublishFails(w)
      PROVE  Heard
  BY <1>6 DEF Publish, PublishFails, work
<1>7. ASSUME NEW w \in Writer, WriteFile(w) \/ WriteFails(w)
      PROVE  Heard
  BY <1>7 DEF WriteFile, WriteFails, work
<1>8. ASSUME NEW w \in Writer, Finalize(w) \/ FinalizeFails(w)
      PROVE  Heard
  BY <1>8 DEF Finalize, FinalizeFails, work
<1>9. ASSUME NEW w \in Writer, Clean(w) \/ Close(w)
      PROVE  Heard
  BY <1>9 DEF Clean, Close, Answer, work
<1>10. ASSUME NEW p \in Call, Clear(p) \/ Refused(p) \/ Recover(p)
       PROVE  Heard
  BY <1>10 DEF Clear, Refused, Recover, work
<1>11. ASSUME NEW p \in Call, Read(p)
       PROVE  Heard
  BY <1>11 DEF Read, work
<1>12. ASSUME NEW p \in Call, RestoreFile(p) \/ Restored(p) \/ RestoreGivesUp(p) \/ Discard(p)
       PROVE  Heard
  BY <1>12 DEF RestoreFile, Restored, RestoreGivesUp, Discard, work
<1>13. ASSUME NEW p \in Call, Crash(p)
       PROVE  Heard
  BY <1>13 DEF Crash, work
<1>14. CASE (\E t \in Writer : Age(t)) \/ UNCHANGED vars
  BY <1>14 DEF Age, work, vars
<1> QED
  BY <1>1, <1>2, <1>3, <1>4, <1>5, <1>6, <1>7, <1>8, <1>9, <1>10, <1>11, <1>12, <1>13, <1>14
  DEF Next, Load, Restore, Move, Commit

\* Every step keeps the files of such a mutation as it has written them.
LEMMA UnfinalizedStep ==
  ASSUME ~Suspend, StoreInv, Unfinalized, [Next]_vars
  PROVE  Unfinalized'
<1>1. /\ pc \in [Call -> Labels] /\ after \in [Call -> {"read", "begin", "undo", "clean"}]
      /\ left \in [Call -> SUBSET Collection] /\ bad \in [Call -> BOOLEAN]
      /\ Told /\ StoreTyped /\ RightPlaces /\ Writer \subseteq Call
  BY DEF StoreInv, Told, StoreTyped, Call
<1>2. SUFFICES ASSUME NEW w \in Writer, result'[w] = "unfinalized", pc'[w] \in {"undo", "close"}
               PROVE  /\ pointer' = w
                      /\ \A c \in Commits(MutationOf[w]) : files'[c] = Applied(MutationOf[w], seen'[w])[c]
  BY DEF Unfinalized
<1>3. CASE FinalizeFails(w)
  <2>1. pc[w] = "write" /\ left[w] = {} /\ UNCHANGED <<files, pointer, seen>>
    BY <1>3 DEF FinalizeFails, tx
  <2> QED BY <2>1 DEF StoreInv, WritesActive, WritesRight
<1>4. CASE result[w] = "unfinalized" /\ pc[w] \in {"undo", "close"} /\ seen'[w] = seen[w]
  <2>1. pointer = w /\ \A c \in Commits(MutationOf[w]) : files[c] = Applied(MutationOf[w], seen[w])[c]
    BY <1>4 DEF Unfinalized
  <2>2. pointer \notin aged
    BY <1>4, <2>1 DEF StoreInv, AgedOver
  <2>3. \A p \in Call : pc[p] # "restore"
    BY <1>4, <2>1, <2>2 DEF StoreInv, RestoresActive
  <2>4. ~Restoring
    BY <2>2, <2>3 DEF Restoring, Recover, RestoreFile, Restored, Recoverable
  <2>5. ~Writing
    <3>1. holder = w
      BY <1>4 DEF StoreInv, OneWriter
    <3>2. ASSUME NEW v \in Writer, pc[v] \in {"begin", "write"}
          PROVE  FALSE
      BY <1>4, <3>1, <3>2 DEF StoreInv, OneWriter
    <3> QED BY <3>2 DEF Writing, Publish, WriteFile, WriteFails, Finalize
  <2>6. Elsewhere
    BY <1>1, <2>4, <2>5, StepsMatter DEF StoreTyped
  <2> QED BY <1>4, <2>1, <2>6 DEF Elsewhere
<1> QED BY <1>1, <1>2, <1>3, <1>4, ToldUnfinalized DEF HeardBefore

\* If recoveries do not overlap and no live commit looks stale, a mutation that reports an
\* error has not taken effect and one that reports success has, also when directories could
\* not be removed or a recovery was in the way; and one whose error says that the workspace
\* state is committed finds all its files written when it answers, in a transaction that
\* is still to be rolled back (internal/workspace/transaction.go, commitCollections).
THEOREM WorkspaceAnswers ==
  ASSUME ~Overlap, ~Suspend
  PROVE  Spec => []AnswerTellsOutcome
<1>1. StoreInv /\ Unfinalized => AnswerTellsOutcome
  BY DEF StoreInv, Told, Unfinalized, AnswerTellsOutcome
<1>2. Init => Unfinalized
  BY DEF Init, Unfinalized
<1>3. StoreInv /\ Unfinalized /\ [Next]_vars => StoreInv' /\ Unfinalized'
  BY StoreInvStep, UnfinalizedStep
<1> QED BY <1>1, <1>2, <1>3, StoreInvInit, PTL DEF Spec
=============================================================================
