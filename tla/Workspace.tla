------------------------------ MODULE Workspace -----------------------------
(***************************************************************************)
(* The transactions of internal/workspace: loads that recover what an      *)
(* interrupted commit left, the multi-file commit with its snapshot        *)
(* journal and active pointer, and the artifact directories that Delete,   *)
(* AddArtifact and RemoveArtifact move around it.                          *)
(*                                                                         *)
(* Writers run under the mutation lease (withFabricLease), one after the   *)
(* other; readers take no lease.  A step is one file-system operation.     *)
(* Calls crash between two steps and steps fail, MaxMishaps times in all.  *)
(***************************************************************************)
EXTENDS WorkspaceOps

CONSTANTS
    Writer, MutationOf,     \* the mutating calls, each made at most once
    Reader,                 \* callers that read a collection again and again
    NoCall, NoFile,
    Meetings,               \* sets of writers that meet in one behaviour
    InitialFiles,           \* the collection files at the start
    MaxMishaps,             \* bound on crashes and failed steps
    Overlap,                \* may two calls recover at the same time?
    Suspend                 \* may a live commit outlast workspaceTransactionStaleAfter?

Call == Writer \cup Reader

ASSUME CallAssumption ==
    /\ MutationOf \in [Writer -> Mutation]
    /\ Writer \cap Reader = {} /\ NoCall \notin Call
    /\ Meetings \subseteq SUBSET Writer
    /\ MaxMishaps \in Nat /\ Overlap \in BOOLEAN /\ Suspend \in BOOLEAN

ASSUME FilesAssumption ==
    /\ NoFile \notin Hierarchy /\ NoFile \notin Registry /\ \A memory \in SUBSET Item : NoFile # memory
    /\ InitialFiles \subseteq [items : Hierarchy \cup {NoFile}, memory : (SUBSET Item) \cup {NoFile},
                             artifacts : Registry \cup {NoFile}]

VARIABLES
    files,      \* workspaces.json, memory.json, artifacts.json
    pointer,    \* active-transaction.json: the call whose transaction is active
    journal,    \* the snapshots of each call's transaction
    txDirs,     \* the transactions whose directory exists
    aged,       \* those older than workspaceTransactionStaleAfter
    dirs,       \* artifact directories: content by workspace and artifact
    aside,      \* directories each call has moved to a backup name
    holder,     \* the holder of the mutation lease
    pc, after,  \* where each call is, and where a recovery returns to
    seen,       \* the collections a call has loaded
    need,       \* collections a call has still to load
    left,       \* collections a call has still to write or restore
    txn,        \* the transaction a call restores or discards
    bad,        \* has a restoration failed in part?
    result,     \* what each mutating call returned
    committed,  \* history: the calls that removed their pointer
    mishaps     \* crashes and failures so far

tx == <<pointer, journal, txDirs>>
content == <<dirs, aside>>
work == <<after, left, txn, bad>>
vars == <<files, tx, aged, content, holder, pc, work, seen, need, result, committed, mishaps>>

\* Artifact directories, in place or moved: content by workspace and artifact.
Directories == Partial((Item \ Folder) \X Artifact, Version)
Joined(f, g) == [x \in DOMAIN f \cup DOMAIN g |-> IF x \in DOMAIN f THEN f[x] ELSE g[x]]

Empty == [items |-> [i \in {} |-> Top], memory |-> {}, artifacts |-> [a \in {} |-> Top]]
Loaded(f) == [c \in Collection |-> IF f[c] = NoFile THEN Empty[c] ELSE f[c]]

\* The service has loaded the files it starts from before.
ASSUME LoadableAssumption == \A f \in InitialFiles : ValidItems(Loaded(f).items)

\* Loads and commits go through the collections in this order.
First(S) == CHOOSE c \in S : \A d \in S : c = d \/ c = "items" \/ d = "artifacts"

Init ==
    /\ files \in InitialFiles
    /\ pointer = NoCall /\ txDirs = {} /\ aged = {}
    /\ journal = [w \in Writer |-> <<>>]
    /\ dirs = LET registry == Loaded(files).artifacts
              IN  [k \in {<<registry[a].of, a>> : a \in DOMAIN registry} |-> registry[k[2]].version]
    /\ aside = [w \in Writer |-> <<>>]
    /\ holder = NoCall
    /\ \E met \in Meetings :
          pc = [p \in Call |-> IF p \in Reader \cup met THEN "idle" ELSE "done"]
    /\ after = [p \in Call |-> "read"]
    /\ seen = [p \in Call |-> Empty]
    /\ need = [p \in Call |-> {}] /\ left = [p \in Call |-> {}]
    /\ txn = [p \in Call |-> NoCall]
    /\ bad = [p \in Call |-> FALSE]
    /\ result = [w \in Writer |-> "none"]
    /\ committed = {} /\ mishaps = 0

\* The local variables of a call end with it.
Forget(p) ==
    /\ after' = [after EXCEPT ![p] = "read"] /\ seen' = [seen EXCEPT ![p] = Empty]
    /\ need' = [need EXCEPT ![p] = {}] /\ left' = [left EXCEPT ![p] = {}]
    /\ txn' = [txn EXCEPT ![p] = NoCall] /\ bad' = [bad EXCEPT ![p] = FALSE]

Goto(p, label) == pc' = [pc EXCEPT ![p] = label]
Return(w, answer) == Goto(w, "close") /\ result' = [result EXCEPT ![w] = answer]

\* Where an error leads: a reader returns it; a writer returns it, but one that
\* is past its loads first undoes its moves.
Fail(p) ==
    \/ p \in Reader /\ Goto(p, "idle") /\ UNCHANGED result
    \/ p \in Writer /\ after[p] = "read" /\ Return(p, "failed")
    \/ p \in Writer /\ after[p] # "read" /\ Goto(p, "undo") /\ UNCHANGED result

\* A step that fails; a behaviour has at most MaxMishaps of them.
Mishap == mishaps < MaxMishaps /\ mishaps' = mishaps + 1

-----------------------------------------------------------------------------
(* Loading a collection: recoverPendingTransaction, then the file *)

BeginWrite(w) ==
    /\ pc[w] = "idle" /\ holder = NoCall
    /\ holder' = w
    /\ need' = [need EXCEPT ![w] = Loads(MutationOf[w])]
    /\ Goto(w, "check")
    /\ UNCHANGED <<files, tx, aged, content, work, seen, result, committed, mishaps>>

BeginRead(r) ==
    /\ pc[r] = "idle"
    /\ \E c \in Collection : need' = [need EXCEPT ![r] = {c}]
    /\ Goto(r, "check")
    /\ UNCHANGED <<files, tx, aged, content, holder, work, seen, result, committed, mishaps>>

\* No transaction is active; cleanupOrphanTransactions removes old directories.
Clear(p) ==
    /\ pc[p] = "check" /\ pointer = NoCall
    /\ txDirs' = txDirs \ aged
    /\ Goto(p, after[p])
    /\ UNCHANGED <<files, pointer, journal, aged, content, holder, work, seen, need, result,
                   committed, mishaps>>

\* Recoverable without the age of the pointer: recovery is forced.
Forced == pointer \in txDirs

Recoverable == pointer \in aged /\ pointer \in txDirs

\* The active transaction is fresh, or its journal is gone.
Refused(p) ==
    /\ pc[p] = "check" /\ pointer # NoCall /\ ~Recoverable
    /\ Fail(p)
    /\ need' = [need EXCEPT ![p] = {}]
    /\ UNCHANGED <<files, tx, aged, content, holder, work, seen, committed, mishaps>>

Recovering(p) == pc[p] \in {"restore", "discard"} /\ after[p] \in {"read", "begin"}

Recover(p) ==
    /\ pc[p] = "check" /\ pointer # NoCall /\ Recoverable
    /\ Overlap \/ \A q \in Call : ~Recovering(q)
    /\ txn' = [txn EXCEPT ![p] = pointer]
    /\ left' = [left EXCEPT ![p] = DOMAIN journal[pointer]]
    /\ bad' = [bad EXCEPT ![p] = FALSE]
    /\ Goto(p, "restore")
    /\ UNCHANGED <<files, tx, aged, content, holder, after, seen, need, result, committed, mishaps>>

Read(p) ==
    /\ pc[p] = "read"
    /\ LET c == First(need[p]) IN
          /\ seen' = IF p \in Reader THEN seen ELSE [seen EXCEPT ![p][c] = Loaded(files)[c]]
          /\ need' = [need EXCEPT ![p] = @ \ {c}]
          /\ IF c = "items" /\ ~ValidItems(Loaded(files).items) THEN Fail(p)
             ELSE /\ Goto(p, IF need'[p] # {} THEN "check" ELSE IF p \in Reader THEN "idle" ELSE "judge")
                  /\ UNCHANGED result
    /\ UNCHANGED <<files, tx, aged, content, holder, work, committed, mishaps>>

-----------------------------------------------------------------------------
(* restoreTransaction: by a recovery, and by a commit that fails *)

\* A snapshot of an absent file needs no backup: the file is removed.
RestoreFile(p) ==
    /\ pc[p] = "restore" /\ left[p] # {}
    /\ LET c == First(left[p])
           snapshot == journal[txn[p]][c]
       IN  /\ left' = [left EXCEPT ![p] = @ \ {c}]
           /\ \/ /\ snapshot = NoFile \/ txn[p] \in txDirs
                 /\ files' = [files EXCEPT ![c] = snapshot]
                 /\ UNCHANGED <<bad, mishaps>>
              \/ /\ IF snapshot # NoFile /\ txn[p] \notin txDirs THEN UNCHANGED mishaps ELSE Mishap
                 /\ bad' = [bad EXCEPT ![p] = TRUE]
                 /\ UNCHANGED files
    /\ UNCHANGED <<tx, aged, content, holder, pc, after, txn, seen, need, result, committed>>

\* Restored with finalize FALSE: the pointer stays.
RestoredOnly(p) ==
    /\ pc[p] = "restore" /\ left[p] = {} /\ ~bad[p]
    /\ Goto(p, "discard")
    /\ UNCHANGED <<files, tx, aged, content, holder, work, seen, need, result, committed, mishaps>>

Restored(p) ==
    /\ pc[p] = "restore" /\ left[p] = {} /\ ~bad[p]
    /\ pointer' = NoCall
    /\ Goto(p, "discard")
    /\ UNCHANGED <<files, journal, txDirs, aged, content, holder, work, seen, need, result,
                   committed, mishaps>>

\* An incomplete restoration leaves the pointer for a later one.
RestoreGivesUp(p) ==
    /\ pc[p] = "restore" /\ left[p] = {}
    /\ IF bad[p] THEN UNCHANGED mishaps ELSE Mishap
    /\ Fail(p)
    /\ txn' = [txn EXCEPT ![p] = NoCall] /\ bad' = [bad EXCEPT ![p] = FALSE]
    /\ need' = [need EXCEPT ![p] = {}]
    /\ UNCHANGED <<files, tx, aged, content, holder, after, left, seen, committed>>

Discard(p) ==
    /\ pc[p] = "discard"
    /\ txDirs' = (txDirs \ {txn[p]}) \ IF after[p] = "clean" THEN aged \ {pointer} ELSE {}
    /\ Goto(p, after[p])
    /\ txn' = [txn EXCEPT ![p] = NoCall]
    /\ UNCHANGED <<files, pointer, journal, aged, content, holder, after, left, bad, seen, need,
                   result, committed, mishaps>>

-----------------------------------------------------------------------------
(* The artifact directories of Delete, AddArtifact and RemoveArtifact *)

\* Delete and RemoveArtifact of something absent succeed without a change.
Judge(w) ==
    /\ pc[w] = "judge"
    /\ LET m == MutationOf[w] IN
       IF Admits(m, seen[w]) THEN Goto(w, "move") /\ UNCHANGED result
       ELSE Return(w, IF m.kind \in {"delete", "remove"} THEN "unchanged" ELSE "failed")
    /\ UNCHANGED <<files, tx, aged, content, holder, work, seen, need, committed, mishaps>>

\* The directories a mutation renames, as sets of one rename each.
Renames(m, s) ==
    CASE m.kind = "delete" -> {{i} \X Artifact : i \in DeleteSet(s.items, m.item)}
      [] m.kind \in {"replace", "remove"} /\ m.artifact \in DOMAIN s.artifacts ->
            {{<<s.artifacts[m.artifact].of, m.artifact>>}}
      [] OTHER -> {}

ToMove(w) == {k \cap DOMAIN dirs : k \in Renames(MutationOf[w], seen[w])} \ {{}}

Places(w) == MutationOf[w].kind \in {"add", "replace"}

\* AddArtifact, unlike RemoveArtifact, needs the directory it replaces.
Missing(w) ==
    /\ MutationOf[w].kind = "replace"
    /\ Renames(MutationOf[w], seen[w]) # {} /\ aside[w] = <<>> /\ ToMove(w) = {}

MoveAside(w) ==
    /\ pc[w] = "move"
    /\ \E k \in ToMove(w) :
          /\ aside' = [aside EXCEPT ![w] = Joined(Restrict(dirs, k), @)]
          /\ dirs' = Restrict(dirs, DOMAIN dirs \ k)
    /\ UNCHANGED <<files, tx, aged, holder, pc, work, seen, need, result, committed, mishaps>>

\* Everything is aside; AddArtifact renames its staged directory into place.
Place(w) ==
    /\ pc[w] = "move" /\ ToMove(w) = {} /\ ~Missing(w)
    /\ LET m == MutationOf[w] IN
       IF Places(w) THEN /\ <<m.item, m.artifact>> \notin DOMAIN dirs
                         /\ dirs' = Put(dirs, <<m.item, m.artifact>>, m.version)
       ELSE UNCHANGED dirs
    /\ after' = [after EXCEPT ![w] = "begin"]
    /\ Goto(w, "check")
    /\ UNCHANGED <<files, tx, aged, aside, holder, left, txn, bad, seen, need, result,
                   committed, mishaps>>

MoveFails(w) ==
    /\ pc[w] = "move"
    /\ LET m == MutationOf[w] IN
       IF Missing(w) \/ (ToMove(w) = {} /\ Places(w) /\ <<m.item, m.artifact>> \in DOMAIN dirs)
       THEN UNCHANGED mishaps
       ELSE Mishap /\ (Places(w) \/ ToMove(w) # {})
    /\ Goto(w, "undo")
    /\ UNCHANGED <<files, tx, aged, content, holder, work, seen, need, result, committed>>

\* The directory that a failing AddArtifact has to remove again.
PlacedBy(w) ==
    IF Places(w) /\ after[w] # "read" THEN {<<MutationOf[w].item, MutationOf[w].artifact>>} ELSE {}

\* PutBack without the renames back.
NothingBack(w) == Restrict(dirs, DOMAIN dirs \ PlacedBy(w))

PutBack(w) == Joined(aside[w], Restrict(dirs, DOMAIN dirs \ PlacedBy(w)))

\* The rollback of the directories: rollbackDirs in Delete, rollback in
\* AddArtifact, the rename back in RemoveArtifact.
Undo(w) ==
    /\ pc[w] = "undo"
    /\ dirs' = PutBack(w)
    /\ aside' = [aside EXCEPT ![w] = <<>>]
    /\ Return(w, IF result[w] = "none" THEN "failed" ELSE result[w])
    /\ UNCHANGED <<files, tx, aged, holder, work, seen, need, committed, mishaps>>

\* The directories that the call has moved from the workspaces in items.
AsideOf(w, items) == DOMAIN aside[w] \cap (items \X Artifact)

\* Some of these renames fail, or the removal of the placed directory does, and
\* the others are made: the error is joined to the one that is returned.
UndoFails(w) ==
    /\ pc[w] = "undo" /\ Mishap
    /\ \E items \in SUBSET Item, gone \in SUBSET PlacedBy(w) :
          LET stays == AsideOf(w, items)
              back == DOMAIN aside[w] \ stays
          IN  /\ stays # {} \/ gone # PlacedBy(w)
              /\ back \cap PlacedBy(w) \subseteq gone
              /\ dirs' = Joined(Restrict(aside[w], back), Restrict(dirs, DOMAIN dirs \ gone))
              /\ aside' = [aside EXCEPT ![w] = Restrict(@, stays)]
    /\ Return(w, "stranded")
    /\ UNCHANGED <<files, tx, aged, holder, work, seen, need, committed>>

-----------------------------------------------------------------------------
(* commitCollections, after its own recovery check *)

\* Snapshots of the files that exist only.
PresentSnapshots(w) == Restrict(files, {c \in Commits(MutationOf[w]) : files[c] # NoFile})

Snapshots(w) == Restrict(files, Commits(MutationOf[w]))

\* beginTransaction: the snapshots, the journal and then the pointer.
Publish(w) ==
    /\ pc[w] = "begin"
    /\ journal' = [journal EXCEPT ![w] = Snapshots(w)]
    /\ txDirs' = txDirs \cup {w}
    /\ pointer' = w
    /\ left' = [left EXCEPT ![w] = Commits(MutationOf[w])]
    /\ Goto(w, "write")
    /\ UNCHANGED <<files, aged, content, holder, after, txn, bad, seen, need, result, committed,
                   mishaps>>

PublishFails(w) ==
    /\ pc[w] = "begin" /\ Mishap
    /\ Fail(w)
    /\ UNCHANGED <<files, tx, aged, content, holder, work, seen, need, committed>>

Written(w, c) == [files EXCEPT ![c] = Applied(MutationOf[w], seen[w])[c]]

WriteFile(w) ==
    /\ pc[w] = "write" /\ left[w] # {}
    /\ files' = Written(w, First(left[w]))
    /\ left' = [left EXCEPT ![w] = @ \ {First(@)}]
    /\ UNCHANGED <<tx, aged, content, holder, pc, after, txn, bad, seen, need, result, committed,
                   mishaps>>

\* safefile.Replace may fail before or after the new file is in place.
WriteFails(w) ==
    /\ pc[w] = "write" /\ left[w] # {} /\ Mishap
    /\ files' \in {files, Written(w, First(left[w]))}
    /\ after' = [after EXCEPT ![w] = "undo"]
    /\ txn' = [txn EXCEPT ![w] = w]
    /\ left' = [left EXCEPT ![w] = DOMAIN journal[w]]
    /\ bad' = [bad EXCEPT ![w] = FALSE]
    /\ Goto(w, "restore")
    /\ UNCHANGED <<tx, aged, content, holder, seen, need, result, committed>>

\* The removal of the pointer is the commit.
Finalize(w) ==
    /\ pc[w] = "write" /\ left[w] = {}
    /\ pointer' = NoCall
    /\ committed' = committed \cup {w}
    /\ after' = [after EXCEPT ![w] = "clean"]
    /\ txn' = [txn EXCEPT ![w] = w]
    /\ Goto(w, "discard")
    /\ UNCHANGED <<files, journal, txDirs, aged, content, holder, left, bad, seen, need, result,
                   mishaps>>

\* The pointer stays: the files will be restored when it is stale, although the
\* error says "workspace state committed but transaction finalization failed".
FinalizeFails(w) ==
    /\ pc[w] = "write" /\ left[w] = {} /\ Mishap
    /\ Goto(w, "undo")
    /\ result' = [result EXCEPT ![w] = "unfinalized"]
    /\ UNCHANGED <<files, tx, aged, content, holder, work, seen, need, committed>>

\* Answer with the error of the cleanup joined to the result.
StrictAnswer(removed) == IF removed THEN "ok" ELSE "failed"

Answer(removed) == "ok"

\* The removal of the moved directories may be deferred for ever.
Clean(w) ==
    /\ pc[w] = "clean"
    /\ \E removed \in BOOLEAN :
          /\ aside' = [aside EXCEPT ![w] = IF removed THEN <<>> ELSE @]
          /\ Return(w, Answer(removed))
    /\ UNCHANGED <<files, tx, aged, dirs, holder, work, seen, need, committed, mishaps>>

Close(w) ==
    /\ pc[w] = "close"
    /\ holder' = NoCall
    /\ Goto(w, "done") /\ Forget(w)
    /\ UNCHANGED <<files, tx, aged, content, result, committed, mishaps>>

-----------------------------------------------------------------------------
(* The environment *)

\* Half an hour passes; only a suspended commit lives that long.
Age(t) ==
    /\ t \in txDirs \ aged
    /\ Suspend \/ pc[t] \in {"done", "crashed"}
    /\ aged' = aged \cup {t}
    /\ UNCHANGED <<files, tx, content, holder, pc, work, seen, need, result, committed, mishaps>>

\* A crash frees the lease for the next caller.  A crashed reader is run again.
Crash(p) ==
    /\ pc[p] \notin {"idle", "done", "crashed"} /\ Mishap
    /\ Goto(p, IF p \in Reader THEN "idle" ELSE "crashed")
    /\ holder' = IF holder = p THEN NoCall ELSE holder
    /\ Forget(p)
    /\ UNCHANGED <<files, tx, aged, content, result, committed>>

Load(p) == Clear(p) \/ Refused(p) \/ Recover(p) \/ Read(p)
Restore(p) == RestoreFile(p) \/ Restored(p) \/ RestoreGivesUp(p) \/ Discard(p)
Move(w) == Judge(w) \/ MoveAside(w) \/ Place(w) \/ MoveFails(w) \/ Undo(w) \/ UndoFails(w)
Commit(w) ==
    \/ Publish(w) \/ PublishFails(w) \/ WriteFile(w) \/ WriteFails(w)
    \/ Finalize(w) \/ FinalizeFails(w) \/ Clean(w) \/ Close(w)

Next ==
    \/ \E r \in Reader : BeginRead(r)
    \/ \E w \in Writer : BeginWrite(w) \/ Move(w) \/ Commit(w)
    \/ \E p \in Call : Load(p) \/ Restore(p) \/ Crash(p)
    \/ \E t \in Writer : Age(t)

\* Calls run on, readers come again, and time passes.
Fairness ==
    /\ \A r \in Reader : WF_vars(BeginRead(r))
    /\ \A w \in Writer : WF_vars(Move(w) \/ Commit(w)) /\ WF_vars(Age(w))
    /\ \A p \in Call : WF_vars(Load(p) \/ Restore(p))

Spec == Init /\ [][Next]_vars /\ Fairness

-----------------------------------------------------------------------------
(* Properties *)

\* The variables keep their types; the pointer is published after the journal
\* of its transaction, which holds a snapshot of every file it writes.
TypeOK ==
    /\ files \in [items : Hierarchy \cup {NoFile}, memory : (SUBSET Item) \cup {NoFile},
                  artifacts : Registry \cup {NoFile}]
    /\ pointer \in Writer \cup {NoCall}
    /\ pointer # NoCall => DOMAIN journal[pointer] = Commits(MutationOf[pointer])
    /\ txDirs \subseteq Writer /\ aged \subseteq Writer
    /\ dirs \in Directories
    /\ \A w \in Writer : aside[w] \in Directories
    /\ holder \in Writer \cup {NoCall}
    /\ pc \in [Call -> {"idle", "check", "restore", "discard", "read", "judge", "move", "undo",
                        "begin", "write", "clean", "close", "done", "crashed"}]
    /\ after \in [Call -> {"read", "begin", "undo", "clean"}]
    /\ \A p \in Call : need[p] \subseteq Collection /\ left[p] \subseteq Collection
    /\ txn \in [Call -> Writer \cup {NoCall}] /\ bad \in [Call -> BOOLEAN]
    /\ result \in [Writer -> {"none", "ok", "unchanged", "failed", "unfinalized", "stranded"}]
    /\ committed \subseteq Writer /\ mishaps \in 0 .. MaxMishaps

\* What the store holds: while a transaction is active its snapshots count,
\* and the files it has written do not.
Store == Loaded([c \in Collection |->
    IF pointer # NoCall /\ c \in DOMAIN journal[pointer] THEN journal[pointer][c] ELSE files[c]])

Atomic == INSTANCE AtomicStore WITH store <- Store

\* Through crashes, failed writes, failed rollbacks and recoveries by readers
\* every mutation takes effect as a whole, on what its predecessor left, or
\* not at all.
ImplementsAtomicStore == Atomic!Spec

\* Whatever is committed can be loaded again: validateLoadedItems accepts it,
\* and with it every later operation on the hierarchy.
StoreLoads == ValidItems(Store.items)

\* Has the call left directories where it had moved them?
LeftBehind(w) == pc[w] = "crashed" \/ result[w] = "stranded"

\* No crash or failure loses the content of a registered artifact: it is in
\* its directory or in one that was moved aside, also when a rollback fails in
\* part.  Between mutations, unless one crashed or said that its rollback
\* failed, the directories are exactly those of the registered artifacts.
ArtifactContentSurvives ==
    /\ \A a \in DOMAIN Store.artifacts :
          LET key == <<Store.artifacts[a].of, a>> IN
          \E d \in {dirs} \cup Range(aside) : key \in DOMAIN d /\ d[key] = Store.artifacts[a].version
    /\ holder = NoCall /\ (\A w \in Writer : ~LeftBehind(w)) =>
          dirs = [k \in {<<Store.artifacts[a].of, a>> : a \in DOMAIN Store.artifacts} |->
                      Store.artifacts[k[2]].version]

\* A mutation that returns any error is not committed, and one reported as
\* successful is, also when only the removal of directories after the commit
\* failed.  A mutation told that its state is committed but not finalized finds
\* all its files written when the call answers, and its transaction active:
\* what it was told holds no longer than that.
AnswerTellsOutcome ==
    \A w \in Writer :
        /\ result[w] \in {"failed", "unchanged", "unfinalized", "stranded"} => w \notin committed
        /\ result[w] = "ok" => w \in committed
        /\ result[w] = "unfinalized" /\ pc[w] \in {"undo", "close"} =>
              /\ pointer = w
              /\ \A c \in Commits(MutationOf[w]) : files[c] = Applied(MutationOf[w], seen[w])[c]

\* Once no transaction is active, no file of the store changes outside one.
PointerIsAuthority == [][pointer = NoCall => files' = files]_vars

\* Every transaction ends: by its commit, its rollback or the recovery of a
\* later load.
FenceLifted == pointer # NoCall ~> pointer = NoCall
=============================================================================
