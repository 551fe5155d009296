--------------------------- MODULE ContextRefresh ---------------------------
(***************************************************************************)
(* contextengine: the context files of a project (AGENTS.md, CLAUDE.md,    *)
(* ...) hold human text and one managed section.  PlanRefresh scans the    *)
(* project and records what each file will be; ApplyRefresh compares the   *)
(* project and every file with the plan, saves and replaces one file after *)
(* the other, and on an error writes the earlier ones back.  Editors change*)
(* files and project at any time.                                          *)
(***************************************************************************)
EXTENDS SequencesExt, Integers

CONSTANTS
    Agent,            \* the agents a plan may be made for
    PathOf,           \* contextPath: agents may share a file; files are numbered by name
    DirectoryOf,      \* the directory of a file below the root, "root" for the root itself
    Fingerprint,      \* what the scan of the project may give
    InitialFiles,     \* what the files may hold at first
    EditorWrites,     \* what an editor may write
    Absent,           \* no such file
    MaxContextPlans,  \* bound: plans made
    MaxContextEdits   \* bound: edits of other programs

VARIABLES files, project, contextPlan, refresh, copies, spent
contextVars == <<files, project, contextPlan, refresh, copies, spent>>

File == {PathOf[a] : a \in Agent}

\* The agent that is the fallback of detectTargets has the first of the files.
ASSUME ContextAssumption ==
    /\ PathOf \in [Agent -> Nat] /\ \E a \in Agent : PathOf[a] = 1
    /\ Fingerprint # {}
    /\ \A f \in InitialFiles : f = [p \in File |-> f[p]]

-----------------------------------------------------------------------------
(* A file is a sequence of pieces: human text, a start marker, an end marker *)
(* and generated text.  The scan leaves the context files out of the         *)
(* fingerprint, but the generated text names the directories of the root.    *)

Text(t) == <<"text", t>>
StartMark == <<"start">>
EndMark == <<"end">>
Generated(p) == <<"generated", p.fingerprint, p.directories>>
Section(p) == <<StartMark, Generated(p), EndMark>>

Position(s, piece) == SelectInSeq(s, LAMBDA e : e = piece)

\* The human text of a file, without what stands around it.
HumanText(content) ==
    LET UpTo[n \in 0 .. Len(content)] ==
            IF n = 0 THEN <<>>
            ELSE IF content[n][1] = "text" THEN Append(UpTo[n - 1], content[n]) ELSE UpTo[n - 1]
    IN  IF content = Absent THEN <<>> ELSE UpTo[Len(content)]

\* As if nothing followed the section.
MergeDropsTail(content, section) ==
    LET s == IF content = Absent THEN <<>> ELSE content
        start == Position(s, StartMark)
        end == Position(s, EndMark)
    IN  IF start > 0 /\ end >= start THEN SubSeq(s, 1, start - 1) \o section ELSE s \o section

\* From the first start marker to the first end marker, if they are in this order;
\* otherwise the section is appended.
Merge(content, section) ==
    LET s == IF content = Absent THEN <<>> ELSE content
        start == Position(s, StartMark)
        end == Position(s, EndMark)
    IN  IF start > 0 /\ end >= start
        THEN SubSeq(s, 1, start - 1) \o section \o SubSeq(s, end + 1, Len(s))
        ELSE s \o section

NoContextPlan == [id |-> 0, fingerprint |-> "", ops |-> <<>>, valid |-> FALSE]
NoRefresh == [at |-> "idle", todo |-> {}, seen |-> <<>>, undo |-> {}, result |-> "none", id |-> 0,
         ops |-> <<>>, fingerprint |-> "", touched |-> {}, undoFailed |-> FALSE, unsure |-> {}]

ContextInit ==
    /\ files \in InitialFiles
    /\ project = [fingerprint |-> CHOOSE f \in Fingerprint : TRUE,
                  directories |-> {DirectoryOf[p] : p \in {q \in File : files[q] # Absent}} \ {"root"}]
    /\ contextPlan = NoContextPlan
    /\ refresh = NoRefresh
    /\ copies = {}
    /\ spent = [plans |-> 0, edits |-> 0]

-----------------------------------------------------------------------------
(* PlanRefresh, without the lease *)

PlanFile(p) ==
    LET after == Merge(files[p], Section(project))
    IN  [action |-> IF after = files[p] THEN "noop" ELSE IF files[p] = Absent THEN "create" ELSE "update",
         before |-> files[p], after |-> after]

\* detectTargets, where the caller names no agent.
Detected ==
    LET present == {a \in Agent : files[PathOf[a]] # Absent}
    IN  IF present = {} THEN {CHOOSE a \in Agent : PathOf[a] = 1} ELSE present

PlanContext(agents) ==
    /\ spent.plans < MaxContextPlans
    /\ LET targets == IF agents = {} THEN Detected ELSE agents
       IN  contextPlan' = [id |-> spent.plans + 1, fingerprint |-> project.fingerprint, valid |-> TRUE,
                           ops |-> [p \in {PathOf[a] : a \in targets} |-> PlanFile(p)]]
    /\ spent' = [spent EXCEPT !.plans = @ + 1]
    /\ UNCHANGED <<files, project, refresh, copies>>

ContextPlanLapses ==
    /\ contextPlan.valid
    /\ contextPlan' = [contextPlan EXCEPT !.valid = FALSE]
    /\ UNCHANGED <<files, project, refresh, copies, spent>>

-----------------------------------------------------------------------------
(* ApplyRefresh, under the lease *)

Head1(p) == p \in refresh.todo /\ \A q \in refresh.todo : p <= q
FileOp(p) == refresh.ops[p]
ToWrite(ops) == {p \in DOMAIN ops : ops[p].action # "noop"}

\* The stored plan has the identity and the digest that were reviewed and is not expired.
ApplyContext ==
    /\ refresh.at = "idle" /\ contextPlan.valid
    /\ refresh' = [NoRefresh EXCEPT !.at = "scan", !.id = contextPlan.id, !.ops = contextPlan.ops,
                               !.fingerprint = contextPlan.fingerprint, !.seen = files]
    /\ UNCHANGED <<files, project, contextPlan, copies, spent>>

Rescan ==
    /\ refresh.at = "scan" /\ project.fingerprint = refresh.fingerprint
    /\ refresh' = [refresh EXCEPT !.at = "capture", !.todo = ToWrite(refresh.ops)]
    /\ UNCHANGED <<files, project, contextPlan, copies, spent>>

\* The digest of a file that will be written must be the reviewed one; what it holds
\* is kept for the rollback.
Unchanged(p) == files[p] = FileOp(p).before
Capture(p) ==
    /\ refresh.at = "capture" /\ Head1(p) /\ Unchanged(p)
    /\ refresh' = [refresh EXCEPT !.seen[p] = files[p], !.todo = @ \ {p}]
    /\ UNCHANGED <<files, project, contextPlan, copies, spent>>

\* The project or a file has changed, or cannot be read: nothing has been written yet.
ApplyRefuses ==
    /\ refresh.at \in {"scan", "capture"}
    /\ refresh' = [refresh EXCEPT !.at = "idle", !.todo = {}, !.result = "refused"]
    /\ UNCHANGED <<files, project, contextPlan, copies, spent>>

Captured ==
    /\ refresh.at = "capture" /\ refresh.todo = {}
    /\ refresh' = [refresh EXCEPT !.at = "save", !.todo = ToWrite(refresh.ops)]
    /\ UNCHANGED <<files, project, contextPlan, copies, spent>>

RefreshFailed(r) == [r EXCEPT !.at = IF r.undo = {} THEN "idle" ELSE "rollback", !.todo = {}, !.result = "failed"]

\* copyBackup reads the file again.
SaveCopy(p) ==
    /\ refresh.at = "save" /\ Head1(p)
    /\ refresh.seen[p] = Absent \/ files[p] # Absent
    /\ copies' = IF refresh.seen[p] = Absent THEN copies ELSE copies \cup {<<p, files[p]>>}
    /\ refresh' = [refresh EXCEPT !.at = "write"]
    /\ UNCHANGED <<files, project, contextPlan, spent>>

CopyFails ==
    /\ refresh.at = "save" /\ refresh.todo # {}
    /\ refresh' = RefreshFailed(refresh)
    /\ UNCHANGED <<files, project, contextPlan, copies, spent>>

PutFile(p, content) ==
    /\ files' = [files EXCEPT ![p] = content]
    /\ project' = [project EXCEPT !.directories = @ \cup ({DirectoryOf[p]} \ {"root"})]

WriteContext(p) ==
    /\ refresh.at = "write" /\ Head1(p)
    /\ PutFile(p, FileOp(p).after)
    /\ refresh' = [refresh EXCEPT !.at = "verify", !.undo = @ \cup {p}]
    /\ UNCHANGED <<contextPlan, copies, spent>>

\* safefile.Replace may report an error after the new file is in place (its permissions
\* could not be verified); the rollback of this file is registered only after it returns.
WriteReportsError(p) ==
    /\ refresh.at = "write" /\ Head1(p)
    /\ \/ UNCHANGED <<files, project>>
       \/ PutFile(p, FileOp(p).after)
    /\ refresh' = [RefreshFailed(refresh) EXCEPT !.unsure = {p}]
    /\ UNCHANGED <<contextPlan, copies, spent>>

\* The file is read back.
VerifyContext(p) ==
    /\ refresh.at = "verify" /\ Head1(p)
    /\ \/ files[p] = FileOp(p).after /\ refresh' = [refresh EXCEPT !.at = "save", !.todo = @ \ {p}]
       \/ refresh' = RefreshFailed(refresh)
    /\ UNCHANGED <<files, project, contextPlan, copies, spent>>

FinishRefresh ==
    /\ refresh.at = "save" /\ refresh.todo = {}
    /\ refresh' = [refresh EXCEPT !.at = "idle", !.undo = {}, !.result = "applied"]
    /\ contextPlan' = IF contextPlan.id = refresh.id THEN NoContextPlan ELSE contextPlan
    /\ UNCHANGED <<files, project, copies, spent>>

\* rollbackAll, the last file first; an error is joined and the others go on.
LastWritten(p) == p \in refresh.undo /\ \A q \in refresh.undo : q <= p
FileUndone(p) ==
    LET left == refresh.undo \ {p}
    IN  [refresh EXCEPT !.undo = left, !.at = IF left = {} THEN "idle" ELSE "rollback"]
WriteBack(p) ==
    /\ refresh.at = "rollback" /\ LastWritten(p)
    /\ files' = [files EXCEPT ![p] = refresh.seen[p]]
    /\ refresh' = FileUndone(p)
    /\ UNCHANGED <<project, contextPlan, copies, spent>>

WriteBackFails(p) ==
    /\ refresh.at = "rollback" /\ LastWritten(p)
    /\ refresh' = [FileUndone(p) EXCEPT !.undoFailed = TRUE]
    /\ UNCHANGED <<files, project, contextPlan, copies, spent>>

-----------------------------------------------------------------------------
(* The environment *)

ContextCrash ==
    /\ refresh.at # "idle"
    /\ refresh' = [refresh EXCEPT !.at = "idle", !.todo = {}, !.undo = {}, !.result = "crashed"]
    /\ UNCHANGED <<files, project, contextPlan, copies, spent>>

EditFile(p, content) ==
    /\ spent.edits < MaxContextEdits /\ content # files[p]
    /\ files' = [files EXCEPT ![p] = content]
    /\ refresh' = [refresh EXCEPT !.touched = @ \cup {p}]
    /\ spent' = [spent EXCEPT !.edits = @ + 1]
    /\ UNCHANGED <<project, contextPlan, copies>>

EditProject(f) ==
    /\ spent.edits < MaxContextEdits /\ f # project.fingerprint
    /\ project' = [project EXCEPT !.fingerprint = f]
    /\ spent' = [spent EXCEPT !.edits = @ + 1]
    /\ UNCHANGED <<files, contextPlan, refresh, copies>>

FileStep(p) ==
    \/ Capture(p) \/ SaveCopy(p) \/ WriteContext(p) \/ WriteReportsError(p) \/ VerifyContext(p)
    \/ WriteBack(p) \/ WriteBackFails(p)
    \/ \E content \in EditorWrites : EditFile(p, content)

ContextNext ==
    \/ \E agents \in SUBSET Agent : PlanContext(agents)
    \/ ContextPlanLapses \/ ApplyContext \/ Rescan \/ ApplyRefuses \/ Captured
    \/ CopyFails \/ FinishRefresh \/ ContextCrash
    \/ \E p \in File : FileStep(p)
    \/ \E f \in Fingerprint : EditProject(f)

ContextSpec == ContextInit /\ [][ContextNext]_contextVars

-----------------------------------------------------------------------------
ContextTypeOK ==
    /\ DOMAIN files = File
    /\ project.fingerprint \in Fingerprint /\ project.directories \subseteq {DirectoryOf[p] : p \in File}
    /\ DOMAIN contextPlan.ops \subseteq File
    /\ refresh.todo \subseteq File /\ refresh.undo \subseteq File
    /\ \A copy \in copies : copy[1] \in File /\ copy[2] # Absent

Reviewed == ToWrite(refresh.ops) \ refresh.touched

\* A refresh that succeeds leaves every file it was to write as it was reviewed; one
\* that fails leaves it as it was when it was reviewed, but for a file whose own write
\* reported an error and a rollback that met one.
ContextAllOrNothing ==
    refresh.at = "idle" =>
        \A p \in Reviewed :
            /\ refresh.result = "applied" => files[p] = FileOp(p).after
            /\ refresh.result = "failed" /\ ~refresh.undoFailed /\ p \notin refresh.unsure =>
                   files[p] = FileOp(p).before

\* Human text below a start mark has an end mark above it: the section has both its marks.
WellMarked(content) == \A i \in 1 .. Len(content) :
    content[i][1] = "text" /\ (\E j \in 1 .. i - 1 : content[j] = StartMark) =>
        \E k \in 1 .. i - 1 : content[k] = EndMark

Piece == {StartMark, EndMark} \cup {"text"} \X STRING
            \cup {"generated"} \X Fingerprint \X SUBSET {DirectoryOf[p] : p \in File}
Marked == {content \in Seq(Piece) : WellMarked(content)}

\* What the files hold at first and what editors write keeps the marks of a section; what
\* becomes of one that has lost its end mark is shown by MCContextTorn.
FilesMarked ==
    /\ Absent \notin Marked
    /\ EditorWrites \subseteq Marked \cup {Absent}
    /\ \A f \in InitialFiles : f \in [File -> Marked \cup {Absent}]

\* A refresh replaces no text of a human: "managed blocks ... while preserving human
\* text" (CONVERGENCE.md:42).
HumanTextPreserved ==
    [][\A p \in File :
          files'[p] # files[p] /\ p \notin refresh'.touched =>
              HumanText(files'[p]) = HumanText(files[p])]_contextVars

\* What a refresh found in a file is in the file or among the copies, whatever fails.
ContextKept ==
    refresh.result # "none" \/ refresh.at # "idle" =>
        \A p \in File \ refresh.touched :
            refresh.seen[p] \in {Absent, files[p]} \/ <<p, refresh.seen[p]>> \in copies
=============================================================================
