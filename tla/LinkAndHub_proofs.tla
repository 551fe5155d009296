-------------------------- MODULE LinkAndHub_proofs -------------------------
(***************************************************************************)
(* Proofs about the two planes that change what other programs also edit,  *)
(* for any number of clients and resources, any configurations and trees   *)
(* and any edits of other programs.  The link: linking and unlinking leave *)
(* alone what AgentStack does not own, and an Apply changes all the        *)
(* clients or none.  The hub: its jobs are transactional, release their    *)
(* locks and lose no tree, and what nothing manages is kept.               *)
(***************************************************************************)
EXTENDS ClientLink, ResourceHub, TLAPS

-----------------------------------------------------------------------------
(* The link of the MCP clients.                                             *)

CommandPlaces == {"inspect", "remove", "register", "takeOut", "add", "addAgain", "putBack"}
FilePlaces == {"write", "verify"}
Places == {"idle", "check", "read", "apply", "rollback"} \cup FilePlaces \cup CommandPlaces

\* The fields of the job and what the clients hold.
Typed ==
    /\ configs \in [Client -> Config]
    /\ linkPlan \in [id : {linkPlan.id}, mode : Mode, ops : {linkPlan.ops}, valid : {linkPlan.valid}]
    /\ DOMAIN linkPlan.ops \subseteq Client
    /\ job \in [at : Places, todo : SUBSET Client, seen : [Client -> Config] \cup {<<>>},
                undo : SUBSET Client, saved : {job.saved}, result : {job.result},
                undoFailed : {job.undoFailed}, cancelled : {job.cancelled},
                touched : SUBSET Client, unsure : {job.unsure}, id : {job.id}, mode : Mode,
                ops : {job.ops}]
    /\ DOMAIN job.ops \subseteq Client
    /\ job.at # "idle" => job.seen \in [Client -> Config]

\* Codex is changed by commands and every other client by its file.
RightPlace ==
    /\ job.at \in CommandPlaces => Codex \in Client /\ Next1(Codex)
    /\ \A c \in Client : job.at \in FilePlaces /\ Next1(c) => c # Codex

\* Nothing is undone before something was changed, and nothing is changed twice.
UndoLater ==
    /\ job.at \in {"idle", "check", "read"} => job.undo = {}
    /\ \A c \in job.undo \cap job.todo : job.at = "verify" /\ Next1(c)

\* A client nobody edited holds what was read of it until its turn comes.
StillSeen == \A c \in Client \ job.touched :
    /\ job.at \in {"check", "read"} => configs[c] = job.seen[c]
    /\ job.at \in {"apply", "write"} /\ c \in job.todo => configs[c] = job.seen[c]
    /\ job.at \in {"verify"} \cup CommandPlaces /\ c \in job.todo /\ ~Next1(c) => configs[c] = job.seen[c]

\* The file that is written and verified next differs in the entry only, which AgentStack may change.
WriteReviewed == \A c \in Client : job.at \in FilePlaces /\ Next1(c) =>
    Recordable(c) /\ Changed(job.mode, job.seen[c]) = Op(c).after

\* While its commands run, and until they are undone, Codex has no foreign entry.
CodexOwned ==
    Codex \in Client \ job.touched /\ (job.at \in CommandPlaces \/ Codex \in job.undo) =>
        configs[Codex].entry \in {"none", "current", "stale"}

\* A file that can be undone holds what was written.
FileUndoable == \A c \in job.undo \ (job.touched \cup {Codex}) :
    configs[c] = Changed(job.mode, job.seen[c])

LinkInv ==
    /\ Typed
    /\ RightPlace
    /\ UndoLater
    /\ StillSeen
    /\ WriteReviewed
    /\ CodexOwned
    /\ FileUndoable

LEMMA NextUnique == \A c, d \in Client : Next1(c) /\ Next1(d) => c = d
  BY LinkAssumption DEF Client, Next1

LEMMA ChangedTyped ==
  ASSUME NEW mode, NEW config \in Config
  PROVE  Changed(mode, config) \in Config
  BY DEF Changed, Recoded, Config, LinkEntry, Rest

LEMMA LinkInvInit == LinkInit => LinkInv
<1> SUFFICES ASSUME LinkInit PROVE LinkInv
  OBVIOUS
<1> USE DEF LinkInit, Idle, NoPlan, Places, FilePlaces, CommandPlaces
<1>1. Typed
  BY LinkAssumption DEF Typed, Mode
<1>2. RightPlace /\ UndoLater /\ StillSeen /\ WriteReviewed /\ CodexOwned /\ FileUndoable
  BY DEF RightPlace, UndoLater, StillSeen, WriteReviewed, CodexOwned, FileUndoable, Next1
<1> QED BY <1>1, <1>2 DEF LinkInv

\* Steps that change neither a client nor what a job knows of it.
LEMMA SameJob ==
  ASSUME LinkInv, Typed', configs' = configs, job'.at = job.at, job'.todo = job.todo, job'.seen = job.seen,
         job'.undo = job.undo, job'.touched = job.touched, job'.mode = job.mode, job'.ops = job.ops
  PROVE  LinkInv'
  BY DEF LinkInv, RightPlace, UndoLater, StillSeen, WriteReviewed, CodexOwned, FileUndoable, Next1, Op, Recordable

\* When the job is over there is nothing to know.
LEMMA JobOver ==
  ASSUME Typed', job'.at = "idle", job'.undo = {}
  PROVE  LinkInv'
  BY DEF LinkInv, RightPlace, UndoLater, StillSeen, WriteReviewed, CodexOwned, FileUndoable,
         Places, FilePlaces, CommandPlaces

LEMMA Bookkeeping ==
  ASSUME LinkInv,
         \/ \E mode \in Mode, clients \in SUBSET Client : PlanLinks(mode, clients)
         \/ PlanLapses \/ Cancel \/ FinishLinks \/ LinkCrash \/ UNCHANGED linkVars
  PROVE  LinkInv'
<1> USE DEF Places, FilePlaces, CommandPlaces
<1>0. Typed
  BY DEF LinkInv
<1>1. ASSUME NEW mode \in Mode, NEW clients \in SUBSET Client, PlanLinks(mode, clients)
      PROVE  LinkInv'
  BY <1>0, <1>1, SameJob DEF PlanLinks, Typed
<1>2. CASE PlanLapses \/ UNCHANGED linkVars
  BY <1>0, <1>2, SameJob DEF PlanLapses, linkVars, Typed
<1>3. CASE Cancel
  BY <1>0, <1>3, SameJob DEF Cancel, Typed
<1>4. CASE FinishLinks \/ LinkCrash
  <2>1. job'.at = "idle" /\ job'.undo = {}
    BY <1>0, <1>4 DEF FinishLinks, LinkCrash, Typed
  <2>2. Typed'
    <3>1. DOMAIN NoPlan.ops \subseteq Client /\ NoPlan.mode \in Mode
      BY DEF NoPlan, Mode
    <3>2. CASE FinishLinks
      BY <1>0, <3>1, <3>2 DEF FinishLinks, Typed, NoPlan
    <3>3. CASE LinkCrash
      BY <1>0, <3>3 DEF LinkCrash, Typed
    <3> QED BY <1>4, <3>2, <3>3
  <2> QED BY <2>1, <2>2, JobOver
<1> QED BY <1>1, <1>2, <1>3, <1>4

\* Checking the clients against the plan.
LEMMA Checking ==
  ASSUME LinkInv, StartApply \/ ReadFails \/ Checked \/ \E c \in Client : CheckRefuses(c) \/ CheckPasses(c) \/ ReadBefore(c)
  PROVE  LinkInv'
<1> USE DEF Places, FilePlaces, CommandPlaces
<1>0. Typed
  BY DEF LinkInv
<1>1. CASE StartApply
  <2>1. Typed'
    <3>1. DOMAIN linkPlan.ops \in SUBSET Client /\ {} \in SUBSET Client /\ linkPlan.mode \in Mode
      BY <1>0 DEF Typed
    <3>2. job' = [Idle EXCEPT !.at = "check", !.todo = DOMAIN linkPlan.ops, !.seen = configs,
                              !.id = linkPlan.id, !.mode = linkPlan.mode, !.ops = linkPlan.ops]
      BY <1>1 DEF StartApply
    <3>3. configs \in [Client -> Config] /\ configs' = configs /\ linkPlan' = linkPlan
      BY <1>0, <1>1 DEF StartApply, Typed
    <3>4. /\ job'.at = "check" /\ job'.todo = DOMAIN linkPlan.ops /\ job'.seen = configs /\ job'.undo = {}
          /\ job'.touched = {} /\ job'.mode = linkPlan.mode /\ job'.ops = linkPlan.ops
      BY <3>2 DEF Idle
    <3>5. job' = [at |-> job'.at, todo |-> job'.todo, seen |-> job'.seen, undo |-> job'.undo,
                  saved |-> job'.saved, result |-> job'.result, undoFailed |-> job'.undoFailed,
                  cancelled |-> job'.cancelled, touched |-> job'.touched, unsure |-> job'.unsure,
                  id |-> job'.id, mode |-> job'.mode, ops |-> job'.ops]
      BY <3>2 DEF Idle
    <3> QED BY <1>0, <3>1, <3>3, <3>4, <3>5 DEF Typed
  <2>2. /\ job'.at = "check" /\ job'.seen = configs /\ configs' = configs
        /\ job'.undo = {} /\ job'.touched = {}
    BY <1>1 DEF StartApply, Idle
  <2> QED BY <2>1, <2>2 DEF LinkInv, RightPlace, UndoLater, StillSeen, WriteReviewed, CodexOwned, FileUndoable
<1>2. CASE ReadFails \/ \E c \in Client : CheckRefuses(c)
  <2>1. job.at \in {"check", "read"} /\ Refuse
    BY <1>2 DEF ReadFails, CheckRefuses, Refuse
  <2>2. job'.at = "idle" /\ job'.undo = {}
    BY <1>0, <2>1 DEF Refuse, Typed, LinkInv, UndoLater
  <2>3. Typed'
    BY <1>0, <2>1 DEF Refuse, Typed
  <2> QED BY <2>2, <2>3, JobOver
<1>3. CASE Checked
  <2>1. Typed'
    BY <1>0, <1>3 DEF Checked, Typed
  <2>2. /\ job'.at = "apply" /\ job.at = "check" /\ job'.seen = job.seen /\ configs' = configs
        /\ job'.undo = {} /\ job'.touched = job.touched
    BY <1>0, <1>3 DEF Checked, Typed, LinkInv, UndoLater
  <2> QED BY <2>1, <2>2 DEF LinkInv, RightPlace, UndoLater, StillSeen, WriteReviewed, CodexOwned, FileUndoable
<1>4. ASSUME NEW c \in Client, CheckPasses(c) \/ ReadBefore(c)
      PROVE  LinkInv'
  <2>1. job.at \in {"check", "read"} /\ job.seen \in [Client -> Config] /\ configs \in [Client -> Config]
    BY <1>0, <1>4 DEF CheckPasses, ReadBefore, Typed
  <2>2. \/ job' = [job EXCEPT !.at = "read"]
        \/ job' = [job EXCEPT !.todo = @ \ {c}, !.seen[c] = configs[c]]
        \/ job' = [job EXCEPT !.at = "check", !.todo = @ \ {c}, !.seen[c] = configs[c]]
    BY <1>4 DEF CheckPasses, ReadBefore
  <2>3. configs' = configs /\ linkPlan' = linkPlan
    BY <1>4 DEF CheckPasses, ReadBefore
  <2>4. [job.seen EXCEPT ![c] = configs[c]] \in [Client -> Config]
    BY <2>1
  <2>5. /\ job'.at \in {"check", "read"}
        /\ job'.undo = {} /\ job'.touched = job.touched
        /\ job'.seen = job.seen \/ job'.seen = [job.seen EXCEPT ![c] = configs[c]]
    BY <1>0, <2>1, <2>2 DEF Typed, LinkInv, UndoLater
  <2>6. \A d \in Client : job'.seen[d] = job.seen[d] \/ job'.seen[d] = configs[d]
    BY <2>1, <2>5
  <2>7. Typed'
    <3>1. CASE job' = [job EXCEPT !.at = "read"]
      BY <1>0, <2>1, <2>3, <3>1 DEF Typed
    <3>2. CASE job' = [job EXCEPT !.todo = @ \ {c}, !.seen[c] = configs[c]]
      BY <1>0, <2>1, <2>3, <2>4, <3>2 DEF Typed
    <3>3. CASE job' = [job EXCEPT !.at = "check", !.todo = @ \ {c}, !.seen[c] = configs[c]]
      BY <1>0, <2>1, <2>3, <2>4, <3>3 DEF Typed
    <3> QED BY <2>2, <3>1, <3>2, <3>3
  <2> QED BY <2>1, <2>3, <2>5, <2>6, <2>7 DEF LinkInv, RightPlace, UndoLater, StillSeen, WriteReviewed, CodexOwned, FileUndoable
<1> QED BY <1>1, <1>2, <1>3, <1>4

\* The types after a change is complete, and after an error.
LEMMA RegisteredTyped ==
  ASSUME Typed, NEW c \in Client, job.at # "idle", job' = Registered(job, c),
         configs' \in [Client -> Config], linkPlan' = linkPlan
  PROVE  /\ Typed'
         /\ job'.at = "apply" /\ job'.todo = job.todo \ {c} /\ job'.undo = job.undo \cup {c}
         /\ job'.seen = job.seen /\ job'.touched = job.touched /\ job'.mode = job.mode
<1>1. job' = [job EXCEPT !.at = "apply", !.todo = job.todo \ {c}, !.undo = job.undo \cup {c}]
  BY DEF Registered
<1>2. job.todo \ {c} \in SUBSET Client /\ job.undo \cup {c} \in SUBSET Client /\ "apply" \in Places
  BY DEF Typed, Places
<1> QED BY <1>1, <1>2 DEF Typed

LEMMA FailedTyped ==
  ASSUME Typed, job.at # "idle", NEW unsure, job' = Failed(job) \/ job' = [Failed(job) EXCEPT !.unsure = unsure],
         configs' \in [Client -> Config], linkPlan' = linkPlan
  PROVE  /\ Typed'
         /\ job'.at = (IF job.undo = {} THEN "idle" ELSE "rollback") /\ job'.todo = {}
         /\ job'.undo = job.undo /\ job'.seen = job.seen /\ job'.touched = job.touched /\ job'.mode = job.mode
<1>1. {} \in SUBSET Client /\ "idle" \in Places /\ "rollback" \in Places
  BY DEF Places
<1>2. CASE job' = Failed(job)
  BY <1>1, <1>2 DEF Typed, Failed
<1>3. CASE job' = [Failed(job) EXCEPT !.unsure = unsure]
  BY <1>1, <1>3 DEF Typed, Failed
<1> QED BY <1>2, <1>3

\* An error ends the changes; the client that reported it may be changed, unregistered.
LEMMA FailedJob ==
  ASSUME LinkInv, Typed', job'.at = (IF job.undo = {} THEN "idle" ELSE "rollback"), job'.todo = {},
         job'.undo = job.undo, job'.seen = job.seen, job'.touched = job.touched, job'.mode = job.mode,
         \A d \in job.undo : configs'[d] = configs[d]
  PROVE  LinkInv'
<1>1. job'.undo # {} => job'.at = "rollback"
  OBVIOUS
<1> QED BY <1>1 DEF LinkInv, Typed, RightPlace, UndoLater, StillSeen, WriteReviewed, CodexOwned,
                    FileUndoable, Next1, Places, FilePlaces, CommandPlaces

\* A change that is complete and can be undone from here on.
LEMMA RegisteredJob ==
  ASSUME LinkInv, Typed', NEW c \in Client, Next1(c), job.at \in {"verify"} \cup CommandPlaces,
         job'.at = "apply", job'.todo = job.todo \ {c}, job'.undo = job.undo \cup {c},
         job'.seen = job.seen, job'.touched = job.touched, job'.mode = job.mode,
         \A d \in Client \ {c} : configs'[d] = configs[d],
         c = Codex /\ c \notin job.touched => configs'[c].entry \in {"none", "current", "stale"},
         c # Codex => configs'[c] = Changed(job.mode, job.seen[c])
  PROVE  LinkInv'
<1>1. \A d \in job.undo \cap job.todo : d = c
  BY NextUnique DEF LinkInv, UndoLater, Typed
<1>2. \A d \in Client : d \in job.todo \ {c} => ~Next1(d)
  BY NextUnique
<1>3. UndoLater' /\ WriteReviewed' /\ RightPlace'
  BY <1>1 DEF UndoLater, WriteReviewed, RightPlace, FilePlaces, CommandPlaces
<1>4. StillSeen'
  BY <1>2 DEF LinkInv, StillSeen, CommandPlaces
<1>5. CodexOwned'
  BY DEF LinkInv, CodexOwned, CommandPlaces
<1>6. FileUndoable'
  BY DEF LinkInv, Typed, FileUndoable
<1> QED BY <1>3, <1>4, <1>5, <1>6 DEF LinkInv

\* One command of Codex follows another.
LEMMA NextCommand ==
  ASSUME LinkInv, Typed', job.at \in CommandPlaces, job'.at \in CommandPlaces, job'.todo = job.todo,
         job'.undo = job.undo, job'.seen = job.seen, job'.touched = job.touched, job'.mode = job.mode,
         \A d \in Client \ {Codex} : configs'[d] = configs[d],
         Codex \notin job.touched => configs'[Codex].entry \in {"none", "current", "stale"}
  PROVE  LinkInv'
<1> USE DEF FilePlaces, CommandPlaces
<1>1. \A d \in Client : Next1(d)' <=> Next1(d)
  BY DEF Next1
<1>2. Codex \in Client /\ Next1(Codex)
  BY DEF LinkInv, RightPlace
<1>3. UndoLater' /\ WriteReviewed' /\ RightPlace'
  BY <1>1, <1>2 DEF LinkInv, Typed, UndoLater, WriteReviewed, RightPlace
<1>4. StillSeen'
  BY <1>1, <1>2 DEF LinkInv, StillSeen
<1>5. CodexOwned' /\ FileUndoable'
  BY DEF LinkInv, Typed, CodexOwned, FileUndoable
<1> QED BY <1>3, <1>4, <1>5 DEF LinkInv

\* One change is undone.
LEMMA UndoneJob ==
  ASSUME LinkInv, Typed', NEW c \in Client, job.at = "rollback", job'.undo = job.undo \ {c},
         job'.at = (IF job'.undo = {} THEN "idle" ELSE "rollback"), job'.todo = job.todo,
         job'.seen = job.seen, job'.touched = job.touched, job'.mode = job.mode,
         \A d \in Client \ {c} : configs'[d] = configs[d]
  PROVE  LinkInv'
<1>1. job'.undo # {} => job'.at = "rollback"
  OBVIOUS
<1> QED BY <1>1 DEF LinkInv, Typed, RightPlace, UndoLater, StillSeen, WriteReviewed, CodexOwned,
                    FileUndoable, Places, FilePlaces, CommandPlaces

\* Taking up a client, and the file that is written and verified.
LEMMA Applying ==
  ASSUME LinkInv, NEW c \in Client, Skip(c) \/ BackUp(c) \/ BackUpFails(c) \/ WriteFile(c) \/ Verify(c)
  PROVE  LinkInv'
<1> USE DEF Places, FilePlaces, CommandPlaces
<1>0. Typed /\ (\A d \in Client : Next1(d) <=> d = c)
  BY NextUnique DEF LinkInv, Skip, BackUp, BackUpFails, WriteFile, Verify
<1>1. CASE Skip(c)
  <2>1. Typed'
    BY <1>0, <1>1 DEF Skip, Typed
  <2>2. /\ job'.at = "apply" /\ job.at = "apply" /\ job'.todo = job.todo \ {c} /\ job'.undo = job.undo
        /\ job'.seen = job.seen /\ job'.touched = job.touched /\ job'.mode = job.mode /\ configs' = configs
    BY <1>0, <1>1 DEF Skip, Typed
  <2> QED BY <2>1, <2>2 DEF LinkInv, RightPlace, UndoLater, StillSeen, WriteReviewed, CodexOwned, FileUndoable
<1>2. CASE BackUp(c)
  <2>1. Typed'
    BY <1>0, <1>2 DEF BackUp, Typed
  <2>2. /\ job'.at = (IF c = Codex THEN "inspect" ELSE "write") /\ job.at = "apply" /\ job'.todo = job.todo
        /\ job'.undo = job.undo /\ job'.seen = job.seen /\ job'.touched = job.touched
        /\ job'.mode = job.mode /\ job'.ops = job.ops /\ configs' = configs
    BY <1>0, <1>2 DEF BackUp, Typed
  <2>3. Next1(c) /\ Recordable(c) /\ (c # Codex => Changed(job.mode, job.seen[c]) = Op(c).after)
    BY <1>2 DEF BackUp, Rebuilt
  <2>4. \A d \in Client : Next1(d)' <=> d = c
    BY <1>0, <2>2 DEF Next1
  <2>5. RightPlace' /\ UndoLater'
    BY <2>2, <2>4 DEF LinkInv, RightPlace, UndoLater
  <2>6. StillSeen' /\ FileUndoable'
    BY <2>2, <2>4 DEF LinkInv, StillSeen, FileUndoable
  <2>7. WriteReviewed'
    BY <2>2, <2>3, <2>4 DEF LinkInv, WriteReviewed, Recordable, Op
  <2>8. CodexOwned'
    BY <2>2, <2>3 DEF LinkInv, CodexOwned, StillSeen, Recordable, Owned, Next1
  <2> QED BY <2>1, <2>5, <2>6, <2>7, <2>8 DEF LinkInv
<1>3. CASE BackUpFails(c)
  <2>1. Typed'
    BY <1>0, <1>3 DEF BackUpFails, Failed, Typed
  <2>2. /\ job'.at = (IF job.undo = {} THEN "idle" ELSE "rollback") /\ job'.todo = {} /\ job'.undo = job.undo
        /\ job'.seen = job.seen /\ job'.touched = job.touched /\ job'.mode = job.mode /\ configs' = configs
    BY <1>0, <1>3 DEF BackUpFails, Failed, Typed
  <2> QED BY <2>1, <2>2, FailedJob
<1>4. CASE WriteFile(c)
  <2>1. /\ job'.at = "verify" /\ job.at = "write" /\ job'.todo = job.todo /\ job'.undo = job.undo \cup {c}
        /\ job'.seen = job.seen /\ job'.touched = job.touched
        /\ job'.mode = job.mode /\ job'.ops = job.ops /\ configs' = [configs EXCEPT ![c] = Op(c).after]
    BY <1>0, <1>4 DEF WriteFile, Typed
  <2>2. Recordable(c) /\ Changed(job.mode, job.seen[c]) = Op(c).after /\ c # Codex
    BY <1>0, <2>1 DEF LinkInv, WriteReviewed, RightPlace
  <2>3. Op(c).after \in Config
    BY <1>0, <2>1, <2>2, ChangedTyped DEF Typed
  <2>4. Typed'
    BY <1>0, <1>4, <2>3 DEF WriteFile, Typed
  <2>5. \A d \in Client : Next1(d)' <=> d = c
    BY <1>0, <2>1 DEF Next1
  <2>6. /\ configs'[c] = Changed(job.mode, job.seen[c])
        /\ \A d \in Client \ {c} : configs'[d] = configs[d]
    BY <1>0, <2>1, <2>2 DEF Typed
  <2>7. RightPlace' /\ UndoLater'
    BY <1>0, <2>1, <2>2, <2>5 DEF LinkInv, Typed, RightPlace, UndoLater
  <2>8. StillSeen'
    BY <1>0, <2>1, <2>5, <2>6 DEF LinkInv, StillSeen
  <2>9. WriteReviewed'
    BY <2>1, <2>2, <2>5 DEF WriteReviewed, Recordable, Op
  <2>10. CodexOwned' /\ FileUndoable'
    BY <1>0, <2>1, <2>2, <2>6 DEF LinkInv, Typed, CodexOwned, FileUndoable
  <2> QED BY <2>4, <2>7, <2>8, <2>9, <2>10 DEF LinkInv
<1>5. CASE Verify(c)
  <2>1. job.at = "verify" /\ Next1(c) /\ configs' = configs /\ linkPlan' = linkPlan
    BY <1>5 DEF Verify
  <2>2. Changed(job.mode, job.seen[c]) = Op(c).after /\ c # Codex
    BY <1>0, <2>1 DEF LinkInv, WriteReviewed, RightPlace
  <2>3. CASE configs[c] = Op(c).after
    <3>1. configs' \in [Client -> Config] /\ job' = Registered(job, c)
      BY <1>0, <1>5, <2>1, <2>3 DEF Verify, Typed
    <3>2. /\ Typed'
          /\ job'.at = "apply" /\ job'.todo = job.todo \ {c} /\ job'.undo = job.undo \cup {c}
          /\ job'.seen = job.seen /\ job'.touched = job.touched /\ job'.mode = job.mode
      BY <1>0, <2>1, <3>1, RegisteredTyped
    <3>3. /\ job.at \in {"verify"} \cup CommandPlaces
          /\ \A d \in Client \ {c} : configs'[d] = configs[d]
          /\ configs'[c] = Changed(job.mode, job.seen[c])
      BY <2>1, <2>2, <2>3
    <3> HIDE DEF CommandPlaces
    <3> QED BY <2>1, <2>2, <3>2, <3>3, RegisteredJob
  <2>4. CASE configs[c] # Op(c).after
    <3>1. Typed'
      BY <1>0, <1>5, <2>4 DEF Verify, Failed, Typed
    <3>2. /\ job'.at = (IF job.undo = {} THEN "idle" ELSE "rollback") /\ job'.todo = {} /\ job'.undo = job.undo
          /\ job'.seen = job.seen /\ job'.touched = job.touched /\ job'.mode = job.mode
      BY <1>0, <1>5, <2>4 DEF Verify, Failed, Typed
    <3> QED BY <2>1, <3>1, <3>2, FailedJob
  <2> QED BY <2>3, <2>4
<1> QED BY <1>1, <1>2, <1>3, <1>4, <1>5

\* The commands that change Codex.
LEMMA CodexCommands ==
  ASSUME LinkInv, Inspect \/ RemoveCodex \/ Register \/ TakeOut \/ AddCodex \/ AddAgainFails \/ PutBack \/ PutBackFails
  PROVE  LinkInv'
<1>0. /\ Typed /\ Codex \in Client /\ Next1(Codex) /\ job.at \in CommandPlaces /\ job.at # "idle"
      /\ Codex \notin job.touched => configs[Codex].entry \in {"none", "current", "stale"}
  <2>1. job.at \in CommandPlaces /\ job.at # "idle"
    BY DEF CommandPlaces, Inspect, RemoveCodex, Register, TakeOut, AddCodex, AddAgainFails, PutBack, PutBackFails
  <2> QED BY <2>1 DEF LinkInv, RightPlace, CodexOwned
<1>a. Codex \notin job.undo
  BY <1>0 DEF LinkInv, UndoLater, Next1, CommandPlaces
<1>1. ASSUME NEW entry \in LinkEntry, NEW changed, changed = [configs EXCEPT ![Codex].entry = entry]
      PROVE  /\ changed \in [Client -> Config] /\ changed[Codex].entry = entry
             /\ \A d \in Client \ {Codex} : changed[d] = configs[d]
  <2>1. configs \in [Client -> Config] /\ configs[Codex] \in Config
    BY <1>0 DEF Typed
  <2>2. [configs[Codex] EXCEPT !.entry = entry] \in Config /\ [configs[Codex] EXCEPT !.entry = entry].entry = entry
    BY <2>1 DEF Config
  <2> QED BY <1>0, <1>1, <2>1, <2>2
<1>b. ASSUME \/ configs' = configs
             \/ \E entry \in {"none", "current"} : configs' = [configs EXCEPT ![Codex].entry = entry]
      PROVE  /\ configs' \in [Client -> Config] /\ \A d \in Client \ {Codex} : configs'[d] = configs[d]
             /\ Codex \notin job.touched => configs'[Codex].entry \in {"none", "current", "stale"}
  <2>1. "none" \in LinkEntry /\ "current" \in LinkEntry
    BY DEF LinkEntry
  <2>2. CASE configs' = configs
    BY <1>0, <2>2 DEF Typed
  <2>3. CASE \E entry \in {"none", "current"} : configs' = [configs EXCEPT ![Codex].entry = entry]
    <3>1. PICK entry \in {"none", "current"} : configs' = [configs EXCEPT ![Codex].entry = entry]
      BY <2>3
    <3>2. entry \in LinkEntry
      BY <2>1
    <3>3. configs' \in [Client -> Config] /\ configs'[Codex].entry = entry
          /\ \A d \in Client \ {Codex} : configs'[d] = configs[d]
      BY <1>1, <3>1, <3>2
    <3> QED BY <3>3
  <2> QED BY <1>b, <2>2, <2>3
<1>2. ASSUME NEW at \in CommandPlaces, job' = [job EXCEPT !.at = at], linkPlan' = linkPlan,
             \/ configs' = configs
             \/ \E entry \in {"none", "current"} : configs' = [configs EXCEPT ![Codex].entry = entry]
      PROVE  LinkInv'
  <2>1. /\ job'.at = at /\ job'.todo = job.todo /\ job'.undo = job.undo /\ job'.seen = job.seen
        /\ job'.touched = job.touched /\ job'.mode = job.mode
    BY <1>0, <1>2 DEF Typed
  <2>2. at \in Places
    BY DEF Places
  <2>3. Typed'
    BY <1>0, <1>b, <1>2, <2>2 DEF Typed
  <2> QED BY <1>0, <1>b, <1>2, <2>1, <2>3, NextCommand
<1>3. ASSUME job' = Registered(job, Codex), linkPlan' = linkPlan,
             \/ configs' = configs
             \/ \E entry \in {"none", "current"} : configs' = [configs EXCEPT ![Codex].entry = entry]
      PROVE  LinkInv'
  <2>1. /\ Typed'
        /\ job'.at = "apply" /\ job'.todo = job.todo \ {Codex} /\ job'.undo = job.undo \cup {Codex}
        /\ job'.seen = job.seen /\ job'.touched = job.touched /\ job'.mode = job.mode
    BY <1>0, <1>b, <1>3, RegisteredTyped
  <2> QED BY <1>0, <1>b, <1>3, <2>1, RegisteredJob
<1>4. ASSUME job' = Failed(job) \/ job' = [Failed(job) EXCEPT !.unsure = {Codex}], linkPlan' = linkPlan,
             configs' = configs \/ configs' = [configs EXCEPT ![Codex].entry = "stale"]
      PROVE  LinkInv'
  <2>1. "stale" \in LinkEntry
    BY DEF LinkEntry
  <2>2. configs' \in [Client -> Config] /\ \A d \in Client \ {Codex} : configs'[d] = configs[d]
    BY <1>0, <1>1, <1>4, <2>1 DEF Typed
  <2>3. /\ Typed'
        /\ job'.at = (IF job.undo = {} THEN "idle" ELSE "rollback") /\ job'.todo = {} /\ job'.undo = job.undo
        /\ job'.seen = job.seen /\ job'.touched = job.touched /\ job'.mode = job.mode
    BY <1>0, <1>4, <2>2, FailedTyped
  <2>4. \A d \in job.undo : configs'[d] = configs[d]
    BY <1>0, <1>a, <2>2 DEF Typed
  <2> QED BY <2>3, <2>4, FailedJob
<1>5. CASE Inspect \/ TakeOut \/ AddAgainFails
  BY <1>0, <1>2, <1>5 DEF Inspect, TakeOut, AddAgainFails, Typed, CommandPlaces
<1>6. CASE RemoveCodex \/ AddCodex
  BY <1>3, <1>6 DEF RemoveCodex, AddCodex
<1>7. CASE PutBack \/ PutBackFails
  BY <1>4, <1>7 DEF PutBack, PutBackFails
<1>8. CASE Register
  BY <1>0, <1>2, <1>3, <1>4, <1>8 DEF Register, Typed, CommandPlaces
<1> QED BY <1>5, <1>6, <1>7, <1>8

\* A command or a write that reports an error, before or after it made its change.
LEMMA CommandFailing ==
  ASSUME LinkInv, NEW c \in Client, CommandFails(c)
  PROVE  LinkInv'
<1>1. /\ Typed /\ job.at # "idle" /\ Next1(c) /\ job.at \in FilePlaces \cup CommandPlaces
      /\ linkPlan' = linkPlan
  BY DEF CommandFails, LinkInv, FilePlaces, CommandPlaces
<1>2. Change(c) \in Config /\ (job.at = "verify" => Change(c) = configs[c])
  <2>1. configs[c] \in Config /\ job.seen[c] \in Config
    BY <1>1 DEF Typed
  <2>2. job.at = "write" => Op(c).after \in Config
    BY <1>1, <2>1, ChangedTyped DEF LinkInv, WriteReviewed, FilePlaces
  <2>3. \A entry \in {"none", "current"} : [configs[c] EXCEPT !.entry = entry] \in Config
    BY <2>1 DEF Config, LinkEntry
  <2> QED BY <2>1, <2>2, <2>3 DEF Change
<1>3. configs' \in [Client -> Config] /\ \A d \in Client \ {c} : configs'[d] = configs[d]
  BY <1>1, <1>2 DEF CommandFails, Typed
<1>4. job.at = "verify" => configs' = configs
  BY <1>1, <1>2 DEF CommandFails, Typed
<1>5. /\ Typed'
      /\ job'.at = (IF job.undo = {} THEN "idle" ELSE "rollback") /\ job'.todo = {} /\ job'.undo = job.undo
      /\ job'.seen = job.seen /\ job'.touched = job.touched /\ job'.mode = job.mode
  BY <1>1, <1>3, FailedTyped DEF CommandFails
<1>6. \A d \in job.undo : configs'[d] = configs[d]
  <2>1. job.at # "verify" => c \notin job.undo
    BY <1>1 DEF LinkInv, UndoLater, Next1
  <2> QED BY <1>1, <1>3, <1>4, <2>1 DEF Typed
<1> QED BY <1>5, <1>6, FailedJob

\* The rollback of one client.
LEMMA RollingBack ==
  ASSUME LinkInv, RestoreCodex \/ \E c \in Client : RestoreFile(c) \/ RestoreFails(c)
  PROVE  LinkInv'
<1>1. Typed /\ job.at = "rollback" /\ job.seen \in [Client -> Config] /\ configs \in [Client -> Config]
  BY DEF LinkInv, Typed, RestoreCodex, RestoreFile, RestoreFails
<1>2. ASSUME NEW c \in Client, job' = Undone(c) \/ job' = [Undone(c) EXCEPT !.undoFailed = TRUE],
             linkPlan' = linkPlan,
             NEW config \in Config, configs' = configs \/ configs' = [configs EXCEPT ![c] = config]
      PROVE  LinkInv'
  <2>1. /\ job'.undo = job.undo \ {c} /\ job'.at = (IF job'.undo = {} THEN "idle" ELSE "rollback")
        /\ job'.todo = job.todo /\ job'.seen = job.seen /\ job'.touched = job.touched /\ job'.mode = job.mode
    BY <1>1, <1>2 DEF Undone, Typed
  <2>2. configs' \in [Client -> Config] /\ \A d \in Client \ {c} : configs'[d] = configs[d]
    BY <1>1, <1>2
  <2>3. job.undo \ {c} \in SUBSET Client /\ "idle" \in Places /\ "rollback" \in Places
    BY <1>1 DEF Typed, Places
  <2>4. Typed'
    <3>1. CASE job' = Undone(c)
      BY <1>1, <1>2, <2>2, <2>3, <3>1 DEF Undone, Typed
    <3>2. CASE job' = [Undone(c) EXCEPT !.undoFailed = TRUE]
      BY <1>1, <1>2, <2>2, <2>3, <3>2 DEF Undone, Typed
    <3> QED BY <1>2, <3>1, <3>2
  <2> QED BY <1>1, <2>1, <2>2, <2>4, UndoneJob
<1>3. \A c \in Client, entry \in LinkEntry : [configs[c] EXCEPT !.entry = entry] \in Config
  BY <1>1 DEF Config
<1>4. ASSUME NEW c \in Client, RestoreFile(c)
      PROVE  LinkInv'
  <2>1. job.seen[c] \in Config
    BY <1>1
  <2> QED BY <1>2, <1>4, <2>1 DEF RestoreFile
<1>5. ASSUME NEW c \in Client, RestoreFails(c)
      PROVE  LinkInv'
  <2>1. [configs[c] EXCEPT !.entry = "none"] \in Config
    BY <1>3 DEF LinkEntry
  <2> QED BY <1>1, <1>2, <1>5, <2>1 DEF RestoreFails
<1>6. CASE RestoreCodex
  <2>1. Codex \in Client
    BY <1>1, <1>6 DEF RestoreCodex, LastChanged, Typed
  <2>2. [configs[Codex] EXCEPT !.entry = job.seen[Codex].entry] \in Config
    BY <1>1, <1>3, <2>1 DEF Config
  <2> QED BY <1>1, <1>2, <1>6, <2>1, <2>2 DEF RestoreCodex
<1> QED BY <1>4, <1>5, <1>6

\* Another program edits a client: from then on nothing is claimed about it.
LEMMA Editing ==
  ASSUME LinkInv, NEW c \in Client, NEW config \in Edited, Edit(c, config)
  PROVE  LinkInv'
<1>1. /\ Typed /\ config \in Config /\ linkPlan' = linkPlan
      /\ configs' = [configs EXCEPT ![c] = config] /\ job' = [job EXCEPT !.touched = @ \cup {c}]
  BY LinkAssumption DEF LinkInv, Edit
<1>2. /\ job'.at = job.at /\ job'.todo = job.todo /\ job'.seen = job.seen /\ job'.undo = job.undo
      /\ job'.touched = job.touched \cup {c} /\ job'.mode = job.mode /\ job'.ops = job.ops
  BY <1>1 DEF Typed
<1>3. Typed'
  <2>1. job.touched \cup {c} \in SUBSET Client
    BY <1>1 DEF Typed
  <2> QED BY <1>1, <2>1 DEF Typed
<1>4. \A d \in Client \ {c} : configs'[d] = configs[d]
  BY <1>1 DEF Typed
<1>5. \A d \in Client : Next1(d)' <=> Next1(d)
  BY <1>2 DEF Next1
<1>6. RightPlace' /\ UndoLater'
  BY <1>2, <1>5 DEF LinkInv, Typed, RightPlace, UndoLater
<1>7. WriteReviewed'
  BY <1>2, <1>5 DEF LinkInv, WriteReviewed, Recordable, Op
<1>8. StillSeen' /\ CodexOwned' /\ FileUndoable'
  BY <1>1, <1>2, <1>4, <1>5 DEF LinkInv, Typed, StillSeen, CodexOwned, FileUndoable
<1> QED BY <1>3, <1>6, <1>7, <1>8 DEF LinkInv

LEMMA LinkInvStep == LinkInv /\ [LinkNext]_linkVars => LinkInv'
  BY Bookkeeping, Checking, Applying, CodexCommands, CommandFailing, RollingBack, Editing
  DEF LinkNext, ClientStep, CodexStep

-----------------------------------------------------------------------------
\* What a step may do to the configuration of a client.
Allowed(c) ==
    configs'[c] # configs[c] =>
        \/ c \in job'.touched
        \/ /\ configs[c].entry = "none" \/ Owned(configs[c].entry)
           /\ Recoded(configs'[c].rest) = Recoded(configs[c].rest)

LEMMA CodexStepAllowed ==
  ASSUME LinkInv, CodexStep
  PROVE  \A c \in Client : Allowed(c)
<1>1. CASE configs' = configs
  BY <1>1 DEF Allowed
<1>2. CASE configs' # configs
  <2>1. /\ Typed /\ Codex \in Client /\ job'.touched = job.touched
        /\ Codex \notin job.touched => configs[Codex].entry \in {"none", "current", "stale"}
    BY <1>2 DEF LinkInv, RightPlace, CodexOwned, Typed, CommandPlaces, CodexStep, Inspect, RemoveCodex,
                Register, TakeOut, AddCodex, AddAgainFails, PutBack, PutBackFails, RestoreCodex,
                LastChanged, Failed, Registered, Undone
  <2>2. \E entry : configs' = [configs EXCEPT ![Codex].entry = entry]
    BY <1>2 DEF CodexStep, Inspect, RemoveCodex, Register, TakeOut, AddCodex, AddAgainFails, PutBack,
                PutBackFails, RestoreCodex
  <2>3. configs'[Codex].rest = configs[Codex].rest /\ \A d \in Client \ {Codex} : configs'[d] = configs[d]
    BY <2>1, <2>2 DEF Typed, Config
  <2> QED BY <2>1, <2>3 DEF Allowed, Owned
<1> QED BY <1>1, <1>2

LEMMA ClientStepAllowed ==
  ASSUME LinkInv, NEW c \in Client, ClientStep(c)
  PROVE  \A d \in Client : Allowed(d)
<1>0. Typed /\ configs \in [Client -> Config]
  BY DEF LinkInv, Typed
<1>1. CASE configs' = configs
  BY <1>1 DEF Allowed
<1>2. ASSUME NEW config, configs' = [configs EXCEPT ![c] = config], Allowed(c)
      PROVE  \A d \in Client : Allowed(d)
  BY <1>0, <1>2 DEF Allowed
<1>3. ASSUME job.at = "write", Next1(c), c \notin job.touched, job.seen \in [Client -> Config],
             configs'[c] = Op(c).after
      PROVE  Allowed(c)
  <2>1. configs[c] = job.seen[c] /\ Recordable(c) /\ Op(c).after = Changed(job.mode, job.seen[c])
    BY <1>3 DEF LinkInv, StillSeen, WriteReviewed, FilePlaces, Next1
  <2> QED BY <1>3, <2>1 DEF Allowed, Recordable, Changed, Recoded
<1>4. CASE WriteFile(c)
  <2>1. /\ job.at = "write" /\ Next1(c) /\ job'.touched = job.touched
        /\ configs' = [configs EXCEPT ![c] = Op(c).after]
    BY <1>0, <1>4 DEF WriteFile, Typed
  <2>2. configs'[c] = Op(c).after /\ job.seen \in [Client -> Config]
    BY <1>0, <2>1 DEF Typed
  <2> QED BY <1>2, <1>3, <2>1, <2>2 DEF Allowed
<1>5. CASE RestoreFile(c)
  <2>1. /\ c \in job.undo /\ c # Codex /\ job'.touched = job.touched /\ job.at = "rollback"
        /\ configs' = [configs EXCEPT ![c] = job.seen[c]]
    BY <1>0, <1>5 DEF RestoreFile, LastChanged, Undone, Typed
  <2>2. configs'[c] = job.seen[c] /\ job.seen[c] \in Config
    BY <1>0, <2>1 DEF Typed
  <2>3. c \notin job.touched => configs[c] = Changed(job.mode, job.seen[c])
    BY <2>1 DEF LinkInv, FileUndoable
  <2> QED BY <1>2, <2>1, <2>2, <2>3 DEF Allowed, Changed, Recoded, Owned
<1>6. ASSUME c = Codex, job'.touched = job.touched, job.at \in CommandPlaces \/ Codex \in job.undo,
             NEW entry, configs' = [configs EXCEPT ![c].entry = entry]
      PROVE  \A d \in Client : Allowed(d)
  <2>1. Codex \notin job.touched => configs[Codex].entry \in {"none", "current", "stale"}
    BY <1>6 DEF LinkInv, CodexOwned
  <2>2. configs'[c].rest = configs[c].rest /\ configs[c] \in Config
    BY <1>0, <1>6 DEF Config
  <2> QED BY <1>2, <1>6, <2>1, <2>2 DEF Allowed, Owned
<1>7. CASE RestoreFails(c)
  <2>1. /\ c \in job.undo /\ job'.touched = job.touched
        /\ configs' = configs \/ (c = Codex /\ configs' = [configs EXCEPT ![c].entry = "none"])
    BY <1>0, <1>7 DEF RestoreFails, LastChanged, Undone, Typed
  <2> QED BY <1>1, <1>6, <2>1
<1>8. CASE CommandFails(c)
  <2>1. /\ job'.touched = job.touched /\ Next1(c)
        /\ configs' = configs \/ configs' = [configs EXCEPT ![c] = Change(c)]
    BY <1>0, <1>8 DEF CommandFails, Failed, Typed
  <2>2. job.at \in CommandPlaces => c = Codex
    BY <2>1, NextUnique DEF LinkInv, RightPlace
  <2>3. CASE job.at = "write" /\ configs' = [configs EXCEPT ![c] = Change(c)]
    <3>1. Change(c) = Op(c).after
      BY <2>3 DEF Change
    <3>2. configs' = [configs EXCEPT ![c] = Op(c).after] /\ configs'[c] = Op(c).after
      BY <1>0, <2>3, <3>1
    <3>3. job.seen \in [Client -> Config]
      BY <1>0, <2>3 DEF Typed
    <3>4. Allowed(c)
      BY <1>3, <2>1, <2>3, <3>2, <3>3 DEF Allowed
    <3> QED BY <1>2, <3>2, <3>4
  <2>4. CASE job.at \in {"remove", "takeOut", "add"} /\ configs' = [configs EXCEPT ![c] = Change(c)]
    <3>1. \E entry : Change(c) = [configs[c] EXCEPT !.entry = entry]
      BY <2>4 DEF Change
    <3>2. PICK entry : Change(c) = [configs[c] EXCEPT !.entry = entry]
      BY <3>1
    <3>3. configs' = [configs EXCEPT ![c].entry = entry]
      BY <2>4, <3>2
    <3>4. job.at \in CommandPlaces
      BY <2>4 DEF CommandPlaces
    <3> QED BY <1>6, <2>1, <2>2, <3>3, <3>4
  <2>5. CASE job.at \notin {"write", "remove", "takeOut", "add"}
    <3>1. Change(c) = configs[c]
      BY <2>5 DEF Change
    <3> QED BY <1>0, <1>1, <2>1, <3>1
  <2> QED BY <1>1, <2>1, <2>3, <2>4, <2>5
<1> QED BY <1>1, <1>4, <1>5, <1>7, <1>8
    DEF ClientStep, CheckRefuses, CheckPasses, ReadBefore, Refuse, Skip, BackUp, BackUpFails, Verify

LEMMA LinkStepAllowed == LinkInv /\ [LinkNext]_linkVars => \A c \in Client : Allowed(c)
<1> SUFFICES ASSUME LinkInv, [LinkNext]_linkVars
             PROVE  \A c \in Client : Allowed(c)
  OBVIOUS
<1>1. ASSUME NEW c \in Client, NEW config \in Edited, Edit(c, config)
      PROVE  \A d \in Client : Allowed(d)
  BY <1>1 DEF Edit, Allowed, LinkInv, Typed
<1>2. CASE configs' = configs
  BY <1>2 DEF Allowed
<1>3. CASE \/ \E mode \in Mode, clients \in SUBSET Client : PlanLinks(mode, clients)
           \/ PlanLapses \/ StartApply \/ ReadFails \/ Checked \/ FinishLinks \/ Cancel \/ LinkCrash
           \/ UNCHANGED linkVars
  BY <1>2, <1>3 DEF PlanLinks, PlanLapses, StartApply, ReadFails, Refuse, Checked, FinishLinks, Cancel,
                    LinkCrash, linkVars
<1> QED BY <1>1, <1>3, CodexStepAllowed, ClientStepAllowed DEF LinkNext

\* However the changes, their rollbacks and the edits of other programs interleave, whatever
\* fails and wherever Apply is cancelled or dies, mcplink changes only an entry that is
\* AgentStack's or absent, and of the rest of the file nothing but what decoding and encoding
\* it does, unless the client was edited during the Apply.
THEOREM LinkForeignPreserved == LinkSpec => ForeignPreserved
<1>1. LinkInv /\ [LinkNext]_linkVars =>
        [\A c \in Client :
            configs'[c] # configs[c] =>
                \/ c \in job'.touched
                \/ /\ configs[c].entry = "none" \/ Owned(configs[c].entry)
                   /\ Recoded(configs'[c].rest) = Recoded(configs[c].rest)]_linkVars
  BY LinkStepAllowed DEF Allowed
<1> QED BY <1>1, LinkInvInit, LinkInvStep, PTL DEF LinkSpec, ForeignPreserved

-----------------------------------------------------------------------------
(* Apply is transactional: the clients are as reviewed or as they were.      *)
Changing == {"apply"} \cup FilePlaces \cup CommandPlaces

\* Every operation was planned from one configuration of its client.
PlannedOps(mode, ops) == \A c \in DOMAIN ops : \E config \in Config :
    /\ ops[c] = Operation(c, mode, config)
    /\ c = Codex => config.rest = "kept"
OpsPlanned == PlannedOps(linkPlan.mode, linkPlan.ops) /\ PlannedOps(job.mode, job.ops)

\* Commands change the registration of Codex and nothing else.
CodexKept == Codex \in Client =>
    /\ configs[Codex].rest = "kept"
    /\ job.at # "idle" => job.seen[Codex].rest = configs[Codex].rest

Outcome ==
    /\ job.at \in {"check", "read"} \cup Changing => job.result = "none"
    /\ job.at = "rollback" => job.result = "failed"

CodexMode ==
    /\ job.at = "remove" => job.mode = "unlink"
    /\ job.at \in {"register", "takeOut", "add", "addAgain", "putBack"} => job.mode = "link"

\* What was read of a client that passed the check is what was reviewed.
Passed(c) ==
    \/ job.at \in Changing \cup {"rollback"}
    \/ job.at \in {"check", "read"} /\ c \notin job.todo
    \/ job.at = "read" /\ Next1(c)
SeenReviewed == \A c \in Client :
    Untouched(c) /\ Passed(c) => Digest(c, job.seen[c]) = Op(c).before

\* A client whose turn is over was changed as reviewed and can be undone.
DoneUndoable == \A c \in Client :
    /\ Untouched(c) /\ job.at \in Changing /\ c \notin job.todo => c \in job.undo
    /\ job.at = "verify" /\ Next1(c) => c \in job.undo
DoneReviewed == \A c \in Client :
    Untouched(c) /\ job.at \in Changing /\ c \in job.undo => configs[c] = Op(c).after

\* Codex between its commands: as reviewed, or without the stale registration.
CodexReviewed == Codex \in Client /\ Untouched(Codex) =>
    /\ job.at \in {"inspect", "remove", "register", "takeOut", "add"} =>
           Digest(Codex, configs[Codex]) = Op(Codex).before
    /\ job.at \in {"takeOut", "addAgain", "putBack"} => Op(Codex).before.entry = "stale"

\* While a failed Apply undoes its changes, the other clients are as they were.
Restored == \A c \in Client :
    Untouched(c) /\ job.at = "rollback" /\ ~job.undoFailed /\ c \notin job.unsure \cup job.undo =>
        Digest(c, configs[c]) = Op(c).before

WholeInv ==
    /\ OpsPlanned /\ CodexKept
    /\ Outcome /\ CodexMode
    /\ SeenReviewed /\ DoneUndoable /\ DoneReviewed /\ CodexReviewed
    /\ Restored /\ LinkAllOrNothing

LEMMA WholeInvInit == LinkInit => WholeInv
<1> SUFFICES ASSUME LinkInit PROVE WholeInv
  OBVIOUS
<1>1. configs \in InitialConfigs /\ linkPlan = NoPlan /\ job = Idle
  BY DEF LinkInit
<1>2. job.at = "idle" /\ job.ops = <<>> /\ linkPlan.ops = <<>> /\ DOMAIN job.ops = {} /\ DOMAIN linkPlan.ops = {}
  BY <1>1 DEF Idle, NoPlan
<1>3. OpsPlanned /\ CodexKept
  BY <1>1, <1>2, CodexAssumption DEF OpsPlanned, PlannedOps, CodexKept
<1>4. Outcome /\ CodexMode /\ SeenReviewed /\ DoneUndoable /\ DoneReviewed /\ CodexReviewed /\ Restored /\ LinkAllOrNothing
  BY <1>2 DEF Outcome, CodexMode, SeenReviewed, Passed, DoneUndoable, DoneReviewed, CodexReviewed, Restored, LinkAllOrNothing,
              Untouched, Changing, FilePlaces, CommandPlaces
<1> QED BY <1>3, <1>4 DEF WholeInv

\* What the command line shows of Codex is the reviewed registration.
LEMMA CodexAfter ==
  ASSUME OpsPlanned, Codex \in DOMAIN job.ops
  PROVE  Op(Codex).after = [entry |-> IF job.mode = "link" THEN "current" ELSE "none",
                            rest |-> Op(Codex).before.rest]
<1>1. PICK config \in Config : /\ job.ops[Codex] = Operation(Codex, job.mode, config)
                               /\ config.rest = "kept"
  BY DEF OpsPlanned, PlannedOps
<1>2. Digest(Codex, config).rest = config.rest
  BY <1>1 DEF Digest, Config
<1> QED BY <1>1, <1>2 DEF Op, Operation, Changed, Recoded

\* Steps that change neither a client nor the job.
LEMMA SameWhole ==
  ASSUME WholeInv, PlannedOps(linkPlan.mode, linkPlan.ops)', configs' = configs, job'.at = job.at, job'.todo = job.todo,
         job'.seen = job.seen, job'.undo = job.undo, job'.touched = job.touched, job'.mode = job.mode,
         job'.ops = job.ops, job'.result = job.result, job'.undoFailed = job.undoFailed, job'.unsure = job.unsure
  PROVE  WholeInv'
<1>1. (\A c : Untouched(c)' <=> Untouched(c)) /\ (\A c : Op(c)' = Op(c)) /\ (\A c : Next1(c)' <=> Next1(c))
  BY DEF Untouched, Op, Next1
<1>2. OpsPlanned' /\ CodexKept'
  BY DEF WholeInv, OpsPlanned, CodexKept, PlannedOps
<1>3. Outcome' /\ CodexMode' /\ SeenReviewed' /\ CodexReviewed'
  BY <1>1 DEF WholeInv, Outcome, CodexMode, SeenReviewed, Passed, CodexReviewed
<1>4. DoneUndoable' /\ DoneReviewed' /\ Restored' /\ LinkAllOrNothing'
  BY <1>1 DEF WholeInv, DoneUndoable, DoneReviewed, Restored, LinkAllOrNothing
<1> QED BY <1>2, <1>3, <1>4 DEF WholeInv

\* When the job is over, what counts is its result.
LEMMA OverWhole ==
  ASSUME OpsPlanned', CodexKept', LinkAllOrNothing', job'.at = "idle"
  PROVE  WholeInv'
  BY DEF WholeInv, Outcome, CodexMode, SeenReviewed, Passed, DoneUndoable, DoneReviewed, CodexReviewed, Restored,
         Changing, FilePlaces, CommandPlaces

\* A client that is not changed yet is as reviewed.
LEMMA NotYetChanged ==
  ASSUME LinkInv, WholeInv, NEW c \in Client, Untouched(c), c \notin job.undo, job.at \in Changing,
         job.at \in CommandPlaces => c # Codex
  PROVE  Digest(c, configs[c]) = Op(c).before
<1>1. c \in job.todo
  BY DEF WholeInv, DoneUndoable
<1>2. job.at \in CommandPlaces => ~Next1(c)
  BY NextUnique DEF LinkInv, RightPlace
<1>3. job.at = "verify" => ~Next1(c)
  BY DEF WholeInv, DoneUndoable
<1>4. configs[c] = job.seen[c]
  BY <1>1, <1>2, <1>3 DEF LinkInv, StillSeen, Untouched, Changing, FilePlaces
<1> QED BY <1>4 DEF WholeInv, SeenReviewed, Passed

\* An error, at the client whose turn it was or before its change.
LEMMA FailedWhole ==
  ASSUME WholeInv, OpsPlanned', CodexKept', job'.at = (IF job.undo = {} THEN "idle" ELSE "rollback"),
         job'.result = "failed", job'.undo = job.undo, job'.seen = job.seen, job'.touched = job.touched,
         job'.mode = job.mode, job'.ops = job.ops, job.at \in Changing,
         \A c \in Client : Untouched(c) /\ c \notin job.undo \cup job'.unsure => Digest(c, configs'[c]) = Op(c).before
  PROVE  WholeInv'
<1>1. (\A c : Untouched(c)' <=> Untouched(c)) /\ (\A c : Op(c)' = Op(c))
  BY DEF Untouched, Op
<1>2. LinkAllOrNothing'
  BY <1>1 DEF LinkAllOrNothing
<1>3. CASE job.undo = {}
  BY <1>2, <1>3, OverWhole
<1>4. CASE job.undo # {}
  <2>1. job'.at = "rollback"
    BY <1>4
  <2>2. SeenReviewed' /\ Restored'
    BY <1>1, <2>1 DEF WholeInv, SeenReviewed, Passed, Restored
  <2>3. Outcome' /\ CodexMode' /\ DoneUndoable' /\ DoneReviewed' /\ CodexReviewed'
    BY <2>1 DEF Outcome, CodexMode, DoneUndoable, DoneReviewed, CodexReviewed, Changing, FilePlaces, CommandPlaces
  <2> QED BY <1>2, <2>2, <2>3 DEF WholeInv
<1> QED BY <1>3, <1>4

\* A change that is complete.
LEMMA RegisteredWhole ==
  ASSUME LinkInv, WholeInv, OpsPlanned', CodexKept', NEW c \in Client, job.at \in {"verify"} \cup CommandPlaces, Next1(c),
         job'.at = "apply", job'.todo = job.todo \ {c}, job'.undo = job.undo \cup {c}, job'.seen = job.seen,
         job'.touched = job.touched, job'.mode = job.mode, job'.ops = job.ops, job'.result = job.result,
         \A d \in Client \ {c} : configs'[d] = configs[d],
         Untouched(c) => configs'[c] = Op(c).after
  PROVE  WholeInv'
<1>1. (\A d : Untouched(d)' <=> Untouched(d)) /\ (\A d : Op(d)' = Op(d))
  BY DEF Untouched, Op
<1>2. job.at \in Changing /\ job'.at \in Changing
  BY DEF Changing, FilePlaces
<1>3. SeenReviewed' /\ DoneUndoable' /\ DoneReviewed'
  BY <1>1, <1>2 DEF WholeInv, SeenReviewed, Passed, DoneUndoable, DoneReviewed
<1>4. Outcome' /\ CodexMode' /\ CodexReviewed' /\ Restored' /\ LinkAllOrNothing'
  BY <1>2 DEF WholeInv, Outcome, CodexMode, CodexReviewed, Restored, LinkAllOrNothing
<1> QED BY <1>3, <1>4 DEF WholeInv

\* One step of the change of a client is followed by another.
LEMMA GoesOnWhole ==
  ASSUME WholeInv, OpsPlanned', CodexKept', job.at \in Changing, job'.at \in Changing, job'.at # "verify",
         job'.todo = job.todo, job'.undo = job.undo, job'.seen = job.seen, job'.touched = job.touched,
         job'.mode = job.mode, job'.ops = job.ops, job'.result = job.result,
         \A d \in job.undo : configs'[d] = configs[d],
         CodexMode', CodexReviewed'
  PROVE  WholeInv'
<1>1. (\A d : Untouched(d)' <=> Untouched(d)) /\ (\A d : Op(d)' = Op(d))
  BY DEF Untouched, Op
<1>3. SeenReviewed' /\ DoneUndoable' /\ DoneReviewed'
  BY <1>1 DEF WholeInv, SeenReviewed, Passed, DoneUndoable, DoneReviewed
<1>4. Outcome' /\ Restored' /\ LinkAllOrNothing'
  BY DEF WholeInv, Outcome, Restored, LinkAllOrNothing, Changing, FilePlaces, CommandPlaces
<1> QED BY <1>3, <1>4 DEF WholeInv

LEMMA BookkeepingWhole ==
  ASSUME LinkInv, WholeInv,
         \/ \E mode \in Mode, clients \in SUBSET Client : PlanLinks(mode, clients)
         \/ PlanLapses \/ Cancel \/ FinishLinks \/ LinkCrash \/ UNCHANGED linkVars
  PROVE  WholeInv'
<1>0. Typed /\ PlannedOps(linkPlan.mode, linkPlan.ops) /\ PlannedOps(job.mode, job.ops) /\ CodexKept
  BY DEF LinkInv, WholeInv, OpsPlanned
<1>1. ASSUME NEW mode \in Mode, NEW clients \in SUBSET Client, PlanLinks(mode, clients)
      PROVE  WholeInv'
  <2>1. PlannedOps(linkPlan.mode, linkPlan.ops)'
    <3>1. linkPlan'.mode = mode /\ linkPlan'.ops = [c \in clients |-> Operation(c, mode, configs[c])]
      BY <1>1 DEF PlanLinks
    <3>2. \A c \in clients : configs[c] \in Config /\ (c = Codex => configs[c].rest = "kept")
      BY <1>0 DEF Typed, CodexKept
    <3> QED BY <3>1, <3>2 DEF PlannedOps
  <2> QED BY <1>1, <2>1, SameWhole DEF PlanLinks
<1>2. CASE PlanLapses
  <2>1. linkPlan'.mode = linkPlan.mode /\ linkPlan'.ops = linkPlan.ops
    BY <1>0, <1>2 DEF PlanLapses, Typed
  <2> QED BY <1>0, <1>2, <2>1, SameWhole DEF PlanLapses, PlannedOps
<1>3. CASE UNCHANGED linkVars
  BY <1>0, <1>3, SameWhole DEF linkVars, PlannedOps
<1>4. CASE Cancel
  <2>1. /\ job'.at = job.at /\ job'.todo = job.todo /\ job'.seen = job.seen /\ job'.undo = job.undo
        /\ job'.touched = job.touched /\ job'.mode = job.mode /\ job'.ops = job.ops
        /\ job'.result = job.result /\ job'.undoFailed = job.undoFailed /\ job'.unsure = job.unsure
    BY <1>0, <1>4 DEF Cancel, Typed
  <2> QED BY <1>0, <1>4, <2>1, SameWhole DEF Cancel, PlannedOps
<1>5. CASE FinishLinks
  <2>1. /\ job'.at = "idle" /\ job'.mode = job.mode /\ job'.ops = job.ops /\ job'.touched = job.touched
        /\ job'.result = "applied" /\ job'.seen = job.seen /\ configs' = configs /\ job.at \in Changing /\ job.todo = {}
    BY <1>0, <1>5 DEF FinishLinks, Typed, Changing
  <2>2. PlannedOps(NoPlan.mode, NoPlan.ops)
    BY DEF PlannedOps, NoPlan
  <2>3. OpsPlanned' /\ CodexKept'
    BY <1>0, <1>5, <2>1, <2>2 DEF OpsPlanned, PlannedOps, CodexKept, FinishLinks
  <2>4. (\A c : Untouched(c)' <=> Untouched(c)) /\ (\A c : Op(c)' = Op(c))
    BY <2>1 DEF Untouched, Op
  <2>5. LinkAllOrNothing'
    BY <2>1, <2>4 DEF LinkAllOrNothing, WholeInv, DoneUndoable, DoneReviewed
  <2> QED BY <2>1, <2>3, <2>5, OverWhole
<1>6. CASE LinkCrash
  <2>1. /\ job'.at = "idle" /\ job'.mode = job.mode /\ job'.ops = job.ops
        /\ job'.result = "crashed" /\ configs' = configs /\ linkPlan' = linkPlan
    BY <1>0, <1>6 DEF LinkCrash, Typed
  <2>2. OpsPlanned' /\ CodexKept' /\ LinkAllOrNothing'
    BY <1>0, <2>1 DEF OpsPlanned, PlannedOps, CodexKept, LinkAllOrNothing
  <2> QED BY <2>1, <2>2, OverWhole
<1> QED BY <1>1, <1>2, <1>3, <1>4, <1>5, <1>6

\* The check of the clients; what passes it is what was reviewed.
LEMMA CheckingWhole ==
  ASSUME LinkInv, WholeInv,
         StartApply \/ ReadFails \/ Checked \/ \E c \in Client : CheckRefuses(c) \/ CheckPasses(c) \/ ReadBefore(c)
  PROVE  WholeInv'
<1>0. Typed /\ PlannedOps(linkPlan.mode, linkPlan.ops) /\ PlannedOps(job.mode, job.ops) /\ CodexKept
  BY DEF LinkInv, WholeInv, OpsPlanned
<1>1. CASE StartApply
  <2>1. /\ job'.at = "check" /\ job'.todo = DOMAIN job'.ops /\ job'.seen = configs /\ job'.ops = linkPlan.ops
        /\ job'.mode = linkPlan.mode /\ job'.result = "none" /\ configs' = configs /\ linkPlan' = linkPlan
    BY <1>1 DEF StartApply, Idle
  <2>2. OpsPlanned' /\ CodexKept'
    BY <1>0, <2>1 DEF OpsPlanned, PlannedOps, CodexKept
  <2>3. SeenReviewed'
    BY <2>1 DEF SeenReviewed, Passed, Untouched, Changing, FilePlaces, CommandPlaces
  <2>4. Outcome' /\ CodexMode' /\ DoneUndoable' /\ DoneReviewed' /\ CodexReviewed' /\ Restored' /\ LinkAllOrNothing'
    BY <2>1 DEF Outcome, CodexMode, DoneUndoable, DoneReviewed, CodexReviewed, Restored, LinkAllOrNothing,
                Changing, FilePlaces, CommandPlaces
  <2> QED BY <2>2, <2>3, <2>4 DEF WholeInv
<1>2. CASE ReadFails \/ \E c \in Client : CheckRefuses(c)
  <2>1. Refuse
    BY <1>2 DEF ReadFails, CheckRefuses
  <2>2. /\ job'.at = "idle" /\ job'.mode = job.mode /\ job'.ops = job.ops
        /\ job'.result = "refused" /\ configs' = configs /\ linkPlan' = linkPlan
    BY <1>0, <2>1 DEF Refuse, Typed
  <2>3. OpsPlanned' /\ CodexKept' /\ LinkAllOrNothing'
    BY <1>0, <2>2 DEF OpsPlanned, PlannedOps, CodexKept, LinkAllOrNothing
  <2> QED BY <2>2, <2>3, OverWhole
<1>3. ASSUME job.at \in {"check", "read"}, job'.at \in {"check", "read", "apply"}, configs' = configs, linkPlan' = linkPlan,
             job'.mode = job.mode, job'.ops = job.ops, job'.touched = job.touched, job'.result = job.result,
             job'.undo = job.undo, CodexKept', SeenReviewed', job'.at = "apply" => job'.todo = DOMAIN job.ops
      PROVE  WholeInv'
  <2>1. OpsPlanned'
    BY <1>0, <1>3 DEF OpsPlanned, PlannedOps
  <2>2. Outcome' /\ CodexMode' /\ CodexReviewed' /\ Restored' /\ LinkAllOrNothing'
    BY <1>3 DEF WholeInv, Outcome, CodexMode, CodexReviewed, Restored, LinkAllOrNothing, Changing, FilePlaces, CommandPlaces
  <2>3. job.undo = {}
    BY <1>3 DEF LinkInv, UndoLater
  <2>4. DoneUndoable' /\ DoneReviewed'
    BY <1>3, <2>3 DEF DoneUndoable, DoneReviewed, Untouched, Changing, FilePlaces, CommandPlaces
  <2> QED BY <1>3, <2>1, <2>2, <2>4 DEF WholeInv
<1>4. CASE Checked
  <2>1. /\ job.at = "check" /\ job.todo = {} /\ job'.at = "apply" /\ job'.todo = DOMAIN job.ops /\ job'.seen = job.seen
        /\ job'.mode = job.mode /\ job'.ops = job.ops /\ job'.touched = job.touched /\ job'.result = job.result
        /\ job'.undo = job.undo /\ configs' = configs /\ linkPlan' = linkPlan
    BY <1>0, <1>4 DEF Checked, Typed
  <2>2. CodexKept' /\ SeenReviewed'
    BY <1>0, <2>1 DEF CodexKept, WholeInv, SeenReviewed, Passed, Untouched, Op
  <2> QED BY <1>3, <2>1, <2>2
<1>5. ASSUME NEW c \in Client, CheckPasses(c) \/ ReadBefore(c)
      PROVE  WholeInv'
  <2>0. job.seen \in [Client -> Config] /\ configs \in [Client -> Config]
    BY <1>0, <1>5 DEF CheckPasses, ReadBefore, Typed
  <2>1. /\ job.at \in {"check", "read"} /\ job'.at \in {"check", "read"} /\ configs' = configs /\ linkPlan' = linkPlan
        /\ job'.mode = job.mode /\ job'.ops = job.ops /\ job'.touched = job.touched /\ job'.result = job.result
        /\ job'.undo = job.undo /\ Next1(c)
    BY <1>0, <1>5 DEF CheckPasses, ReadBefore, Typed
  <2>2. \/ /\ job'.at = "read" /\ job.at = "check" /\ job'.seen = job.seen /\ job'.todo = job.todo
        \/ /\ job'.at = job.at /\ job.at = "check"
           /\ job'.seen = [job.seen EXCEPT ![c] = configs[c]] /\ job'.todo = job.todo \ {c}
        \/ /\ job'.at = "check" /\ job.at = "read"
           /\ job'.seen = [job.seen EXCEPT ![c] = configs[c]] /\ job'.todo = job.todo \ {c}
    BY <1>0, <1>5 DEF CheckPasses, ReadBefore, Typed
  <2>3. CodexKept'
    BY <1>0, <2>0, <2>1, <2>2 DEF CodexKept
  <2>4. Untouched(c) /\ job.at = "check" => Digest(c, configs[c]) = Op(c).before
    BY <1>5 DEF CheckPasses, ReadBefore, Untouched
  <2>5. Untouched(c) => configs[c] = job.seen[c]
    BY <2>1 DEF LinkInv, StillSeen, Untouched
  <2>6. (\A d : Untouched(d)' <=> Untouched(d)) /\ (\A d : Op(d)' = Op(d))
    BY <2>1 DEF Untouched, Op
  <2>7. SeenReviewed'
    <3>1. Untouched(c) => Digest(c, configs[c]) = Op(c).before
      BY <2>1, <2>4, <2>5 DEF WholeInv, SeenReviewed, Passed
    <3>2. SUFFICES ASSUME NEW d \in Client, Untouched(d), Passed(d)'
                   PROVE  Digest(d, job'.seen[d]) = Op(d).before
      BY <2>6 DEF SeenReviewed
    <3>3. CASE d = c
      BY <2>0, <2>2, <2>5, <3>1, <3>2, <3>3
    <3>4. CASE d # c
      <4>1. job'.seen[d] = job.seen[d] /\ (d \in job'.todo <=> d \in job.todo)
        BY <2>0, <2>2, <3>4
      <4>2. ~Next1(d)
        BY <2>1, <3>4, NextUnique
      <4>3. Next1(d)' => ~(d \in job.todo /\ job'.at = "read")
        BY <2>1, <2>2, <4>2 DEF Next1
      <4>4. Passed(d)
        BY <2>1, <2>2, <3>2, <4>1, <4>2, <4>3 DEF Passed, Changing, FilePlaces, CommandPlaces, Next1
      <4> QED BY <3>2, <4>1, <4>4 DEF WholeInv, SeenReviewed
    <3> QED BY <3>3, <3>4
  <2> QED BY <1>3, <2>1, <2>3, <2>7
<1> QED BY <1>1, <1>2, <1>4, <1>5

\* Taking up a client, and the file that is written and verified.
LEMMA ApplyingWhole ==
  ASSUME LinkInv, WholeInv, NEW c \in Client, Skip(c) \/ BackUp(c) \/ BackUpFails(c) \/ WriteFile(c) \/ Verify(c)
  PROVE  WholeInv'
<1>0. /\ Typed /\ PlannedOps(linkPlan.mode, linkPlan.ops) /\ PlannedOps(job.mode, job.ops) /\ CodexKept
      /\ \A d \in Client : Next1(d) <=> d = c
  BY NextUnique DEF LinkInv, WholeInv, OpsPlanned, Skip, BackUp, BackUpFails, WriteFile, Verify
<1>1. /\ job.at \in {"apply", "write", "verify"} /\ linkPlan' = linkPlan /\ job'.mode = job.mode /\ job'.ops = job.ops
      /\ job'.seen = job.seen /\ job'.touched = job.touched
  BY <1>0 DEF Typed, Skip, BackUp, BackUpFails, WriteFile, Verify, Failed, Registered
<1>2. /\ job.at \in Changing /\ job.at # "idle"
      /\ (\A d : Untouched(d)' <=> Untouched(d)) /\ (\A d : Op(d)' = Op(d))
  BY <1>1 DEF Changing, FilePlaces, Untouched, Op
<1>3. OpsPlanned'
  BY <1>0, <1>1 DEF OpsPlanned, PlannedOps
<1>4. configs' = configs => CodexKept'
  BY <1>0, <1>1, <1>2 DEF CodexKept
<1>5. CASE Skip(c)
  <2>1. /\ job.at = "apply" /\ job'.at = "apply" /\ job'.todo = job.todo \ {c} /\ job'.undo = job.undo
        /\ job'.result = job.result /\ configs' = configs /\ ~Untouched(c)
    BY <1>0, <1>5 DEF Skip, Typed, Untouched
  <2>2. SeenReviewed' /\ DoneUndoable' /\ DoneReviewed'
    BY <1>1, <1>2, <2>1 DEF WholeInv, SeenReviewed, Passed, DoneUndoable, DoneReviewed, Changing
  <2>3. Outcome' /\ CodexMode' /\ CodexReviewed' /\ Restored' /\ LinkAllOrNothing'
    BY <2>1 DEF WholeInv, Outcome, CodexMode, CodexReviewed, Restored, LinkAllOrNothing, Changing
  <2> QED BY <1>3, <1>4, <2>1, <2>2, <2>3 DEF WholeInv
<1>6. CASE BackUp(c)
  <2>1. /\ job.at = "apply" /\ job'.at = (IF c = Codex THEN "inspect" ELSE "write") /\ job'.todo = job.todo
        /\ job'.undo = job.undo /\ job'.result = job.result /\ configs' = configs /\ c \in job.todo
    BY <1>0, <1>6 DEF BackUp, Typed, Next1
  <2>2. CodexMode'
    BY <2>1 DEF CodexMode
  <2>3. CodexReviewed'
    <3>1. c = Codex /\ Untouched(c) => configs[c] = job.seen[c]
      BY <2>1 DEF LinkInv, StillSeen, Untouched
    <3>2. c = Codex /\ Untouched(c) => Digest(c, configs[c]) = Op(c).before
      BY <1>2, <3>1 DEF WholeInv, SeenReviewed, Passed
    <3> QED BY <1>2, <2>1, <3>2 DEF CodexReviewed
  <2>4. job'.at \in Changing /\ job'.at # "verify"
    BY <2>1 DEF Changing, FilePlaces, CommandPlaces
  <2> QED BY <1>1, <1>2, <1>3, <1>4, <2>1, <2>2, <2>3, <2>4, GoesOnWhole
<1>7. ASSUME job' = Failed(job), configs' = configs
      PROVE  WholeInv'
  <2>1. /\ job'.at = (IF job.undo = {} THEN "idle" ELSE "rollback") /\ job'.result = "failed" /\ job'.undo = job.undo
    BY <1>0, <1>7 DEF Failed, Typed
  <2>2. \A d \in Client : Untouched(d) /\ d \notin job.undo => Digest(d, configs[d]) = Op(d).before
    BY <1>1, <1>2, NotYetChanged DEF CommandPlaces
  <2> QED BY <1>1, <1>2, <1>3, <1>4, <1>7, <2>1, <2>2, FailedWhole
<1>8. CASE BackUpFails(c)
  BY <1>7, <1>8 DEF BackUpFails
<1>9. CASE WriteFile(c)
  <2>1. /\ job.at = "write" /\ job'.at = "verify" /\ job'.todo = job.todo /\ job'.undo = job.undo \cup {c}
        /\ job'.result = job.result /\ configs' = [configs EXCEPT ![c] = Op(c).after]
    BY <1>0, <1>9 DEF WriteFile, Typed
  <2>2. c # Codex /\ configs'[c] = Op(c).after /\ \A d \in Client \ {c} : configs'[d] = configs[d]
    BY <1>0, <2>1 DEF LinkInv, RightPlace, FilePlaces, Typed
  <2>3. CodexKept'
    BY <1>0, <1>1, <2>1, <2>2 DEF CodexKept
  <2>4. \A d \in Client : Next1(d)' <=> d = c
    BY <1>0, <2>1 DEF Next1
  <2>5. SeenReviewed' /\ DoneUndoable' /\ DoneReviewed'
    BY <1>1, <1>2, <2>1, <2>2, <2>4 DEF WholeInv, SeenReviewed, Passed, DoneUndoable, DoneReviewed, Changing, FilePlaces
  <2>6. Outcome' /\ CodexMode' /\ CodexReviewed' /\ Restored' /\ LinkAllOrNothing'
    BY <2>1 DEF WholeInv, Outcome, CodexMode, CodexReviewed, Restored, LinkAllOrNothing, Changing, FilePlaces
  <2> QED BY <1>3, <2>3, <2>5, <2>6 DEF WholeInv
<1>10. CASE Verify(c)
  <2>1. job.at = "verify" /\ Next1(c) /\ configs' = configs
    BY <1>10 DEF Verify
  <2>2. CASE configs[c] = Op(c).after
    <3>1. job' = Registered(job, c)
      BY <1>10, <2>2 DEF Verify
    <3>2. /\ job'.at = "apply" /\ job'.todo = job.todo \ {c} /\ job'.undo = job.undo \cup {c}
          /\ job'.result = job.result
      BY <1>0, <3>1 DEF Registered, Typed
    <3> QED BY <1>1, <1>3, <1>4, <2>1, <2>2, <3>2, RegisteredWhole
  <2>3. CASE configs[c] # Op(c).after
    BY <1>7, <1>10, <2>1, <2>3 DEF Verify
  <2> QED BY <2>2, <2>3
<1> QED BY <1>5, <1>6, <1>8, <1>9, <1>10

\* A registration that is the reviewed one but for the entry.
LEMMA CodexEntry ==
  ASSUME LinkInv, WholeInv, Codex \in Client, Untouched(Codex), job.at \in CommandPlaces \cup {"rollback"}
  PROVE  /\ Op(Codex).before.rest = configs[Codex].rest
         /\ Op(Codex).before = [entry |-> Op(Codex).before.entry, rest |-> configs[Codex].rest]
         /\ \A entry \in LinkEntry :
              LET changed == [configs[Codex] EXCEPT !.entry = entry]
              IN  /\ changed = [entry |-> entry, rest |-> configs[Codex].rest]
                  /\ Digest(Codex, changed) = [entry |-> IF entry = "extended" THEN "current" ELSE entry,
                                               rest |-> configs[Codex].rest]
<1>1. configs[Codex] \in Config /\ job.seen[Codex] \in Config /\ job.at # "idle"
  BY DEF LinkInv, Typed, CommandPlaces
<1>2. Digest(Codex, job.seen[Codex]) = Op(Codex).before
  BY DEF WholeInv, SeenReviewed, Passed, Changing
<1>3. job.seen[Codex].rest = configs[Codex].rest
  BY <1>1 DEF WholeInv, CodexKept
<1>4. Op(Codex).before = [entry |-> IF job.seen[Codex].entry = "extended" THEN "current" ELSE job.seen[Codex].entry,
                          rest |-> configs[Codex].rest]
  BY <1>1, <1>2, <1>3 DEF Digest, Config
<1>5. ASSUME NEW entry \in LinkEntry, NEW changed, changed = [configs[Codex] EXCEPT !.entry = entry]
      PROVE  /\ changed = [entry |-> entry, rest |-> configs[Codex].rest]
             /\ Digest(Codex, changed) = [entry |-> IF entry = "extended" THEN "current" ELSE entry,
                                          rest |-> configs[Codex].rest]
  <2>1. changed = [entry |-> entry, rest |-> configs[Codex].rest]
    BY <1>1, <1>5 DEF Config
  <2> QED BY <2>1 DEF Digest
<1> QED BY <1>4, <1>5

\* The commands that change Codex.
LEMMA CodexWhole ==
  ASSUME LinkInv, WholeInv, Inspect \/ RemoveCodex \/ Register \/ TakeOut \/ AddCodex \/ AddAgainFails \/ PutBack \/ PutBackFails
  PROVE  WholeInv'
<1>0. /\ Typed /\ PlannedOps(linkPlan.mode, linkPlan.ops) /\ PlannedOps(job.mode, job.ops) /\ CodexKept
      /\ Codex \in Client /\ Next1(Codex) /\ job.at \in CommandPlaces
  <2>1. job.at \in CommandPlaces
    BY DEF CommandPlaces, Inspect, RemoveCodex, Register, TakeOut, AddCodex, AddAgainFails, PutBack, PutBackFails
  <2> QED BY <2>1 DEF LinkInv, WholeInv, OpsPlanned, RightPlace
<1>1. /\ job.at \in Changing /\ job.at # "idle" /\ linkPlan' = linkPlan /\ job'.mode = job.mode /\ job'.ops = job.ops
      /\ job'.seen = job.seen /\ job'.touched = job.touched
  <2>1. job.at \in Changing /\ job.at # "idle"
    BY <1>0 DEF Changing, CommandPlaces
  <2>2. CASE Inspect \/ TakeOut \/ AddAgainFails
    BY <1>0, <2>1, <2>2 DEF Typed, Inspect, TakeOut, AddAgainFails
  <2>3. CASE RemoveCodex \/ AddCodex
    BY <1>0, <2>1, <2>3 DEF Typed, RemoveCodex, AddCodex, Registered
  <2>4. CASE Register
    BY <1>0, <2>1, <2>4 DEF Typed, Register, Registered, Failed
  <2>5. CASE PutBack \/ PutBackFails
    BY <1>0, <2>1, <2>5 DEF Typed, PutBack, PutBackFails, Failed
  <2> QED BY <2>1, <2>2, <2>3, <2>4, <2>5
<1>2. (\A d : Untouched(d)' <=> Untouched(d)) /\ (\A d : Op(d)' = Op(d)) /\ OpsPlanned'
  BY <1>0, <1>1 DEF Untouched, Op, OpsPlanned, PlannedOps
<1>3. ASSUME NEW entry \in LinkEntry, configs' = [configs EXCEPT ![Codex].entry = entry]
      PROVE  /\ configs'[Codex].rest = configs[Codex].rest
             /\ \A d \in Client \ {Codex} : configs'[d] = configs[d]
             /\ Untouched(Codex) =>
                  /\ configs'[Codex] = [entry |-> entry, rest |-> Op(Codex).before.rest]
                  /\ Digest(Codex, configs'[Codex]) =
                        [entry |-> IF entry = "extended" THEN "current" ELSE entry, rest |-> Op(Codex).before.rest]
  <2>1. configs \in [Client -> Config]
    BY <1>0 DEF Typed
  <2>2. configs'[Codex] = [configs[Codex] EXCEPT !.entry = entry] /\ \A d \in Client \ {Codex} : configs'[d] = configs[d]
    BY <1>0, <1>3, <2>1
  <2>3. configs'[Codex].rest = configs[Codex].rest
    BY <1>0, <2>1, <2>2 DEF Config
  <2> QED BY <1>0, <2>2, <2>3, CodexEntry
<1>4. ASSUME configs' = configs \/ \E entry \in {"none", "current", "stale"} : configs' = [configs EXCEPT ![Codex].entry = entry]
      PROVE  CodexKept' /\ \A d \in Client \ {Codex} : configs'[d] = configs[d]
  <2>1. configs'[Codex].rest = configs[Codex].rest /\ \A d \in Client \ {Codex} : configs'[d] = configs[d]
    BY <1>3, <1>4 DEF LinkEntry
  <2> QED BY <1>0, <1>1, <2>1 DEF CodexKept
<1>5. Untouched(Codex) => Op(Codex).after = [entry |-> IF job.mode = "link" THEN "current" ELSE "none",
                                             rest |-> Op(Codex).before.rest]
  BY CodexAfter DEF WholeInv, Untouched
<1>6. Codex \notin job.undo
  BY <1>0 DEF LinkInv, UndoLater, Next1, CommandPlaces
<1>7. ASSUME NEW at \in CommandPlaces, job' = [job EXCEPT !.at = at], CodexMode', CodexReviewed',
             configs' = configs \/ \E entry \in {"none", "current"} : configs' = [configs EXCEPT ![Codex].entry = entry]
      PROVE  WholeInv'
  <2>1. job'.at = at /\ job'.todo = job.todo /\ job'.undo = job.undo /\ job'.result = job.result
    BY <1>0, <1>7 DEF Typed
  <2>2. at \in Changing /\ at # "verify"
    BY DEF Changing, CommandPlaces
  <2>3. CodexKept' /\ \A d \in job.undo : configs'[d] = configs[d]
    BY <1>0, <1>4, <1>6, <1>7 DEF Typed
  <2> QED BY <1>1, <1>2, <1>7, <2>1, <2>2, <2>3, GoesOnWhole
<1>8. ASSUME job' = Registered(job, Codex), Untouched(Codex) => configs'[Codex] = Op(Codex).after,
             configs' = configs \/ \E entry \in {"none", "current"} : configs' = [configs EXCEPT ![Codex].entry = entry]
      PROVE  WholeInv'
  <2>1. /\ job'.at = "apply" /\ job'.todo = job.todo \ {Codex} /\ job'.undo = job.undo \cup {Codex}
        /\ job'.result = job.result
    BY <1>0, <1>8 DEF Registered, Typed
  <2>2. CodexKept' /\ \A d \in Client \ {Codex} : configs'[d] = configs[d]
    BY <1>4, <1>8
  <2> QED BY <1>0, <1>1, <1>2, <1>8, <2>1, <2>2, RegisteredWhole
<1>9. ASSUME \/ job' = Failed(job) /\ (Untouched(Codex) => Digest(Codex, configs'[Codex]) = Op(Codex).before)
             \/ job' = [Failed(job) EXCEPT !.unsure = {Codex}],
             configs' = configs \/ configs' = [configs EXCEPT ![Codex].entry = "stale"]
      PROVE  WholeInv'
  <2>1. /\ job'.at = (IF job.undo = {} THEN "idle" ELSE "rollback") /\ job'.result = "failed" /\ job'.undo = job.undo
    BY <1>0, <1>9 DEF Failed, Typed
  <2>2. CodexKept' /\ \A d \in Client \ {Codex} : configs'[d] = configs[d]
    BY <1>4, <1>9
  <2>3. (Untouched(Codex) => Digest(Codex, configs'[Codex]) = Op(Codex).before) \/ Codex \in job'.unsure
    <3>1. job' = [Failed(job) EXCEPT !.unsure = {Codex}] => job'.unsure = {Codex}
      BY <1>0 DEF Failed, Typed
    <3> QED BY <1>9, <3>1
  <2>4. \A d \in Client : Untouched(d) /\ d \notin job.undo \cup job'.unsure => Digest(d, configs'[d]) = Op(d).before
    BY <1>1, <2>2, <2>3, NotYetChanged
  <2> QED BY <1>1, <1>2, <2>1, <2>2, <2>4, FailedWhole
<1>10. CASE Inspect
  <2>1. /\ job.at = "inspect" /\ configs' = configs /\ Digest(Codex, configs[Codex]) = Op(Codex).before
        /\ job' = [job EXCEPT !.at = IF job.mode = "link" THEN "register" ELSE "remove"]
    BY <1>10 DEF Inspect
  <2>2. job'.at = IF job.mode = "link" THEN "register" ELSE "remove"
    BY <1>0, <2>1 DEF Typed
  <2>3. CodexMode'
    BY <1>0, <1>1, <2>2 DEF CodexMode, Typed, Mode
  <2>4. CodexReviewed'
    BY <1>2, <2>1, <2>2 DEF CodexReviewed
  <2> QED BY <1>7, <2>1, <2>3, <2>4 DEF CommandPlaces
<1>11. CASE RemoveCodex
  <2>1. job.mode = "unlink"
    BY <1>11 DEF RemoveCodex, WholeInv, CodexMode
  <2>2. Untouched(Codex) => configs'[Codex] = Op(Codex).after
    BY <1>3, <1>5, <1>11, <2>1 DEF RemoveCodex, LinkEntry
  <2> QED BY <1>8, <1>11, <2>2 DEF RemoveCodex
<1>12. CASE Register
  <2>1. job.at = "register" /\ configs' = configs /\ job.mode = "link"
    BY <1>12 DEF Register, WholeInv, CodexMode
  <2>2. Untouched(Codex) => /\ Digest(Codex, configs[Codex]) = Op(Codex).before
                            /\ configs[Codex].entry \in {"none", "current", "stale"}
    BY <1>0, <2>1 DEF WholeInv, CodexReviewed, LinkInv, CodexOwned, Untouched
  <2>3. configs[Codex] \in Config
    BY <1>0 DEF Typed
  <2>4. Untouched(Codex) => Op(Codex).before = configs[Codex]
    BY <2>2, <2>3 DEF Digest, Config
  <2>5. CASE configs[Codex].entry \in {"current", "extended"} /\ job' = Registered(job, Codex)
    <3>1. Untouched(Codex) => configs[Codex] = [entry |-> "current", rest |-> Op(Codex).before.rest]
      BY <2>2, <2>3, <2>4, <2>5 DEF Config
    <3> QED BY <1>5, <1>8, <2>1, <2>5, <3>1
  <2>6. CASE configs[Codex].entry = "none" /\ job' = [job EXCEPT !.at = "add"]
    <3>1. job'.at = "add"
      BY <1>0, <2>6 DEF Typed
    <3>2. CodexMode' /\ CodexReviewed'
      BY <1>1, <1>2, <2>1, <2>2, <3>1 DEF CodexMode, CodexReviewed
    <3> QED BY <1>7, <2>1, <2>6, <3>2 DEF CommandPlaces
  <2>7. CASE configs[Codex].entry = "stale" /\ job' = [job EXCEPT !.at = "takeOut"]
    <3>1. job'.at = "takeOut"
      BY <1>0, <2>7 DEF Typed
    <3>2. CodexMode' /\ CodexReviewed'
      BY <1>1, <1>2, <2>1, <2>2, <2>4, <2>7, <3>1 DEF CodexMode, CodexReviewed
    <3> QED BY <1>7, <2>1, <2>7, <3>2 DEF CommandPlaces
  <2>8. CASE job' = Failed(job)
    BY <1>9, <2>1, <2>2, <2>8
  <2> QED BY <1>12, <2>5, <2>6, <2>7, <2>8 DEF Register
<1>13. CASE TakeOut \/ AddAgainFails
  <2>1. PICK at \in {"addAgain", "putBack"} : job' = [job EXCEPT !.at = at]
    BY <1>13 DEF TakeOut, AddAgainFails
  <2>2. job'.at = at /\ job.at \in {"takeOut", "addAgain"}
    BY <1>0, <1>13, <2>1 DEF TakeOut, AddAgainFails, Typed
  <2>3. CodexMode' /\ CodexReviewed'
    BY <1>1, <1>2, <2>2 DEF WholeInv, CodexMode, CodexReviewed
  <2> QED BY <1>7, <1>13, <2>1, <2>3 DEF TakeOut, AddAgainFails, CommandPlaces
<1>14. CASE AddCodex
  <2>1. job.mode = "link"
    BY <1>14 DEF AddCodex, WholeInv, CodexMode
  <2>2. Untouched(Codex) => configs'[Codex] = Op(Codex).after
    BY <1>3, <1>5, <1>14, <2>1 DEF AddCodex, LinkEntry
  <2> QED BY <1>8, <1>14, <2>2 DEF AddCodex
<1>15. CASE PutBack
  <2>1. job.at = "putBack" /\ job' = Failed(job) /\ configs' = [configs EXCEPT ![Codex].entry = "stale"]
    BY <1>15 DEF PutBack
  <2>2. Untouched(Codex) => Op(Codex).before = [entry |-> "stale", rest |-> Op(Codex).before.rest]
    BY <1>0, <2>1, CodexEntry DEF WholeInv, CodexReviewed
  <2>3. Untouched(Codex) => Digest(Codex, configs'[Codex]) = [entry |-> "stale", rest |-> Op(Codex).before.rest]
    BY <1>3, <2>1 DEF LinkEntry
  <2> QED BY <1>9, <2>1, <2>2, <2>3
<1>16. CASE PutBackFails
  BY <1>9, <1>16 DEF PutBackFails
<1> QED BY <1>10, <1>11, <1>12, <1>13, <1>14, <1>15, <1>16

\* A command or a write that reports an error: the client is unsure if it was changed.
LEMMA CommandFailingWhole ==
  ASSUME LinkInv, WholeInv, NEW c \in Client, CommandFails(c)
  PROVE  WholeInv'
<1>0. /\ Typed /\ PlannedOps(linkPlan.mode, linkPlan.ops) /\ PlannedOps(job.mode, job.ops) /\ CodexKept
      /\ Next1(c) /\ linkPlan' = linkPlan
      /\ job.at \in {"write", "verify", "inspect", "remove", "register", "takeOut", "add"}
  BY DEF LinkInv, WholeInv, OpsPlanned, CommandFails
<1>1. /\ job'.at = (IF job.undo = {} THEN "idle" ELSE "rollback") /\ job'.result = "failed" /\ job'.undo = job.undo
      /\ job'.seen = job.seen /\ job'.touched = job.touched /\ job'.mode = job.mode /\ job'.ops = job.ops
      /\ job'.unsure = IF configs' = configs THEN {} ELSE {c}
  BY <1>0 DEF Typed, CommandFails, Failed
<1>2. job.at \in Changing /\ job.at # "idle" /\ OpsPlanned'
  BY <1>0, <1>1 DEF Changing, FilePlaces, CommandPlaces, OpsPlanned, PlannedOps
<1>3. configs' = configs \/ configs' = [configs EXCEPT ![c] = Change(c)]
  BY DEF CommandFails
<1>4. \A d \in Client \ {c} : configs'[d] = configs[d]
  BY <1>0, <1>3 DEF Typed
<1>5. c = Codex => configs'[c].rest = configs[c].rest
  <2>1. c = Codex => job.at # "write"
    BY <1>0 DEF LinkInv, RightPlace, FilePlaces
  <2>2. configs[c] \in Config /\ configs \in [Client -> Config]
    BY <1>0 DEF Typed
  <2>3. c = Codex => Change(c).rest = configs[c].rest
    BY <1>0, <2>1, <2>2 DEF Change, Config
  <2> QED BY <1>3, <2>2, <2>3
<1>6. CodexKept'
  BY <1>0, <1>1, <1>2, <1>4, <1>5 DEF CodexKept
<1>7. \A d \in Client : Untouched(d) /\ d \notin job.undo \cup job'.unsure => Digest(d, configs'[d]) = Op(d).before
  <2>1. \A d \in Client : Untouched(d) /\ d \notin job.undo /\ d # Codex => Digest(d, configs[d]) = Op(d).before
    BY <1>2, NotYetChanged
  <2>2. Untouched(Codex) /\ Codex \in Client /\ Codex \notin job.undo => Digest(Codex, configs[Codex]) = Op(Codex).before
    BY <1>0, <1>2, NotYetChanged DEF WholeInv, CodexReviewed, CommandPlaces
  <2> QED BY <1>1, <1>4, <2>1, <2>2
<1> QED BY <1>1, <1>2, <1>6, <1>7, FailedWhole

\* The rollback of one client puts back what was reviewed.
LEMMA RollbackWhole ==
  ASSUME LinkInv, WholeInv, RestoreCodex \/ \E c \in Client : RestoreFile(c) \/ RestoreFails(c)
  PROVE  WholeInv'
<1>0. /\ Typed /\ PlannedOps(linkPlan.mode, linkPlan.ops) /\ PlannedOps(job.mode, job.ops) /\ CodexKept
      /\ job.at = "rollback" /\ job.result = "failed" /\ job.seen \in [Client -> Config] /\ configs \in [Client -> Config]
  BY DEF LinkInv, Typed, WholeInv, OpsPlanned, Outcome, RestoreCodex, RestoreFile, RestoreFails
<1>1. ASSUME NEW c \in Client, job' = Undone(c) \/ job' = [Undone(c) EXCEPT !.undoFailed = TRUE], linkPlan' = linkPlan,
             \A d \in Client \ {c} : configs'[d] = configs[d],
             c = Codex => configs'[c].rest = configs[c].rest,
             job'.undoFailed \/ (Untouched(c) => Digest(c, configs'[c]) = Op(c).before)
      PROVE  WholeInv'
  <2>1. /\ job'.undo = job.undo \ {c} /\ job'.at = (IF job'.undo = {} THEN "idle" ELSE "rollback")
        /\ job'.result = "failed" /\ job'.seen = job.seen /\ job'.touched = job.touched /\ job'.mode = job.mode
        /\ job'.ops = job.ops /\ job'.unsure = job.unsure /\ (job.undoFailed => job'.undoFailed)
    BY <1>0, <1>1 DEF Undone, Typed
  <2>2. (\A d : Untouched(d)' <=> Untouched(d)) /\ (\A d : Op(d)' = Op(d)) /\ OpsPlanned'
    BY <1>0, <1>1, <2>1 DEF Untouched, Op, OpsPlanned, PlannedOps
  <2>3. CodexKept'
    BY <1>0, <1>1, <2>1 DEF CodexKept
  <2>4. \A d \in Client : Untouched(d) /\ ~job'.undoFailed /\ d \notin job.unsure \cup job'.undo =>
            Digest(d, configs'[d]) = Op(d).before
    BY <1>0, <1>1, <2>1 DEF WholeInv, Restored
  <2>5. CASE job'.undo = {}
    <3>1. LinkAllOrNothing'
      BY <2>1, <2>2, <2>4, <2>5 DEF LinkAllOrNothing
    <3> QED BY <2>1, <2>2, <2>3, <2>5, <3>1, OverWhole
  <2>6. CASE job'.undo # {}
    <3>1. job'.at = "rollback"
      BY <2>1, <2>6
    <3>2. SeenReviewed' /\ Restored'
      BY <1>0, <2>1, <2>2, <2>4, <3>1 DEF WholeInv, SeenReviewed, Passed, Restored
    <3>3. Outcome' /\ CodexMode' /\ DoneUndoable' /\ DoneReviewed' /\ CodexReviewed' /\ LinkAllOrNothing'
      BY <2>1, <3>1 DEF Outcome, CodexMode, DoneUndoable, DoneReviewed, CodexReviewed, LinkAllOrNothing,
                        Changing, FilePlaces, CommandPlaces
    <3> QED BY <2>2, <2>3, <3>2, <3>3 DEF WholeInv
  <2> QED BY <2>5, <2>6
<1>2. \A c \in Client : Untouched(c) => Digest(c, job.seen[c]) = Op(c).before
  BY <1>0 DEF WholeInv, SeenReviewed, Passed
<1>3. ASSUME NEW c \in Client, RestoreFile(c)
      PROVE  WholeInv'
  <2>1. c # Codex /\ configs' = [configs EXCEPT ![c] = job.seen[c]] /\ job' = Undone(c) /\ linkPlan' = linkPlan
    BY <1>3 DEF RestoreFile
  <2>2. configs'[c] = job.seen[c] /\ \A d \in Client \ {c} : configs'[d] = configs[d]
    BY <1>0, <2>1
  <2> QED BY <1>1, <1>2, <2>1, <2>2
<1>4. ASSUME NEW c \in Client, RestoreFails(c)
      PROVE  WholeInv'
  <2>1. /\ job' = [Undone(c) EXCEPT !.undoFailed = TRUE] /\ linkPlan' = linkPlan
        /\ configs' = configs \/ configs' = [configs EXCEPT ![c].entry = "none"]
    BY <1>4 DEF RestoreFails
  <2>2. job'.undoFailed
    BY <1>0, <2>1 DEF Undone, Typed
  <2>3. configs'[c].rest = configs[c].rest /\ \A d \in Client \ {c} : configs'[d] = configs[d]
    BY <1>0, <2>1 DEF Config
  <2> QED BY <1>1, <2>1, <2>2, <2>3
<1>5. CASE RestoreCodex
  <2>1. /\ configs' = [configs EXCEPT ![Codex].entry = job.seen[Codex].entry] /\ job' = Undone(Codex)
        /\ linkPlan' = linkPlan /\ Codex \in Client
    BY <1>0, <1>5 DEF RestoreCodex, LastChanged, Typed
  <2>2. /\ configs'[Codex] = [configs[Codex] EXCEPT !.entry = job.seen[Codex].entry]
        /\ \A d \in Client \ {Codex} : configs'[d] = configs[d]
    BY <1>0, <2>1
  <2>3. configs'[Codex] = job.seen[Codex]
    <3>1. job.seen[Codex].rest = configs[Codex].rest
      BY <1>0, <2>1 DEF CodexKept
    <3>2. job.seen[Codex] \in Config /\ configs[Codex] \in Config
      BY <1>0, <2>1
    <3>3. configs'[Codex] = [entry |-> job.seen[Codex].entry, rest |-> job.seen[Codex].rest]
      BY <2>2, <3>1, <3>2 DEF Config
    <3> QED BY <3>2, <3>3 DEF Config
  <2>4. configs'[Codex].rest = configs[Codex].rest
    BY <1>0, <2>1, <2>3 DEF CodexKept
  <2> QED BY <1>1, <1>2, <2>1, <2>2, <2>3, <2>4
<1> QED BY <1>3, <1>4, <1>5

\* Another program edits a client.
LEMMA EditingWhole ==
  ASSUME LinkInv, WholeInv, NEW c \in Client, NEW config \in Edited, Edit(c, config)
  PROVE  WholeInv'
<1>0. /\ Typed /\ PlannedOps(linkPlan.mode, linkPlan.ops) /\ PlannedOps(job.mode, job.ops) /\ CodexKept
      /\ configs \in [Client -> Config] /\ linkPlan' = linkPlan /\ configs' = [configs EXCEPT ![c] = config]
      /\ c = Codex => config.rest = configs[c].rest
  BY DEF LinkInv, Typed, WholeInv, OpsPlanned, Edit
<1>1. /\ job'.at = job.at /\ job'.todo = job.todo /\ job'.seen = job.seen /\ job'.undo = job.undo
      /\ job'.touched = job.touched \cup {c} /\ job'.mode = job.mode /\ job'.ops = job.ops
      /\ job'.result = job.result /\ job'.undoFailed = job.undoFailed /\ job'.unsure = job.unsure
  BY <1>0 DEF Edit, Typed
<1>2. configs'[c] = config /\ \A d \in Client \ {c} : configs'[d] = configs[d]
  BY <1>0
<1>3. /\ \A d : Untouched(d)' <=> Untouched(d) /\ d # c
      /\ \A d : Op(d)' = Op(d)
      /\ \A d : Next1(d)' <=> Next1(d)
  BY <1>1 DEF Untouched, Op, Next1
<1>4. OpsPlanned' /\ CodexKept'
  BY <1>0, <1>1, <1>2 DEF OpsPlanned, PlannedOps, CodexKept
<1>5. Outcome' /\ CodexMode' /\ SeenReviewed' /\ DoneUndoable'
  BY <1>1, <1>3 DEF WholeInv, Outcome, CodexMode, SeenReviewed, Passed, DoneUndoable
<1>6. DoneReviewed' /\ CodexReviewed'
  BY <1>1, <1>2, <1>3 DEF WholeInv, DoneReviewed, CodexReviewed
<1>7. Restored' /\ LinkAllOrNothing'
  BY <1>1, <1>2, <1>3 DEF WholeInv, Restored, LinkAllOrNothing
<1> QED BY <1>4, <1>5, <1>6, <1>7 DEF WholeInv

LEMMA WholeInvStep == LinkInv /\ WholeInv /\ [LinkNext]_linkVars => WholeInv'
  BY BookkeepingWhole, CheckingWhole, ApplyingWhole, CodexWhole, CommandFailingWhole, RollbackWhole, EditingWhole
  DEF LinkNext, ClientStep, CodexStep

\* Apply is transactional over the clients that no other program edits meanwhile, for any
\* number of clients and wherever an error, a cancellation or the rollback strikes: after a
\* success each client is as reviewed, after a failure that was rolled back without an error
\* each is as it was, but for the one whose own change reported the error.
THEOREM LinkAppliedWhole == LinkSpec => []LinkAllOrNothing
<1>1. LinkInv /\ WholeInv /\ [LinkNext]_linkVars => LinkInv' /\ WholeInv'
  BY LinkInvStep, WholeInvStep
<1>2. WholeInv => LinkAllOrNothing
  BY DEF WholeInv
<1> QED BY <1>1, <1>2, LinkInvInit, WholeInvInit, PTL DEF LinkSpec

\* The bounds of the model are kept, and with them the type invariant.
LinkBounded == edits \in 0 .. MaxEdits /\ plans \in 0 .. MaxPlans

LEMMA LinkBoundedInit == LinkInit => LinkBounded
BY LinkAssumption DEF LinkInit, LinkBounded

LEMMA LinkBoundedStep == LinkBounded /\ [LinkNext]_linkVars => LinkBounded'
<1> SUFFICES ASSUME LinkBounded, [LinkNext]_linkVars
             PROVE  LinkBounded'
  OBVIOUS
<1> USE LinkAssumption DEF LinkBounded
<1>1. ASSUME NEW mode \in Mode, NEW clients \in SUBSET Client, PlanLinks(mode, clients)
      PROVE  LinkBounded'
  BY <1>1 DEF PlanLinks
<1>2. CASE UNCHANGED <<edits, plans>>
  BY <1>2
<1>3. CASE PlanLapses \/ StartApply \/ ReadFails \/ Checked \/ FinishLinks \/ Cancel \/ LinkCrash
  BY <1>2, <1>3 DEF PlanLapses, StartApply, ReadFails, Refuse, Checked, FinishLinks, Cancel, LinkCrash
<1>4. ASSUME NEW c \in Client, ClientStep(c)
      PROVE  LinkBounded'
  BY <1>2, <1>4 DEF ClientStep, CheckRefuses, Refuse, CheckPasses, ReadBefore, Skip, BackUp, BackUpFails,
     WriteFile, Verify, RestoreFile, RestoreFails, CommandFails
<1>5. CASE CodexStep
  BY <1>2, <1>5 DEF CodexStep, Inspect, RemoveCodex, Register, TakeOut, AddCodex, AddAgainFails, PutBack, PutBackFails, RestoreCodex
<1>6. ASSUME NEW c \in Client, NEW config \in Edited, Edit(c, config)
      PROVE  LinkBounded'
  BY <1>6 DEF Edit
<1>7. CASE UNCHANGED linkVars
  BY <1>2, <1>7 DEF linkVars
<1> QED BY <1>1, <1>3, <1>4, <1>5, <1>6, <1>7 DEF LinkNext

LEMMA LinkTypes == LinkInv /\ LinkBounded => LinkTypeOK
<1> SUFFICES ASSUME Typed, UndoLater, LinkBounded
             PROVE  LinkTypeOK
  BY DEF LinkInv
<1>1. job.todo \subseteq Client /\ job.undo \subseteq Client /\ job.touched \subseteq Client
  BY DEF Typed
<1> QED BY <1>1 DEF Typed, UndoLater, LinkBounded, LinkTypeOK

-----------------------------------------------------------------------------
(* The resource hub.                                                        *)

HubPlaces == {"idle", "check", "stage", "aside", "place", "save", "move", "install", "digest", "undo"}
Syncing == {"move", "install", "digest"}
Storing == {"aside", "place", "save"}

Dir == {NoDir} \cup [content : TreeContent, digest : TreeContent]
BackedUp == [id : Resource, content : TreeContent, digest : TreeContent]

\* What a plan says of the resources it names.
GoodOps(kind, ops) ==
    /\ DOMAIN ops \subseteq Resource
    /\ \A r \in DOMAIN ops :
          /\ kind = "sync" => ops[r].action \in {"create", "noop", "update", "remove", "conflict"}
          /\ kind = "sync" /\ ops[r].action = "create" => ops[r].current = None
          /\ kind = "sync" /\ ops[r].action = "update" => ops[r].current = ops[r].recorded
          /\ kind = "refresh" /\ ops[r].action \notin {"noop", "conflict"} => ops[r].desired \in TreeContent

HubTyped ==
    /\ registry \in [digest : [Resource -> Digests], saves : {registry.saves}, links : {registry.links}]
    /\ dirs \in [Resource -> Dir]
    /\ source \in [Resource -> Digests] /\ dest \in [Resource -> Trees] /\ managed \in [Resource -> Trees]
    /\ kept \in [backups : SUBSET BackedUp, aside : {kept.aside}]
    /\ locks \subseteq {"target", "refresh"}
    /\ hubPlan \in [id : {hubPlan.id}, kind : {hubPlan.kind}, saves : {hubPlan.saves}, valid : {hubPlan.valid},
                    ops : {hubPlan.ops}]
    /\ GoodOps(hubPlan.kind, hubPlan.ops)
    /\ budget \in [jobs : {budget.jobs}, plans : {budget.plans}, edits : {budget.edits},
                   crashed : {budget.crashed}, torn : {budget.torn}]

Acts == [at : HubPlaces, job : {"none", "import", "remove", "refresh", "sync"}, plan : {act.plan}, ops : {act.ops},
         todo : SUBSET Resource, staged : [Resource -> Digests], undo : SUBSET Resource,
         moved : [Resource -> Dir \cup [content : Trees, digest : {None}]],
         reg : [Resource -> Digests], entries : [Resource -> Trees], touched : {act.touched},
         result : {act.result}, undoFailed : {act.undoFailed}, before : {act.before}]
ActTyped == act \in Acts /\ GoodOps(act.job, act.ops) /\ (act.job # "sync" => act.moved \in [Resource -> Dir])

\* Which job is where, and what is over and still to do there.
HubOrder ==
    /\ act.at \in {"idle", "check", "stage"} => act.undo = {}
    /\ act.at \notin {"idle", "undo"} => act.result = "none" /\ ~act.undoFailed
    /\ act.at = "undo" => act.result = "failed" /\ act.todo = {}
    /\ act.at = "check" => act.job \in {"sync", "refresh"} /\ act.todo = {} /\ act.staged = Nothing
    /\ act.at \in Syncing => act.job = "sync"
    /\ act.at = "stage" => act.job = "refresh"
    /\ act.at \in Storing => act.job \in {"import", "remove", "refresh"}
    /\ act.at = "place" => act.job # "remove"
    /\ act.at = "aside" /\ act.job = "remove" => act.undo = {}
    /\ act.at = "save" => act.todo = {}
    /\ act.at # "idle" => act.job # "none"
    /\ act.job \in {"sync", "remove"} => act.staged = Nothing
    /\ act.job = "sync" => act.todo \subseteq ToUpdate /\ act.undo \subseteq ToUpdate
    /\ act.at = "stage" => act.todo \subseteq ToUpdate
    /\ \A r \in act.undo \cap act.todo : act.at \in {"install", "digest"} /\ First(r)
    /\ act.at \in {"install", "digest"} => \A r \in act.todo : First(r) => r \in act.undo
    /\ act.at \in Syncing => \A r \in ToUpdate \ act.todo : r \in act.undo

\* A job that is under way has not changed what it did not come to.
Placing(r) == act.at = "place" /\ First(r)
AsBefore(r) == dirs[r] = act.before.dirs[r] /\ dest[r] = act.before.dest[r]
HubBefore == act.at # "idle" => \A r \in Resource :
    /\ budget.torn \/ (registry.digest[r] = act.before.registry[r] /\ managed[r] = act.before.managed[r])
    /\ r \in NotEdited =>
          /\ act.job = "sync" => dirs[r] = act.before.dirs[r]
          /\ act.job # "sync" => dest[r] = act.before.dest[r]
          /\ r \notin act.undo /\ ~act.undoFailed /\ ~Placing(r) => AsBefore(r)

\* What was moved away can be moved back.
Record(r) == [id |-> r, content |-> act.before.dirs[r].content, digest |-> act.before.dirs[r].digest]
DirKept(r) == act.before.dirs[r] = NoDir \/ Record(r) \in kept.backups
DestKept(r) == act.before.dest[r] = None \/ <<r, act.before.dest[r]>> \in kept.aside
HubMoved == act.at # "idle" => \A r \in NotEdited :
    /\ r \in act.undo /\ act.job = "sync" => act.moved[r].content = act.before.dest[r] /\ DestKept(r)
    /\ r \in act.undo /\ act.job # "sync" => act.moved[r] = act.before.dirs[r] /\ DirKept(r)
    /\ Placing(r) /\ dirs[r] = NoDir => act.moved[r] = act.before.dirs[r] /\ DirKept(r)
    /\ Placing(r) /\ dirs[r] # NoDir => act.moved[r] = NoDir /\ dirs[r] = act.before.dirs[r]

\* A sync changes what it has seen to be as reviewed.
HubReviewed == act.at \in Syncing => \A r \in DOMAIN act.ops \cap NotEdited :
    /\ act.ops[r].action # "conflict"
    /\ act.ops[r].action = "create" => act.before.dest[r] = None
    /\ act.ops[r].action = "update" => act.before.dest[r] = act.ops[r].recorded
    /\ act.ops[r].action = "remove" => act.before.dest[r] \in {None, managed[r]}

\* The entries a sync will save are those of its destinations.
HubInstalled == act.at \in Syncing => \A r \in ToUpdate \cap NotEdited :
    r \notin act.todo => dest[r] = act.entries[r]

\* The registry a job will save has the digests of the directories it has placed.
HubPlaced ==
    /\ act.at = "stage" => \A r \in Resource :
          /\ r \in ToUpdate => act.ops[r].desired \in TreeContent
          /\ r \in ToUpdate \ act.todo => act.staged[r] \in TreeContent
          /\ act.staged[r] # None => r \in ToUpdate
    /\ act.at \in Storing => \A r \in Resource :
          /\ act.job # "remove" /\ r \in act.todo => act.staged[r] \in TreeContent
          /\ act.staged[r] # None => r \in act.todo \cup act.undo
          /\ act.job # "remove" /\ r \in act.undo => act.reg[r] = act.staged[r]
          /\ act.job # "remove" /\ r \in act.undo /\ r \in NotEdited =>
                dirs[r] = [content |-> act.staged[r], digest |-> act.staged[r]]

HubLocks == ~budget.crashed => locks \subseteq (IF act.at = "idle" THEN {} ELSE LockOf)

HubInv ==
    /\ HubTyped /\ ActTyped /\ HubOrder
    /\ HubBefore /\ HubMoved /\ HubReviewed /\ HubInstalled /\ HubPlaced
    /\ HubLocks /\ HubAllOrNothing /\ TreesKept

LEMMA FirstUnique == \A r, s \in Resource : First(r) /\ First(s) => r = s
BY HubAssumption DEF First

LEMMA NoDirIsDir == NoDir \in Dir /\ NoDir.content = None /\ NoDir.digest = None /\ \A d \in Dir : d # NoDir => d \in [content : TreeContent, digest : TreeContent]
BY DEF NoDir, Dir, None

LEMMA NoOps == \A kind : GoodOps(kind, <<>>)
BY DEF GoodOps

LEMMA StartedFields ==
  Started \in [at : {"idle"}, job : {"none"}, plan : {0}, ops : {<<>>}, todo : {{}}, staged : {Nothing},
               undo : {{}}, moved : {[r \in Resource |-> NoDir]}, reg : {registry.digest}, entries : {managed},
               touched : {{}}, result : {"none"}, undoFailed : {FALSE}, before : {Now}]
BY DEF Started, NoAct

\* Steps that leave the trees, the records and the job as they are.
LEMMA SameHub ==
  ASSUME HubInv, HubTyped', registry'.digest = registry.digest, dirs' = dirs, dest' = dest, managed' = managed,
         kept' = kept, locks' = locks, act' = act, budget'.crashed = budget.crashed, budget'.torn = budget.torn
  PROVE  HubInv'
<1>1. /\ \A r : (First(r)' <=> First(r)) /\ (Placing(r)' <=> Placing(r)) /\ (AsBefore(r)' <=> AsBefore(r))
      /\ \A r : (DirKept(r)' <=> DirKept(r)) /\ (DestKept(r)' <=> DestKept(r))
      /\ ToUpdate' = ToUpdate /\ NotEdited' = NotEdited /\ LockOf' = LockOf
  BY DEF First, Placing, AsBefore, DirKept, DestKept, Record, ToUpdate, NotEdited, LockOf
<1>2. ActTyped' /\ HubOrder'
  BY <1>1 DEF HubInv, ActTyped, Acts, HubOrder
<1>3. HubBefore' /\ HubMoved' /\ HubReviewed' /\ HubInstalled' /\ HubPlaced'
  BY <1>1 DEF HubInv, HubBefore, HubMoved, HubReviewed, HubInstalled, HubPlaced
<1>4. HubLocks' /\ HubAllOrNothing' /\ TreesKept'
  BY <1>1 DEF HubInv, HubLocks, HubAllOrNothing, Committed, TreesKept
<1> QED BY <1>2, <1>3, <1>4 DEF HubInv

\* When the job is over, what counts is its result.
LEMMA OverHub ==
  ASSUME HubTyped', ActTyped', HubAllOrNothing', TreesKept', HubLocks', act'.at = "idle", act'.undo = {}, act'.todo = {},
         act'.job \in {"sync", "remove"} => act'.staged = Nothing
  PROVE  HubInv'
<1>1. HubOrder'
  BY DEF HubOrder, Syncing, Storing
<1>2. HubBefore' /\ HubMoved' /\ HubReviewed' /\ HubInstalled' /\ HubPlaced'
  BY DEF HubBefore, HubMoved, HubReviewed, HubInstalled, HubPlaced, Syncing, Storing
<1> QED BY <1>1, <1>2 DEF HubInv

LEMMA HubInvInit == HubInit => HubInv
<1> SUFFICES ASSUME HubInit
             PROVE  HubInv
  OBVIOUS
<1>1. PICK hub \in InitialHubs :
          /\ registry = [digest |-> hub.digest, saves |-> 0, links |-> hub.links]
          /\ dirs = [r \in Resource |-> [content |-> hub.digest[r], digest |-> hub.digest[r]]]
          /\ source = hub.source /\ dest = hub.dest /\ managed = hub.managed
          /\ kept = [backups |-> hub.backups, aside |-> {}]
          /\ budget = [jobs |-> hub.jobs, plans |-> hub.plans, edits |-> hub.edits,
                       crashed |-> FALSE, torn |-> FALSE]
  BY DEF HubInit
<1>2. /\ hub.digest \in [Resource -> Digests] /\ hub.source \in [Resource -> Digests]
      /\ hub.dest \in [Resource -> Trees] /\ hub.managed \in [Resource -> Trees]
      /\ hub.backups \in SUBSET BackedUp
  BY HubAssumption DEF BackedUp
<1>3. dirs \in [Resource -> Dir]
  BY <1>1, <1>2 DEF Dir, NoDir, None, Digests
<1>4. hubPlan.ops = <<>> /\ hubPlan \in [id : {hubPlan.id}, kind : {hubPlan.kind}, saves : {hubPlan.saves},
                                         valid : {hubPlan.valid}, ops : {hubPlan.ops}]
  BY DEF HubInit, NoHubPlan
<1>5. HubTyped
  <2>1. locks = {}
    BY DEF HubInit
  <2> HIDE DEF BackedUp, Dir
  <2> QED BY <1>1, <1>2, <1>3, <1>4, <2>1, NoOps DEF HubTyped
<1>6. /\ act.at = "idle" /\ act.job = "none" /\ act.ops = <<>> /\ act.undo = {} /\ act.todo = {} /\ act.staged = Nothing
      /\ act \in Acts
  <2>1. act = NoAct
    BY DEF HubInit
  <2>2. Nothing \in [Resource -> Digests] /\ Nothing \in [Resource -> Trees] /\ NoDir \in Dir
    BY NoDirIsDir DEF Nothing, None, Digests, Trees
  <2>3. NoAct = [at |-> "idle", job |-> "none", plan |-> 0, ops |-> <<>>, todo |-> {}, staged |-> Nothing,
         undo |-> {}, moved |-> [r \in Resource |-> NoDir], reg |-> Nothing, entries |-> Nothing,
         touched |-> {}, result |-> "none", undoFailed |-> FALSE, before |-> <<>>]
    BY DEF NoAct
  <2> HIDE DEF Nothing, Dir, Digests, Trees
  <2> QED BY <2>1, <2>2, <2>3 DEF Acts, HubPlaces
<1>7. ActTyped
  <2>1. act.moved \in [Resource -> Dir]
    BY NoDirIsDir DEF HubInit, NoAct
  <2> QED BY <1>6, <2>1, NoOps DEF ActTyped
<1>8. HubOrder
  BY <1>6 DEF HubOrder, Syncing, Storing
<1>9. HubBefore /\ HubMoved /\ HubReviewed /\ HubInstalled /\ HubPlaced
  BY <1>6 DEF HubBefore, HubMoved, HubReviewed, HubInstalled, HubPlaced, Syncing, Storing
<1>10. HubLocks /\ HubAllOrNothing /\ TreesKept
  BY <1>6 DEF HubInit, HubLocks, HubAllOrNothing, Committed, TreesKept
<1> QED BY <1>5, <1>7, <1>8, <1>9, <1>10 DEF HubInv

\* Plans name what may be done to each resource.
LEMMA PlanningHub ==
  ASSUME HubInv,
         \/ \E selected \in SUBSET Resource :
               \/ \E allowRisk, prune \in BOOLEAN : PlanSync(selected, allowRisk, prune)
               \/ PlanRefresh(selected)
         \/ HubPlanLapses \/ UNCHANGED hubVars
  PROVE  HubInv'
<1>0. HubTyped
  BY DEF HubInv
<1>1. ASSUME NEW kind, NEW ops, Planned(kind, ops), GoodOps(kind, ops)
      PROVE  HubInv'
  <2>1. /\ hubPlan' = [id |-> budget.plans, kind |-> kind, saves |-> registry.saves, valid |-> TRUE, ops |-> ops]
        /\ budget' = [budget EXCEPT !.plans = @ - 1]
        /\ UNCHANGED <<registry, dirs, source, dest, managed, kept, locks, act>>
    BY <1>1 DEF Planned
  <2>2. HubTyped'
    BY <1>0, <1>1, <2>1 DEF HubTyped
  <2>3. budget'.crashed = budget.crashed /\ budget'.torn = budget.torn
    BY <1>0, <2>1 DEF HubTyped
  <2> QED BY <2>1, <2>2, <2>3, SameHub
<1>2. ASSUME NEW selected \in SUBSET Resource, NEW allowRisk \in BOOLEAN, NEW prune \in BOOLEAN,
             PlanSync(selected, allowRisk, prune)
      PROVE  HubInv'
  <2> DEFINE pruned == IF prune THEN {r \in Resource \ selected : managed[r] # None /\ dest[r] # None} ELSE {}
             ops == [r \in selected \cup pruned |->
               [action |-> IF r \in selected THEN SyncAction(r) ELSE PruneAction(r),
                current |-> dest[r], desired |-> registry.digest[r], recorded |-> managed[r]]]
  <2>1. Planned("sync", ops)
    BY <1>2 DEF PlanSync
  <2>2. DOMAIN ops \subseteq Resource
    OBVIOUS
  <2>3. ASSUME NEW r \in DOMAIN ops
        PROVE  /\ ops[r].action \in {"create", "noop", "update", "remove", "conflict"}
               /\ ops[r].action = "create" => ops[r].current = None
               /\ ops[r].action = "update" => ops[r].current = ops[r].recorded
    <3>1. ops[r].action \in {SyncAction(r), PruneAction(r)} /\ ops[r].current = dest[r] /\ ops[r].recorded = managed[r]
      OBVIOUS
    <3>2. /\ SyncAction(r) \in {"create", "noop", "update", "conflict"}
          /\ SyncAction(r) = "create" => dest[r] = None
          /\ SyncAction(r) = "update" => dest[r] = managed[r]
      BY DEF SyncAction
    <3>3. PruneAction(r) \in {"remove", "conflict"}
      BY DEF PruneAction
    <3> HIDE DEF ops
    <3> QED BY <3>1, <3>2, <3>3
  <2>4. GoodOps("sync", ops)
    <3> HIDE DEF ops
    <3> QED BY <2>2, <2>3 DEF GoodOps
  <2> QED BY <1>1, <2>1, <2>4
<1>3. ASSUME NEW selected \in SUBSET Resource, PlanRefresh(selected)
      PROVE  HubInv'
  <2> DEFINE ops == [r \in selected |->
           [action |-> CASE source[r] = None -> "conflict"
                         [] source[r] = registry.digest[r] -> "noop"
                         [] OTHER -> "update",
            current |-> registry.digest[r], desired |-> source[r]]]
  <2>1. Planned("refresh", ops)
    BY <1>3 DEF PlanRefresh
  <2>2. ASSUME NEW r \in DOMAIN ops, ops[r].action \notin {"noop", "conflict"}
        PROVE  ops[r].desired \in TreeContent
    <3>1. ops[r].desired = source[r] /\ source[r] \in Digests
      BY <1>0 DEF HubTyped
    <3>2. source[r] # None
      BY <2>2
    <3> QED BY <3>1, <3>2 DEF Digests, None
  <2>3. DOMAIN ops \subseteq Resource
    OBVIOUS
  <2>4. GoodOps("refresh", ops)
    <3> HIDE DEF ops
    <3> QED BY <2>2, <2>3 DEF GoodOps
  <2> QED BY <1>1, <2>1, <2>4
<1>4. CASE HubPlanLapses
  <2>1. HubTyped'
    BY <1>0, <1>4 DEF HubPlanLapses, HubTyped
  <2> QED BY <1>4, <2>1, SameHub DEF HubPlanLapses
<1>5. CASE UNCHANGED hubVars
  <2>1. HubTyped'
    BY <1>0, <1>5 DEF hubVars, HubTyped
  <2> QED BY <1>5, <2>1, SameHub DEF hubVars
<1> QED BY <1>2, <1>3, <1>4, <1>5

\* A job starts from what it finds.
LEMMA StartingHub ==
  ASSUME HubInv, HubTyped', ActTyped', HubOrder', HubPlaced', HubLocks', act'.at \in {"check", "aside", "place"},
         act'.before = Now, act'.undo = {}, act'.moved = [r \in Resource |-> NoDir], act'.job # "none",
         registry' = registry, dirs' = dirs, dest' = dest, managed' = managed, kept' = kept
  PROVE  HubInv'
<1>1. /\ act'.before.dirs = dirs /\ act'.before.dest = dest
      /\ act'.before.registry = registry.digest /\ act'.before.managed = managed
  BY DEF Now
<1>2. HubBefore'
  BY <1>1 DEF HubBefore, AsBefore
<1>3. HubMoved'
  BY <1>1 DEF HubMoved, DirKept, NotEdited
<1>4. HubReviewed' /\ HubInstalled' /\ HubAllOrNothing'
  BY DEF HubReviewed, HubInstalled, HubAllOrNothing, Committed, Syncing
<1>5. TreesKept'
  BY <1>1 DEF TreesKept
<1> QED BY <1>2, <1>3, <1>4, <1>5 DEF HubInv

LEMMA BudgetTyped ==
  ASSUME HubTyped, NEW a, StartJob(a)
  PROVE  /\ budget' \in [jobs : {budget'.jobs}, plans : {budget'.plans}, edits : {budget'.edits},
                         crashed : {budget'.crashed}, torn : {budget'.torn}]
         /\ budget'.crashed = budget.crashed /\ budget'.torn = budget.torn /\ act' = a /\ act.at = "idle"
BY DEF HubTyped, StartJob

LEMMA ImportingHub ==
  ASSUME HubInv, NEW r \in Resource, NEW content \in Digests, NEW replace, StageImport(r, content, replace)
  PROVE  HubInv'
<1>0. HubTyped
  BY DEF HubInv
<1> DEFINE a == [Started EXCEPT !.at = IF r \in InRegistry THEN "aside" ELSE "place", !.job = "import",
                                !.todo = {r}, !.staged[r] = content]
<1>1. StartJob(a) /\ content # None /\ UNCHANGED <<registry, dirs, source, dest, managed, kept, locks, hubPlan>>
  BY DEF StageImport
<1>2. a \in [at : {"aside", "place"}, job : {"import"}, plan : {0}, ops : {<<>>}, todo : {{r}},
              staged : {[Nothing EXCEPT ![r] = content]}, undo : {{}}, moved : {[s \in Resource |-> NoDir]},
              reg : {registry.digest}, entries : {managed}, touched : {{}}, result : {"none"}, undoFailed : {FALSE}, before : {Now}]
  BY StartedFields
<1> HIDE DEF a
<1>3. act' = a /\ act.at = "idle" /\ budget'.crashed = budget.crashed
  BY <1>0, <1>1, BudgetTyped
<1>4. HubTyped'
  <2>1. budget' \in [jobs : {budget'.jobs}, plans : {budget'.plans}, edits : {budget'.edits},
                     crashed : {budget'.crashed}, torn : {budget'.torn}]
    BY <1>0, <1>1, BudgetTyped
  <2> QED BY <1>0, <1>1, <2>1 DEF HubTyped
<1>5. /\ [Nothing EXCEPT ![r] = content] \in [Resource -> Digests]
      /\ [Nothing EXCEPT ![r] = content][r] = content
      /\ \A s \in Resource \ {r} : [Nothing EXCEPT ![r] = content][s] = None
  BY DEF Nothing, None, Digests
<1> DEFINE staged == [Nothing EXCEPT ![r] = content]
<1>6. /\ act'.at \in {"aside", "place"} /\ act'.job = "import" /\ act'.ops = <<>> /\ act'.todo = {r} /\ act'.staged = staged
      /\ act'.undo = {} /\ act'.moved = [s \in Resource |-> NoDir] /\ act'.result = "none" /\ ~act'.undoFailed
      /\ act'.before = Now
  BY <1>2, <1>3
<1>7. ActTyped'
  <2>1. NoDir \in Dir /\ registry.digest \in [Resource -> Digests] /\ managed \in [Resource -> Trees]
    BY <1>0, NoDirIsDir DEF HubTyped
  <2>2. /\ [s \in Resource |-> NoDir] \in [Resource -> Dir]
        /\ [s \in Resource |-> NoDir] \in [Resource -> Dir \cup [content : Trees, digest : {None}]]
    BY <2>1
  <2>3. act' \in Acts'
    <3> HIDE DEF staged
    <3> QED BY <1>2, <1>3, <1>5, <2>1, <2>2 DEF Acts, HubPlaces, staged
  <2> QED BY <1>6, <2>2, <2>3, NoOps DEF ActTyped
<1>8. HubOrder'
  BY <1>6 DEF HubOrder, Syncing, Storing
<1>9. HubPlaced'
  <2> HIDE DEF staged
  <2>1. \A s \in Resource : staged[s] # None => s = r
    BY <1>5 DEF staged
  <2>2. staged[r] \in TreeContent
    BY <1>1, <1>5 DEF staged, Digests, None
  <2> QED BY <1>6, <2>1, <2>2 DEF HubPlaced, Storing
<1>10. HubLocks'
  BY <1>1, <1>3 DEF HubInv, HubLocks
<1> QED BY <1>1, <1>4, <1>6, <1>7, <1>8, <1>9, <1>10, StartingHub

LEMMA RemovingHub ==
  ASSUME HubInv, NEW r \in Resource, RemoveResource(r)
  PROVE  HubInv'
<1>0. HubTyped
  BY DEF HubInv
<1> DEFINE a == [Started EXCEPT !.at = "aside", !.job = "remove", !.todo = {r}]
<1>1. StartJob(a) /\ UNCHANGED <<registry, dirs, source, dest, managed, kept, locks, hubPlan>>
  BY DEF RemoveResource
<1>2. a \in [at : {"aside"}, job : {"remove"}, plan : {0}, ops : {<<>>}, todo : {{r}},
              staged : {Nothing}, undo : {{}}, moved : {[s \in Resource |-> NoDir]},
              reg : {registry.digest}, entries : {managed}, touched : {{}}, result : {"none"}, undoFailed : {FALSE}, before : {Now}]
  BY StartedFields
<1> HIDE DEF a
<1>3. act' = a /\ act.at = "idle" /\ budget'.crashed = budget.crashed
  BY <1>0, <1>1, BudgetTyped
<1>4. HubTyped'
  <2>1. budget' \in [jobs : {budget'.jobs}, plans : {budget'.plans}, edits : {budget'.edits},
                     crashed : {budget'.crashed}, torn : {budget'.torn}]
    BY <1>0, <1>1, BudgetTyped
  <2> QED BY <1>0, <1>1, <2>1 DEF HubTyped
<1>5. /\ act'.at = "aside" /\ act'.job = "remove" /\ act'.ops = <<>> /\ act'.todo = {r} /\ act'.staged = Nothing
      /\ act'.undo = {} /\ act'.moved = [s \in Resource |-> NoDir] /\ act'.result = "none" /\ ~act'.undoFailed
      /\ act'.before = Now
  BY <1>2, <1>3
<1>6. ActTyped'
  <2>1. NoDir \in Dir /\ registry.digest \in [Resource -> Digests] /\ managed \in [Resource -> Trees]
    BY <1>0, NoDirIsDir DEF HubTyped
  <2>2. /\ [s \in Resource |-> NoDir] \in [Resource -> Dir]
        /\ [s \in Resource |-> NoDir] \in [Resource -> Dir \cup [content : Trees, digest : {None}]]
        /\ Nothing \in [Resource -> Digests]
    BY <2>1 DEF Nothing, None, Digests
  <2>3. act' \in Acts'
    BY <1>2, <1>3, <2>1, <2>2 DEF Acts, HubPlaces
  <2> QED BY <1>5, <2>2, <2>3, NoOps DEF ActTyped
<1>7. HubOrder'
  BY <1>5 DEF HubOrder, Syncing, Storing
<1>8. HubPlaced'
  BY <1>5 DEF HubPlaced, Storing, Nothing
<1>9. HubLocks'
  BY <1>1, <1>3 DEF HubInv, HubLocks
<1> QED BY <1>1, <1>4, <1>5, <1>6, <1>7, <1>8, <1>9, StartingHub

LEMMA StartingReviewed ==
  ASSUME HubInv, NEW kind \in {"sync", "refresh"}, NEW lock, lock = (IF kind = "sync" THEN "target" ELSE "refresh"),
         StartReviewed(kind, lock)
  PROVE  HubInv'
<1>0. HubTyped
  BY DEF HubInv
<1> DEFINE a == [Started EXCEPT !.job = kind, !.plan = hubPlan.id, !.ops = hubPlan.ops]
<1>1. /\ hubPlan.kind = kind /\ UNCHANGED <<registry, dirs, source, dest, managed, kept, hubPlan>>
      /\ IF lock \in locks THEN StartJob([a EXCEPT !.result = "locked"]) /\ UNCHANGED locks
         ELSE StartJob([a EXCEPT !.at = "check"]) /\ locks' = locks \cup {lock}
  BY DEF StartReviewed
<1>2. a \in [at : {"idle"}, job : {kind}, plan : {hubPlan.id}, ops : {hubPlan.ops}, todo : {{}},
              staged : {Nothing}, undo : {{}}, moved : {[s \in Resource |-> NoDir]},
              reg : {registry.digest}, entries : {managed}, touched : {{}}, result : {"none"}, undoFailed : {FALSE}, before : {Now}]
  BY StartedFields
<1> HIDE DEF a
<1>3. /\ act' = [a EXCEPT !.result = "locked"] \/ act' = [a EXCEPT !.at = "check"]
      /\ act.at = "idle" /\ budget'.crashed = budget.crashed
      /\ budget' \in [jobs : {budget'.jobs}, plans : {budget'.plans}, edits : {budget'.edits},
                      crashed : {budget'.crashed}, torn : {budget'.torn}]
  BY <1>0, <1>1, BudgetTyped
<1>4. HubTyped'
  BY <1>0, <1>1, <1>3 DEF HubTyped
<1>5. /\ act'.job = kind /\ act'.ops = hubPlan.ops /\ act'.todo = {} /\ act'.staged = Nothing
      /\ act'.undo = {} /\ act'.moved = [s \in Resource |-> NoDir] /\ ~act'.undoFailed
      /\ act'.before = Now
  BY <1>2, <1>3
<1>6. ActTyped'
  <2>1. NoDir \in Dir /\ registry.digest \in [Resource -> Digests] /\ managed \in [Resource -> Trees]
    BY <1>0, NoDirIsDir DEF HubTyped
  <2>2. /\ [s \in Resource |-> NoDir] \in [Resource -> Dir]
        /\ [s \in Resource |-> NoDir] \in [Resource -> Dir \cup [content : Trees, digest : {None}]]
        /\ Nothing \in [Resource -> Digests]
    BY <2>1 DEF Nothing, None, Digests
  <2>3. act' \in Acts'
    BY <1>2, <1>3, <2>1, <2>2 DEF Acts, HubPlaces
  <2> QED BY <1>0, <1>1, <1>5, <2>2, <2>3 DEF ActTyped, HubTyped
<1>7. CASE lock \in locks
  <2>1. act' = [a EXCEPT !.result = "locked"] /\ locks' = locks
    BY <1>0, <1>1, <1>7, BudgetTyped
  <2>2. act'.at = "idle"
    BY <1>2, <2>1
  <2>3. HubLocks'
    BY <1>3, <2>1, <2>2 DEF HubInv, HubLocks
  <2>4. /\ act'.before.dirs = dirs /\ act'.before.dest = dest
        /\ act'.before.registry = registry.digest /\ act'.before.managed = managed
    BY <1>5 DEF Now
  <2>5. HubAllOrNothing' /\ TreesKept'
    <3>1. ~Committed' /\ act'.result # "done"
      BY <1>2, <2>1 DEF Committed
    <3> QED BY <1>1, <2>4, <3>1 DEF HubAllOrNothing, TreesKept
  <2> QED BY <1>4, <1>5, <1>6, <2>2, <2>3, <2>5, OverHub
<1>8. CASE lock \notin locks
  <2>1. act' = [a EXCEPT !.at = "check"] /\ locks' = locks \cup {lock}
    BY <1>0, <1>1, <1>8, BudgetTyped
  <2>2. act'.at = "check" /\ act'.result = "none"
    BY <1>2, <2>1
  <2>3. HubLocks'
    <3>1. ~budget'.crashed => locks = {}
      BY <1>3 DEF HubInv, HubLocks
    <3>2. LockOf' = {lock}
      BY <1>5 DEF LockOf
    <3> QED BY <2>1, <2>2, <3>1, <3>2 DEF HubLocks
  <2>4. HubOrder' /\ HubPlaced'
    BY <1>5, <2>2 DEF HubOrder, HubPlaced, Syncing, Storing
  <2>5. HubTyped'
    BY <1>0, <1>1, <1>3, <2>1 DEF HubTyped
  <2> QED BY <1>1, <1>5, <1>6, <2>2, <2>3, <2>4, <2>5, StartingHub
<1> QED BY <1>7, <1>8

-----------------------------------------------------------------------------
(* The ways out of a job.                                                    *)

SameHubJob == /\ act'.job = act.job /\ act'.ops = act.ops /\ act'.staged = act.staged /\ act'.moved = act.moved
           /\ act'.before = act.before /\ act'.touched = act.touched /\ act'.undoFailed = act.undoFailed
           /\ act'.reg = act.reg /\ act'.entries = act.entries

LEMMA EndedHub ==
  ASSUME ActTyped, NEW result, act' = Ended(act, result)
  PROVE  /\ act'.at = "idle" /\ act'.todo = {} /\ act'.undo = {} /\ act'.result = result /\ SameHubJob /\ ActTyped'
         /\ LockOf' = LockOf
<1>1. act'.at = "idle" /\ act'.todo = {} /\ act'.undo = {} /\ act'.result = result /\ SameHubJob /\ act' \in Acts'
  BY DEF ActTyped, Acts, Ended, SameHubJob, HubPlaces
<1> QED BY <1>1 DEF ActTyped, SameHubJob, LockOf

LEMMA RolledBackHub ==
  ASSUME ActTyped, Rollback
  PROVE  /\ act'.at = (IF act.undo = {} THEN "idle" ELSE "undo") /\ act'.todo = {} /\ act'.undo = act.undo
         /\ act'.result = "failed" /\ SameHubJob /\ ActTyped'
         /\ locks' = (IF act.undo = {} THEN locks \ LockOf ELSE locks) /\ LockOf' = LockOf
<1>1. CASE act.undo = {}
  BY <1>1, EndedHub DEF Rollback, Give
<1>2. CASE act.undo # {}
  <2>1. act' = [act EXCEPT !.at = "undo", !.todo = {}, !.result = "failed"] /\ locks' = locks
    BY <1>2 DEF Rollback
  <2>2. act'.at = "undo" /\ act'.todo = {} /\ act'.undo = act.undo /\ act'.result = "failed" /\ SameHubJob /\ act' \in Acts'
    BY <2>1 DEF ActTyped, Acts, SameHubJob, HubPlaces
  <2> QED BY <1>2, <2>1, <2>2 DEF ActTyped, SameHubJob, LockOf
<1> QED BY <1>1, <1>2

\* The job ends, or goes on undoing, with what it has not undone yet.
LEMMA UndoingHub ==
  ASSUME HubInv, HubTyped', ActTyped', act.at # "idle", act'.at = (IF act'.undo = {} THEN "idle" ELSE "undo"),
         act'.todo = {}, act'.undo \subseteq act.undo, act'.result = "failed",
         act'.job = act.job, act'.ops = act.ops, act'.staged = act.staged, act'.moved = act.moved,
         act'.before = act.before, act'.touched = act.touched,
         locks' = (IF act'.undo = {} THEN locks \ LockOf ELSE locks),
         budget'.crashed = budget.crashed, TreesKept',
         \A r \in Resource : \/ budget'.torn
                             \/ registry'.digest[r] = act.before.registry[r] /\ managed'[r] = act.before.managed[r],
         \A r \in NotEdited :
            /\ act.job = "sync" => dirs'[r] = act.before.dirs[r]
            /\ act.job # "sync" => dest'[r] = act.before.dest[r]
            /\ r \notin act'.undo /\ ~act'.undoFailed => dirs'[r] = act.before.dirs[r] /\ dest'[r] = act.before.dest[r]
            /\ r \in act'.undo /\ act.job = "sync" => act.moved[r].content = act.before.dest[r] /\ DestKept(r)'
            /\ r \in act'.undo /\ act.job # "sync" => act.moved[r] = act.before.dirs[r] /\ DirKept(r)'
  PROVE  HubInv'
<1>1. NotEdited' = NotEdited /\ ToUpdate' = ToUpdate /\ LockOf' = LockOf
  BY DEF NotEdited, ToUpdate, LockOf
<1>2. HubLocks'
  BY <1>1 DEF HubInv, HubLocks
<1>3. act'.job \in {"sync", "remove"} => act'.staged = Nothing
  BY DEF HubInv, HubOrder
<1>4. CASE act'.undo = {}
  <2>1. HubAllOrNothing'
    BY <1>1, <1>4 DEF HubAllOrNothing, Committed, NotEdited
  <2> QED BY <1>2, <1>3, <1>4, <2>1, OverHub
<1>5. CASE act'.undo # {}
  <2>1. act'.at = "undo"
    BY <1>5
  <2>2. HubOrder'
    BY <1>1, <1>3, <2>1 DEF HubInv, HubOrder, Syncing, Storing
  <2>3. HubBefore'
    BY <1>1, <2>1 DEF HubBefore, AsBefore
  <2>4. HubMoved'
    BY <1>1, <2>1 DEF HubMoved, Placing
  <2>5. HubReviewed' /\ HubInstalled' /\ HubPlaced' /\ HubAllOrNothing'
    BY <2>1 DEF HubReviewed, HubInstalled, HubPlaced, HubAllOrNothing, Committed, Syncing, Storing
  <2> QED BY <1>2, <2>2, <2>3, <2>4, <2>5 DEF HubInv
<1> QED BY <1>4, <1>5

\* An error before the rollback: what has changed is what can be undone.
LEMMA FailingHub ==
  ASSUME HubInv, act.at \in {"stage", "aside", "save", "move", "install", "digest"}, Rollback, HubTyped',
         budget'.crashed = budget.crashed, dirs' = dirs, dest' = dest, kept' = kept,
         \A r \in Resource : \/ budget'.torn
                             \/ registry'.digest[r] = registry.digest[r] /\ managed'[r] = managed[r] /\ ~budget.torn
  PROVE  HubInv'
<1>0. HubTyped /\ ActTyped /\ HubOrder /\ HubBefore /\ HubMoved /\ TreesKept
  BY DEF HubInv
<1>1. /\ act'.at = (IF act'.undo = {} THEN "idle" ELSE "undo") /\ act'.todo = {} /\ act'.undo = act.undo
      /\ act'.result = "failed" /\ SameHubJob /\ ActTyped'
      /\ locks' = (IF act'.undo = {} THEN locks \ LockOf ELSE locks)
  BY <1>0, RolledBackHub
<1>2. \A r \in Resource : \/ budget'.torn
                          \/ registry'.digest[r] = act.before.registry[r] /\ managed'[r] = act.before.managed[r]
  BY <1>0 DEF HubBefore
<1>3. act.at # "idle" /\ act.at # "place" /\ ~act.undoFailed /\ ~act'.undoFailed
  BY <1>0, <1>1 DEF HubOrder, SameHubJob
<1>4. \A r \in NotEdited :
            /\ act.job = "sync" => dirs'[r] = act.before.dirs[r]
            /\ act.job # "sync" => dest'[r] = act.before.dest[r]
            /\ r \notin act'.undo /\ ~act'.undoFailed => dirs'[r] = act.before.dirs[r] /\ dest'[r] = act.before.dest[r]
  BY <1>0, <1>1, <1>3 DEF HubBefore, AsBefore, Placing, NotEdited
<1>5. \A r \in NotEdited :
            /\ r \in act'.undo /\ act.job = "sync" => act.moved[r].content = act.before.dest[r] /\ DestKept(r)'
            /\ r \in act'.undo /\ act.job # "sync" => act.moved[r] = act.before.dirs[r] /\ DirKept(r)'
  BY <1>0, <1>1, <1>3 DEF HubMoved, DestKept, DirKept, Record, SameHubJob
<1>6. TreesKept'
  BY <1>0, <1>1 DEF TreesKept, SameHubJob, NotEdited
<1> QED BY <1>1, <1>2, <1>3, <1>4, <1>5, <1>6, UndoingHub DEF SameHubJob

LEMMA JobFailsHub ==
  ASSUME HubInv, JobFails \/ SaveReportsError
  PROVE  HubInv'
<1>0. HubTyped /\ ActTyped
  BY DEF HubInv
<1>1. CASE JobFails
  <2>1. act.at \in {"stage", "aside", "save", "move", "install", "digest"} /\ Rollback
        /\ UNCHANGED <<registry, dirs, source, dest, managed, kept, hubPlan, budget>>
    BY <1>1 DEF JobFails
  <2>2. locks' \subseteq {"target", "refresh"}
    BY <1>0, <2>1, RolledBackHub DEF HubTyped
  <2>3. HubTyped'
    BY <1>0, <2>1, <2>2 DEF HubTyped
  <2>4. \A r \in Resource : \/ budget'.torn
                            \/ registry'.digest[r] = registry.digest[r] /\ managed'[r] = managed[r] /\ ~budget.torn
    BY <2>1
  <2> QED BY <2>1, <2>3, <2>4, FailingHub
<1>2. CASE SaveReportsError
  <2>1. /\ act.at \in {"save", "move"} /\ Rollback /\ budget' = [budget EXCEPT !.torn = TRUE]
        /\ UNCHANGED <<dirs, source, dest, kept, hubPlan>>
        /\ registry' = Saved \/ registry' = registry
        /\ managed' = act.entries \/ managed' = managed
    BY <1>2 DEF SaveReportsError
  <2>2. locks' \subseteq {"target", "refresh"}
    BY <1>0, <2>1, RolledBackHub DEF HubTyped
  <2>3. budget'.torn /\ budget'.crashed = budget.crashed
    BY <1>0, <2>1 DEF HubTyped
  <2>4. HubTyped'
    <3>1. registry' \in [digest : [Resource -> Digests], saves : {registry'.saves}, links : {registry'.links}]
      BY <1>0, <2>1 DEF HubTyped, ActTyped, Acts, Saved
    <3>2. managed' \in [Resource -> Trees]
      BY <1>0, <2>1 DEF HubTyped, ActTyped, Acts
    <3>3. budget' \in [jobs : {budget'.jobs}, plans : {budget'.plans}, edits : {budget'.edits},
                       crashed : {budget'.crashed}, torn : {budget'.torn}]
      BY <1>0, <2>1 DEF HubTyped
    <3> QED BY <1>0, <2>1, <2>2, <3>1, <3>2, <3>3 DEF HubTyped
  <2> QED BY <2>1, <2>3, <2>4, FailingHub
<1> QED BY <1>1, <1>2

LEMMA CrashingHub ==
  ASSUME HubInv, HubCrash
  PROVE  HubInv'
<1>0. HubTyped /\ ActTyped /\ TreesKept /\ HubOrder
  BY DEF HubInv
<1>1. /\ act' = Ended(act, "crashed") /\ budget' = [budget EXCEPT !.crashed = TRUE]
      /\ UNCHANGED <<registry, dirs, source, dest, managed, kept, locks, hubPlan>>
  BY DEF HubCrash
<1>2. /\ act'.at = "idle" /\ act'.todo = {} /\ act'.undo = {} /\ act'.result = "crashed" /\ SameHubJob /\ ActTyped'
  BY <1>0, <1>1, EndedHub
<1>3. HubTyped' /\ budget'.crashed
  BY <1>0, <1>1 DEF HubTyped
<1>4. HubAllOrNothing' /\ HubLocks'
  BY <1>2, <1>3 DEF HubAllOrNothing, Committed, HubLocks
<1>5. TreesKept'
  BY <1>0, <1>1, <1>2 DEF TreesKept, SameHubJob, NotEdited
<1>6. act'.job \in {"sync", "remove"} => act'.staged = Nothing
  BY <1>0, <1>2 DEF HubOrder, SameHubJob
<1> QED BY <1>2, <1>3, <1>4, <1>5, <1>6, OverHub


LEMMA UndoneHub ==
  ASSUME ActTyped, HubOrder, act.at = "undo", NEW r \in act.undo, NEW a,
         a = [act EXCEPT !.undo = @ \ {r}] \/ a = [act EXCEPT !.undo = @ \ {r}, !.undoFailed = TRUE],
         IF act.undo = {r} THEN act' = Ended(a, "failed") /\ locks' = locks \ LockOf
         ELSE act' = a /\ locks' = locks
  PROVE  /\ act'.undo = act.undo \ {r} /\ act'.at = (IF act'.undo = {} THEN "idle" ELSE "undo") /\ act'.todo = {}
         /\ act'.result = "failed" /\ act'.job = act.job /\ act'.ops = act.ops /\ act'.staged = act.staged
         /\ act'.moved = act.moved /\ act'.before = act.before /\ act'.touched = act.touched
         /\ ActTyped' /\ locks' = (IF act'.undo = {} THEN locks \ LockOf ELSE locks)
         /\ act'.undoFailed = a.undoFailed
<1>1. /\ a \in [at : {"undo"}, job : {act.job}, plan : {act.plan}, ops : {act.ops},
         todo : {{}}, staged : {act.staged}, undo : {act.undo \ {r}},
         moved : {act.moved}, reg : {act.reg}, entries : {act.entries}, touched : {act.touched},
         result : {"failed"}, undoFailed : {a.undoFailed}, before : {act.before}]
  <2>1. CASE a = [act EXCEPT !.undo = @ \ {r}]
    BY <2>1 DEF ActTyped, Acts, HubOrder
  <2>2. CASE a = [act EXCEPT !.undo = @ \ {r}, !.undoFailed = TRUE]
    BY <2>2 DEF ActTyped, Acts, HubOrder
  <2> QED BY <2>1, <2>2
<1>2. /\ act'.undo = act.undo \ {r} /\ act'.at = (IF act'.undo = {} THEN "idle" ELSE "undo") /\ act'.todo = {}
      /\ locks' = (IF act'.undo = {} THEN locks \ LockOf ELSE locks)
      /\ act' \in [at : {"idle", "undo"}, job : {act.job}, plan : {act.plan}, ops : {act.ops},
         todo : {{}}, staged : {act.staged}, undo : {act.undo \ {r}},
         moved : {act.moved}, reg : {act.reg}, entries : {act.entries}, touched : {act.touched},
         result : {"failed"}, undoFailed : {a.undoFailed}, before : {act.before}]
  <2>1. CASE act.undo = {r}
    <3>1. act' = Ended(a, "failed") /\ locks' = locks \ LockOf
      BY <2>1
    <3>2. act' \in [at : {"idle"}, job : {act.job}, plan : {act.plan}, ops : {act.ops},
         todo : {{}}, staged : {act.staged}, undo : {{}},
         moved : {act.moved}, reg : {act.reg}, entries : {act.entries}, touched : {act.touched},
         result : {"failed"}, undoFailed : {a.undoFailed}, before : {act.before}]
      BY <1>1, <3>1 DEF Ended
    <3> QED BY <2>1, <3>1, <3>2
  <2>2. CASE act.undo # {r}
    BY <1>1, <2>2
  <2> QED BY <2>1, <2>2
<1>3. /\ act'.job = act.job /\ act'.plan = act.plan /\ act'.ops = act.ops /\ act'.touched = act.touched
      /\ act'.before = act.before /\ act'.staged = act.staged /\ act'.moved = act.moved /\ act'.result = "failed"
      /\ act'.undoFailed = a.undoFailed
  BY <1>2
<1>4. act.undo \in SUBSET Resource /\ act \in Acts
  BY DEF ActTyped, Acts
<1>5. act' \in Acts'
  BY <1>2, <1>3, <1>4 DEF Acts, HubPlaces
<1> QED BY <1>2, <1>3, <1>5 DEF ActTyped

\* One step of a rollback undoes one change, or fails to.
LEMMA UndoStepHub ==
  ASSUME HubInv, NEW r \in Resource, UndoDir(r) \/ UndoDest(r) \/ UndoFails(r)
  PROVE  HubInv'
<1>0. HubTyped /\ ActTyped /\ HubOrder /\ HubBefore /\ HubMoved /\ TreesKept
  BY DEF HubInv
<1>1. act.at = "undo" /\ r \in act.undo /\ UNCHANGED <<registry, source, managed, hubPlan, budget>>
  BY DEF UndoDir, UndoDest, UndoFails, LastDone
<1>2. \A s \in Resource : \/ budget'.torn
                          \/ registry'.digest[s] = act.before.registry[s] /\ managed'[s] = act.before.managed[s]
  BY <1>0, <1>1 DEF HubBefore
<1>3. \A s : ~Placing(s)
  BY <1>1 DEF Placing
<1>4. \A s \in NotEdited : s \in Resource
  BY DEF NotEdited
<1>5. act.job # "none" /\ act.moved \in [Resource -> Dir \cup [content : Trees, digest : {None}]]
  BY <1>0, <1>1 DEF HubOrder, ActTyped, Acts
<1>6. CASE UndoDir(r)
  <2> DEFINE old == [id |-> r, content |-> act.moved[r].content, digest |-> act.moved[r].digest]
  <2>1. /\ act.job # "sync" /\ dirs' = [dirs EXCEPT ![r] = act.moved[r]] /\ dest' = dest
        /\ kept' = [kept EXCEPT !.backups = @ \ {old}]
        /\ IF act.undo = {r} THEN Give("failed") ELSE act' = [act EXCEPT !.undo = @ \ {r}] /\ UNCHANGED locks
    BY <1>6 DEF UndoDir
  <2>2. /\ act'.undo = act.undo \ {r} /\ act'.at = (IF act'.undo = {} THEN "idle" ELSE "undo") /\ act'.todo = {}
        /\ act'.result = "failed" /\ act'.job = act.job /\ act'.ops = act.ops /\ act'.staged = act.staged
        /\ act'.moved = act.moved /\ act'.before = act.before /\ act'.touched = act.touched
        /\ ActTyped' /\ locks' = (IF act'.undo = {} THEN locks \ LockOf ELSE locks)
        /\ act'.undoFailed = act.undoFailed
    <3>2. CASE act.undo = {r}
      <4>1. act' = Ended(act, "failed") /\ locks' = locks \ LockOf
        BY <2>1, <3>2 DEF Give
      <4> QED BY <1>0, <3>2, <4>1, EndedHub DEF SameHubJob
    <3>3. CASE act.undo # {r}
      <4>1. act' = [act EXCEPT !.undo = @ \ {r}] /\ locks' = locks
        BY <2>1, <3>3
      <4>2. act'.undoFailed = act.undoFailed
        BY <1>0, <4>1 DEF ActTyped, Acts
      <4> QED BY <1>0, <1>1, <3>3, <4>1, <4>2, UndoneHub
    <3> QED BY <3>2, <3>3
  <2>3. /\ \A s \in Resource \ {r} : dirs'[s] = dirs[s]
        /\ dirs'[r] = act.moved[r] /\ kept'.aside = kept.aside
        /\ \A b \in kept.backups : b.id # r => b \in kept'.backups
    BY <1>0, <2>1 DEF HubTyped
  <2>4. \A s \in Resource \ {r} : DirKept(s) => DirKept(s)'
    BY <2>2, <2>3 DEF DirKept, Record
  <2>5. HubTyped'
    <3>1. act.moved[r] \in Dir
      BY <1>0, <2>1 DEF ActTyped
    <3> QED BY <1>0, <1>1, <2>1, <2>2, <3>1 DEF HubTyped
  <2>6. TreesKept'
    <3> SUFFICES ASSUME NEW s \in NotEdited
                 PROVE  /\ act.before.dest[s] \in {None, dest'[s]} \/ <<s, act.before.dest[s]>> \in kept'.aside
                        /\ act.before.dirs[s] \in {NoDir, dirs'[s]} \/ Record(s) \in kept'.backups
      BY <2>2 DEF TreesKept, Record, NotEdited
    <3>1. /\ act.before.dest[s] \in {None, dest[s]} \/ <<s, act.before.dest[s]>> \in kept.aside
          /\ act.before.dirs[s] \in {NoDir, dirs[s]} \/ Record(s) \in kept.backups
      BY <1>0, <1>5 DEF TreesKept, Record
    <3>2. CASE s = r
      BY <1>0, <1>1, <2>1, <2>3, <3>1, <3>2 DEF HubMoved
    <3>3. CASE s # r
      BY <1>4, <2>1, <2>3, <3>1, <3>3 DEF Record
    <3> QED BY <3>2, <3>3
  <2>7. \A s \in NotEdited :
            /\ act.job = "sync" => dirs'[s] = act.before.dirs[s]
            /\ act.job # "sync" => dest'[s] = act.before.dest[s]
            /\ s \notin act'.undo /\ ~act'.undoFailed => dirs'[s] = act.before.dirs[s] /\ dest'[s] = act.before.dest[s]
    BY <1>0, <1>1, <1>3, <1>4, <2>1, <2>2, <2>3 DEF HubBefore, HubMoved, AsBefore
  <2>8. \A s \in NotEdited :
            /\ s \in act'.undo /\ act.job = "sync" => act.moved[s].content = act.before.dest[s] /\ DestKept(s)'
            /\ s \in act'.undo /\ act.job # "sync" => act.moved[s] = act.before.dirs[s] /\ DirKept(s)'
    BY <1>0, <1>1, <1>4, <2>1, <2>2, <2>4 DEF HubMoved
  <2>9. \A s \in NotEdited :
            /\ act.job = "sync" => dirs'[s] = act.before.dirs[s]
            /\ act.job # "sync" => dest'[s] = act.before.dest[s]
            /\ s \notin act'.undo /\ ~act'.undoFailed => dirs'[s] = act.before.dirs[s] /\ dest'[s] = act.before.dest[s]
            /\ s \in act'.undo /\ act.job = "sync" => act.moved[s].content = act.before.dest[s] /\ DestKept(s)'
            /\ s \in act'.undo /\ act.job # "sync" => act.moved[s] = act.before.dirs[s] /\ DirKept(s)'
    BY <2>7, <2>8
  <2>10. act'.undo \subseteq act.undo /\ act.at # "idle" /\ budget'.crashed = budget.crashed
    BY <1>1, <2>2
  <2> QED BY <1>2, <2>2, <2>5, <2>6, <2>9, <2>10, UndoingHub
<1>7. CASE UndoDest(r)
  <2> DEFINE old == <<r, act.moved[r].content>>
  <2>1. /\ act.job = "sync" /\ dest' = [dest EXCEPT ![r] = act.moved[r].content] /\ dirs' = dirs
        /\ kept' = [kept EXCEPT !.aside = @ \ {old}]
        /\ IF act.undo = {r} THEN Give("failed") ELSE act' = [act EXCEPT !.undo = @ \ {r}] /\ UNCHANGED locks
    BY <1>7 DEF UndoDest
  <2>2. /\ act'.undo = act.undo \ {r} /\ act'.at = (IF act'.undo = {} THEN "idle" ELSE "undo") /\ act'.todo = {}
        /\ act'.result = "failed" /\ act'.job = act.job /\ act'.ops = act.ops /\ act'.staged = act.staged
        /\ act'.moved = act.moved /\ act'.before = act.before /\ act'.touched = act.touched
        /\ ActTyped' /\ locks' = (IF act'.undo = {} THEN locks \ LockOf ELSE locks)
        /\ act'.undoFailed = act.undoFailed
    <3>1. CASE act.undo = {r}
      <4>1. act' = Ended(act, "failed") /\ locks' = locks \ LockOf
        BY <2>1, <3>1 DEF Give
      <4> QED BY <1>0, <3>1, <4>1, EndedHub DEF SameHubJob
    <3>2. CASE act.undo # {r}
      <4>1. act' = [act EXCEPT !.undo = @ \ {r}] /\ locks' = locks
        BY <2>1, <3>2
      <4>2. act'.undoFailed = act.undoFailed
        BY <1>0, <4>1 DEF ActTyped, Acts
      <4> QED BY <1>0, <1>1, <3>2, <4>1, <4>2, UndoneHub
    <3> QED BY <3>1, <3>2
  <2>3. /\ \A s \in Resource \ {r} : dest'[s] = dest[s]
        /\ dest'[r] = act.moved[r].content /\ kept'.backups = kept.backups
        /\ \A s, v : s # r /\ <<s, v>> \in kept.aside => <<s, v>> \in kept'.aside
    BY <1>0, <2>1 DEF HubTyped
  <2>4. \A s \in Resource \ {r} : DestKept(s) => DestKept(s)'
    BY <2>2, <2>3 DEF DestKept
  <2>5. HubTyped'
    <3>1. act.moved[r].content \in Trees
      BY <1>5 DEF Dir, Trees, Digests, NoDir, None
    <3>2. dest' \in [Resource -> Trees]
      BY <1>0, <2>1, <3>1 DEF HubTyped
    <3>3. kept' \in [backups : SUBSET BackedUp, aside : {kept'.aside}]
      BY <1>0, <2>1 DEF HubTyped
    <3>4. locks' \subseteq {"target", "refresh"}
      BY <1>0, <2>2 DEF HubTyped
    <3> QED BY <1>0, <1>1, <2>1, <3>2, <3>3, <3>4 DEF HubTyped
  <2>6. TreesKept'
    <3> SUFFICES ASSUME NEW s \in NotEdited
                 PROVE  /\ act.before.dest[s] \in {None, dest'[s]} \/ <<s, act.before.dest[s]>> \in kept'.aside
                        /\ act.before.dirs[s] \in {NoDir, dirs'[s]} \/ Record(s) \in kept'.backups
      BY <2>2 DEF TreesKept, Record, NotEdited
    <3>1. /\ act.before.dest[s] \in {None, dest[s]} \/ <<s, act.before.dest[s]>> \in kept.aside
          /\ act.before.dirs[s] \in {NoDir, dirs[s]} \/ Record(s) \in kept.backups
      BY <1>0, <1>5 DEF TreesKept, Record
    <3>2. CASE s = r
      BY <1>0, <1>1, <2>1, <2>3, <3>1, <3>2 DEF HubMoved
    <3>3. CASE s # r
      BY <1>4, <2>1, <2>3, <3>1, <3>3
    <3> QED BY <3>2, <3>3
  <2>7. \A s \in NotEdited :
            /\ act.job = "sync" => dirs'[s] = act.before.dirs[s]
            /\ act.job # "sync" => dest'[s] = act.before.dest[s]
            /\ s \notin act'.undo /\ ~act'.undoFailed => dirs'[s] = act.before.dirs[s] /\ dest'[s] = act.before.dest[s]
    BY <1>0, <1>1, <1>3, <1>4, <2>1, <2>2, <2>3 DEF HubBefore, HubMoved, AsBefore
  <2>8. \A s \in NotEdited :
            /\ s \in act'.undo /\ act.job = "sync" => act.moved[s].content = act.before.dest[s] /\ DestKept(s)'
            /\ s \in act'.undo /\ act.job # "sync" => act.moved[s] = act.before.dirs[s] /\ DirKept(s)'
    BY <1>0, <1>1, <1>4, <2>1, <2>2, <2>4 DEF HubMoved
  <2>9. \A s \in NotEdited :
            /\ act.job = "sync" => dirs'[s] = act.before.dirs[s]
            /\ act.job # "sync" => dest'[s] = act.before.dest[s]
            /\ s \notin act'.undo /\ ~act'.undoFailed => dirs'[s] = act.before.dirs[s] /\ dest'[s] = act.before.dest[s]
            /\ s \in act'.undo /\ act.job = "sync" => act.moved[s].content = act.before.dest[s] /\ DestKept(s)'
            /\ s \in act'.undo /\ act.job # "sync" => act.moved[s] = act.before.dirs[s] /\ DirKept(s)'
    BY <2>7, <2>8
  <2>10. act'.undo \subseteq act.undo /\ act.at # "idle" /\ budget'.crashed = budget.crashed
    BY <1>1, <2>2
  <2> QED BY <1>2, <2>2, <2>5, <2>6, <2>9, <2>10, UndoingHub
<1>8. CASE UndoFails(r)
  <2> DEFINE a == [act EXCEPT !.undo = @ \ {r}, !.undoFailed = TRUE]
  <2>1. /\ \/ UNCHANGED <<dirs, dest>>
           \/ act.job = "sync" /\ dest' = [dest EXCEPT ![r] = None] /\ UNCHANGED dirs
           \/ act.job # "sync" /\ dirs' = [dirs EXCEPT ![r] = NoDir] /\ UNCHANGED dest
        /\ IF act.undo = {r} THEN act' = Ended(a, "failed") /\ locks' = locks \ LockOf
           ELSE act' = a /\ UNCHANGED locks
        /\ kept' = kept
    BY <1>8 DEF UndoFails
  <2>2. /\ act'.undo = act.undo \ {r} /\ act'.at = (IF act'.undo = {} THEN "idle" ELSE "undo") /\ act'.todo = {}
        /\ act'.result = "failed" /\ act'.job = act.job /\ act'.ops = act.ops /\ act'.staged = act.staged
        /\ act'.moved = act.moved /\ act'.before = act.before /\ act'.touched = act.touched
        /\ ActTyped' /\ locks' = (IF act'.undo = {} THEN locks \ LockOf ELSE locks)
        /\ act'.undoFailed
    <3>1. a.undoFailed
      BY <1>0 DEF ActTyped, Acts
    <3>2. a = [act EXCEPT !.undo = @ \ {r}, !.undoFailed = TRUE]
      OBVIOUS
    <3>3. IF act.undo = {r} THEN act' = Ended(a, "failed") /\ locks' = locks \ LockOf
           ELSE act' = a /\ locks' = locks
      BY <2>1
    <3> HIDE DEF a
    <3> QED BY <1>0, <1>1, <3>1, <3>2, <3>3, UndoneHub
  <2> HIDE DEF a
  <2>3. /\ \A s \in Resource \ {r} : dest'[s] = dest[s] /\ dirs'[s] = dirs[s]
        /\ act.job = "sync" => dirs' = dirs
        /\ act.job # "sync" => dest' = dest
    BY <1>0, <2>1 DEF HubTyped
  <2>4. \A s \in Resource : (DestKept(s) => DestKept(s)') /\ (DirKept(s) => DirKept(s)')
    BY <2>1, <2>2 DEF DestKept, DirKept, Record
  <2>5. HubTyped'
    <3>1. dest' \in [Resource -> Trees] /\ dirs' \in [Resource -> Dir]
      BY <1>0, <2>1, NoDirIsDir DEF HubTyped, Trees, Digests, None
    <3>2. locks' \subseteq {"target", "refresh"}
      BY <1>0, <2>2 DEF HubTyped
    <3> QED BY <1>0, <1>1, <2>1, <3>1, <3>2 DEF HubTyped
  <2>6. TreesKept'
    <3> SUFFICES ASSUME NEW s \in NotEdited
                 PROVE  /\ act.before.dest[s] \in {None, dest'[s]} \/ <<s, act.before.dest[s]>> \in kept.aside
                        /\ act.before.dirs[s] \in {NoDir, dirs'[s]} \/ Record(s) \in kept.backups
      BY <2>1, <2>2 DEF TreesKept, Record, NotEdited
    <3>1. /\ act.before.dest[s] \in {None, dest[s]} \/ <<s, act.before.dest[s]>> \in kept.aside
          /\ act.before.dirs[s] \in {NoDir, dirs[s]} \/ Record(s) \in kept.backups
      BY <1>0, <1>5 DEF TreesKept, Record
    <3>2. CASE s = r /\ act.job = "sync"
      BY <1>0, <1>1, <2>3, <3>1, <3>2 DEF HubMoved, DestKept
    <3>3. CASE s = r /\ act.job # "sync"
      <4>1. DirKept(r)
        BY <1>0, <1>1, <3>3 DEF HubMoved
      <4> QED BY <2>3, <3>1, <3>3, <4>1 DEF DirKept
    <3>4. CASE s # r
      BY <1>4, <2>3, <3>1, <3>4
    <3> QED BY <3>2, <3>3, <3>4
  <2>7. \A s \in NotEdited :
            /\ act.job = "sync" => dirs'[s] = act.before.dirs[s]
            /\ act.job # "sync" => dest'[s] = act.before.dest[s]
    BY <1>0, <1>1, <1>4, <2>3 DEF HubBefore
  <2>8. \A s \in NotEdited :
            /\ s \in act'.undo /\ act.job = "sync" => act.moved[s].content = act.before.dest[s] /\ DestKept(s)'
            /\ s \in act'.undo /\ act.job # "sync" => act.moved[s] = act.before.dirs[s] /\ DirKept(s)'
    BY <1>0, <1>1, <1>4, <2>2, <2>4 DEF HubMoved
  <2>9. \A s \in NotEdited :
            /\ act.job = "sync" => dirs'[s] = act.before.dirs[s]
            /\ act.job # "sync" => dest'[s] = act.before.dest[s]
            /\ s \notin act'.undo /\ ~act'.undoFailed => dirs'[s] = act.before.dirs[s] /\ dest'[s] = act.before.dest[s]
            /\ s \in act'.undo /\ act.job = "sync" => act.moved[s].content = act.before.dest[s] /\ DestKept(s)'
            /\ s \in act'.undo /\ act.job # "sync" => act.moved[s] = act.before.dirs[s] /\ DirKept(s)'
    BY <2>2, <2>7, <2>8
  <2>10. act'.undo \subseteq act.undo /\ act.at # "idle" /\ budget'.crashed = budget.crashed
    BY <1>1, <2>2
  <2> QED BY <1>2, <2>2, <2>5, <2>6, <2>9, <2>10, UndoingHub
<1> QED BY <1>6, <1>7, <1>8

-----------------------------------------------------------------------------
(* The steps of the jobs that change canonical directories.                  *)

\* What other steps of a job keep.
LEMMA GoingOn ==
  ASSUME HubInv, act.at # "idle", act'.at # "idle", act'.job = act.job, locks' = locks, budget' = budget
  PROVE  HubLocks' /\ HubAllOrNothing'
<1>1. LockOf' = LockOf
  BY DEF LockOf
<1> QED BY <1>1 DEF HubInv, HubLocks, HubAllOrNothing, Committed

LEMMA FinishingHub ==
  ASSUME HubInv, NEW result, Give(result), HubTyped', budget' = budget, dirs' = dirs, dest' = dest, kept' = kept,
         HubAllOrNothing'
  PROVE  HubInv'
<1>0. HubTyped /\ ActTyped /\ HubOrder /\ TreesKept /\ HubLocks
  BY DEF HubInv
<1>1. act' = Ended(act, result) /\ locks' = locks \ LockOf
  BY DEF Give
<1>2. /\ act'.at = "idle" /\ act'.todo = {} /\ act'.undo = {} /\ act'.result = result /\ SameHubJob /\ ActTyped'
      /\ LockOf' = LockOf
  BY <1>0, <1>1, EndedHub
<1>3. HubLocks'
  BY <1>0, <1>1, <1>2 DEF HubLocks
<1>4. TreesKept'
  BY <1>0, <1>2 DEF TreesKept, SameHubJob, NotEdited
<1>5. act'.job \in {"sync", "remove"} => act'.staged = Nothing
  BY <1>0, <1>2 DEF HubOrder, SameHubJob
<1> QED BY <1>2, <1>3, <1>4, <1>5, OverHub

\* A job that gives up before its first change.
LEMMA RefusingHub ==
  ASSUME HubInv, act.at \in {"check", "stage"}, NEW result \in {"refused", "failed"}, Give(result),
         UNCHANGED <<registry, dirs, source, dest, managed, kept, hubPlan, budget>>
  PROVE  HubInv'
<1>0. HubTyped /\ ActTyped /\ HubOrder /\ HubBefore
  BY DEF HubInv
<1>1. act' = Ended(act, result) /\ locks' = locks \ LockOf
  BY DEF Give
<1>2. act'.result = result /\ SameHubJob
  BY <1>0, <1>1, EndedHub
<1>3. HubTyped'
  BY <1>0, <1>1 DEF HubTyped
<1>4. act.undo = {} /\ ~act.undoFailed /\ \A r : ~Placing(r)
  BY <1>0 DEF HubOrder, Placing
<1>5. \A r \in NotEdited : r \in Resource
  BY DEF NotEdited
<1>6. \A r \in NotEdited : /\ AsBefore(r)
                           /\ budget.torn \/ (registry.digest[r] = act.before.registry[r] /\ managed[r] = act.before.managed[r])
  BY <1>0, <1>4, <1>5 DEF HubBefore
<1>7. HubAllOrNothing'
  BY <1>2, <1>6 DEF HubAllOrNothing, Committed, SameHubJob, AsBefore, NotEdited
<1> QED BY <1>3, <1>7, FinishingHub

LEMMA CheckingHub ==
  ASSUME HubInv, Check \/ CheckFails
  PROVE  HubInv'
<1>0. HubTyped /\ ActTyped /\ HubOrder /\ HubBefore /\ TreesKept
  BY DEF HubInv
<1>1. CASE CheckFails
  BY <1>1, RefusingHub DEF CheckFails
<1>2. CASE Check
  <2> DEFINE at == IF act.job = "sync" THEN "move" ELSE "stage"
  <2>1. /\ act.at = "check" /\ act' = [act EXCEPT !.at = at, !.todo = ToUpdate]
        /\ IF act.job = "sync" THEN \A r \in DOMAIN act.ops : SyncStillReviewed(r)
                           ELSE \A r \in DOMAIN act.ops : RefreshStillReviewed(r)
        /\ UNCHANGED <<registry, dirs, source, dest, managed, kept, locks, hubPlan, budget>>
    BY <1>2 DEF Check
  <2>2. /\ act.undo = {} /\ ~act.undoFailed /\ act.result = "none" /\ act.staged = Nothing
        /\ act.job \in {"sync", "refresh"} /\ \A r : ~Placing(r)
    BY <1>0, <2>1 DEF HubOrder, Placing
  <2>3. ToUpdate \in SUBSET Resource
    BY <1>0 DEF ActTyped, GoodOps, ToUpdate
  <2>4. /\ act'.at = at /\ act'.todo = ToUpdate /\ act'.undo = {} /\ act'.result = act.result /\ SameHubJob
        /\ act' \in Acts'
    <3> HIDE DEF ToUpdate
    <3> QED BY <1>0, <2>1, <2>2, <2>3 DEF ActTyped, Acts, SameHubJob, HubPlaces
  <2>5. ActTyped' /\ HubTyped'
    BY <1>0, <2>1, <2>4 DEF ActTyped, SameHubJob, HubTyped
  <2>6. ToUpdate' = ToUpdate /\ NotEdited' = NotEdited
    BY <2>4 DEF SameHubJob, ToUpdate, NotEdited
  <2> HIDE DEF ToUpdate
  <2>7. HubOrder'
    BY <2>2, <2>4, <2>6 DEF HubOrder, SameHubJob, Syncing, Storing
  <2>8. \A r \in NotEdited : r \in Resource
    BY DEF NotEdited
  <2>9. \A r \in NotEdited : AsBefore(r)
    BY <1>0, <2>1, <2>2, <2>8 DEF HubBefore
  <2>10. HubBefore'
    <3>1. \A r \in Resource : budget.torn \/ (registry.digest[r] = act.before.registry[r] /\ managed[r] = act.before.managed[r])
      BY <1>0, <2>1 DEF HubBefore
    <3> QED BY <2>1, <2>4, <2>6, <2>9, <3>1 DEF HubBefore, AsBefore, SameHubJob
  <2>11. HubMoved'
    BY <2>4 DEF HubMoved, Placing
  <2>12. HubReviewed'
    <3> SUFFICES ASSUME act'.job = "sync", NEW r \in DOMAIN act.ops \cap NotEdited
                 PROVE  /\ act.ops[r].action # "conflict"
                        /\ act.ops[r].action = "create" => act.before.dest[r] = None
                        /\ act.ops[r].action = "update" => act.before.dest[r] = act.ops[r].recorded
                        /\ act.ops[r].action = "remove" => act.before.dest[r] \in {None, managed[r]}
      BY <2>1, <2>4, <2>6 DEF HubReviewed, SameHubJob, Syncing
    <3>1. SyncStillReviewed(r) /\ act.job = "sync"
      BY <2>1, <2>4 DEF SameHubJob
    <3>2. dest[r] = act.before.dest[r]
      BY <2>9 DEF AsBefore
    <3>3. /\ act.ops[r].action \in {"create", "noop", "update", "remove", "conflict"}
          /\ act.ops[r].action = "create" => act.ops[r].current = None
          /\ act.ops[r].action = "update" => act.ops[r].current = act.ops[r].recorded
      BY <1>0, <3>1 DEF ActTyped, GoodOps
    <3> QED BY <3>1, <3>2, <3>3 DEF SyncStillReviewed
  <2>13. HubInstalled'
    BY <2>4, <2>6 DEF HubInstalled
  <2>14. HubPlaced'
    <3> SUFFICES ASSUME act.job = "refresh", NEW r \in ToUpdate
                 PROVE  act.ops[r].desired \in TreeContent
      BY <2>2, <2>4, <2>6 DEF HubPlaced, SameHubJob, Storing, Nothing
    <3>1. r \in DOMAIN act.ops /\ act.ops[r].action # "noop"
      BY DEF ToUpdate
    <3>2. RefreshStillReviewed(r)
      BY <2>1, <3>1
    <3> QED BY <1>0, <3>1, <3>2 DEF RefreshStillReviewed, ActTyped, GoodOps
  <2>15. TreesKept'
    BY <1>0, <2>1, <2>4, <2>6 DEF TreesKept, SameHubJob
  <2>16. HubLocks' /\ HubAllOrNothing'
    BY <2>1, <2>4, GoingOn DEF SameHubJob
  <2> HIDE DEF at
  <2> QED BY <2>5, <2>7, <2>10, <2>11, <2>12, <2>13, <2>14, <2>15, <2>16 DEF HubInv
<1> QED BY <1>1, <1>2

\* Steps of a job that only look at the trees.
LEMMA LookingHub ==
  ASSUME HubInv, HubTyped', ActTyped', HubOrder', HubPlaced', HubInstalled', act.at # "idle", act'.at # "idle",
         UNCHANGED <<registry, dirs, dest, managed, kept, locks, budget>>,
         act'.job = act.job, act'.ops = act.ops, act'.moved = act.moved, act'.before = act.before,
         act'.touched = act.touched, act'.undoFailed = act.undoFailed, act'.undo = act.undo,
         act'.at \in Syncing => act.at \in Syncing, act.at # "place", act'.at # "place"
  PROVE  HubInv'
<1>1. NotEdited' = NotEdited /\ ToUpdate' = ToUpdate /\ \A r : ~Placing(r) /\ ~Placing(r)'
  BY DEF NotEdited, ToUpdate, Placing
<1>2. HubBefore'
  BY <1>1 DEF HubInv, HubBefore, AsBefore
<1>3. HubMoved'
  BY <1>1 DEF HubInv, HubMoved, DirKept, DestKept, Record
<1>4. HubReviewed'
  BY <1>1 DEF HubInv, HubReviewed
<1>5. TreesKept'
  BY <1>1 DEF HubInv, TreesKept
<1>6. HubLocks' /\ HubAllOrNothing'
  BY GoingOn
<1> QED BY <1>2, <1>3, <1>4, <1>5, <1>6 DEF HubInv

LEMMA StagingHub ==
  ASSUME HubInv, (\E r \in Resource : StageCopy(r)) \/ Staged \/ NothingToRefresh
  PROVE  HubInv'
<1>0. HubTyped /\ ActTyped /\ HubOrder /\ HubPlaced
  BY DEF HubInv
<1>1. CASE \E r \in Resource : StageCopy(r)
  <2>1. PICK r \in Resource : StageCopy(r)
    BY <1>1
  <2>2. act.at = "stage" /\ First(r) /\ UNCHANGED <<registry, dirs, source, dest, managed, kept, hubPlan, budget>>
    BY <2>1 DEF StageCopy
  <2>3. CASE source[r] # act.ops[r].desired
    <3>1. Give("failed")
      BY <2>1, <2>3 DEF StageCopy
    <3> QED BY <2>2, <3>1, RefusingHub
  <2>4. CASE source[r] = act.ops[r].desired
    <3> DEFINE staged == [act.staged EXCEPT ![r] = source[r]]
    <3>1. act' = [act EXCEPT !.todo = @ \ {r}, !.staged[r] = source[r]] /\ locks' = locks
      BY <2>1, <2>4 DEF StageCopy
    <3>2. act.undo = {} /\ act.job = "refresh" /\ act.todo \subseteq ToUpdate /\ r \in act.todo /\ act.result = "none" /\ ~act.undoFailed
      BY <1>0, <2>2 DEF HubOrder, First
    <3>3. /\ staged \in [Resource -> Digests] /\ staged[r] = source[r]
          /\ \A s \in Resource \ {r} : staged[s] = act.staged[s]
      BY <1>0 DEF ActTyped, Acts, HubTyped
    <3>4. /\ act'.at = "stage" /\ act'.todo = act.todo \ {r} /\ act'.staged = staged /\ act'.undo = {} /\ act'.job = "refresh"
          /\ act'.ops = act.ops /\ act'.moved = act.moved /\ act'.before = act.before /\ act'.result = "none"
          /\ act'.touched = act.touched /\ act'.undoFailed = act.undoFailed /\ act' \in Acts'
      <4>1. act' \in [at : {"stage"}, job : {"refresh"}, plan : {act.plan}, ops : {act.ops}, todo : {act.todo \ {r}},
                      staged : {staged}, undo : {{}}, moved : {act.moved}, reg : {act.reg}, entries : {act.entries},
                      touched : {act.touched}, result : {"none"}, undoFailed : {act.undoFailed}, before : {act.before}]
        BY <1>0, <2>2, <3>1, <3>2 DEF ActTyped, Acts
      <4> HIDE DEF staged
      <4>2. act' \in Acts'
        BY <1>0, <3>3, <4>1 DEF ActTyped, Acts, HubPlaces
      <4> QED BY <4>1, <4>2
    <3> HIDE DEF staged
    <3>5. ActTyped' /\ HubTyped'
      BY <1>0, <2>2, <3>1, <3>2, <3>4 DEF ActTyped, HubTyped
    <3>6. ToUpdate' = ToUpdate
      BY <3>4 DEF ToUpdate
    <3>7. HubOrder'
      BY <3>2, <3>4, <3>6 DEF HubOrder, Syncing, Storing
    <3>8. HubPlaced'
      <4> SUFFICES ASSUME NEW s \in Resource
                   PROVE  /\ s \in ToUpdate => act.ops[s].desired \in TreeContent
                          /\ s \in ToUpdate \ (act.todo \ {r}) => staged[s] \in TreeContent
                          /\ staged[s] # None => s \in ToUpdate
        BY <3>4, <3>6 DEF HubPlaced, Storing
      <4>1. /\ s \in ToUpdate => act.ops[s].desired \in TreeContent
            /\ s \in ToUpdate \ act.todo => act.staged[s] \in TreeContent
            /\ act.staged[s] # None => s \in ToUpdate
        BY <1>0, <2>2 DEF HubPlaced
      <4>2. CASE s = r
        BY <2>4, <3>2, <3>3, <4>1, <4>2
      <4>3. CASE s # r
        BY <3>3, <4>1, <4>3
      <4> QED BY <4>2, <4>3
    <3>9. HubInstalled'
      BY <3>4 DEF HubInstalled, Syncing
    <3> QED BY <2>2, <3>1, <3>2, <3>4, <3>5, <3>7, <3>8, <3>9, LookingHub DEF Syncing
  <2> QED BY <2>3, <2>4
<1>2. CASE Staged
  <2>1. /\ act.at = "stage" /\ act.todo = {} /\ act' = [act EXCEPT !.at = "aside", !.todo = ToUpdate]
        /\ UNCHANGED <<registry, dirs, source, dest, managed, kept, locks, hubPlan, budget>>
    BY <1>2 DEF Staged
  <2>2. act.undo = {} /\ act.job = "refresh" /\ act.result = "none" /\ ~act.undoFailed
    BY <1>0, <2>1 DEF HubOrder
  <2>3. ToUpdate \in SUBSET Resource
    BY <1>0 DEF ActTyped, GoodOps, ToUpdate
  <2>4. /\ act'.at = "aside" /\ act'.todo = ToUpdate /\ act'.undo = {} /\ act'.result = act.result /\ SameHubJob
        /\ act' \in Acts'
    <3> HIDE DEF ToUpdate
    <3> QED BY <1>0, <2>1, <2>2, <2>3 DEF ActTyped, Acts, SameHubJob, HubPlaces
  <2>5. ActTyped' /\ HubTyped'
    BY <1>0, <2>1, <2>4 DEF ActTyped, SameHubJob, HubTyped
  <2>6. ToUpdate' = ToUpdate
    BY <2>4 DEF SameHubJob, ToUpdate
  <2> HIDE DEF ToUpdate
  <2>7. HubOrder'
    BY <2>2, <2>4, <2>6 DEF HubOrder, SameHubJob, Syncing, Storing
  <2>8. HubPlaced'
    BY <1>0, <2>1, <2>2, <2>4, <2>6 DEF HubPlaced, SameHubJob, Storing
  <2>9. HubInstalled'
    BY <2>4 DEF HubInstalled, Syncing
  <2> QED BY <2>1, <2>2, <2>4, <2>5, <2>7, <2>8, <2>9, LookingHub DEF SameHubJob, Syncing
<1>3. CASE NothingToRefresh
  <2>1. /\ act.at = "aside" /\ act.todo = {} /\ act' = [act EXCEPT !.at = "save"]
        /\ UNCHANGED <<registry, dirs, source, dest, managed, kept, locks, hubPlan, budget>>
    BY <1>3 DEF NothingToRefresh
  <2>2. act.job \in {"import", "remove", "refresh"} /\ act.result = "none" /\ ~act.undoFailed
    BY <1>0, <2>1 DEF HubOrder, Storing
  <2>3. /\ act'.at = "save" /\ act'.todo = {} /\ act'.undo = act.undo /\ act'.result = act.result /\ SameHubJob
        /\ act' \in Acts'
    BY <1>0, <2>1 DEF ActTyped, Acts, SameHubJob, HubPlaces
  <2>4. ActTyped' /\ HubTyped'
    BY <1>0, <2>1, <2>3 DEF ActTyped, SameHubJob, HubTyped
  <2>5. HubOrder'
    <3>1. act.job \in {"sync", "remove"} => act.staged = Nothing
      BY <1>0 DEF HubOrder
    <3> QED BY <2>2, <2>3, <3>1 DEF HubOrder, SameHubJob, Syncing, Storing
  <2>6. HubPlaced'
    BY <1>0, <2>1, <2>3 DEF HubPlaced, SameHubJob, Storing, NotEdited
  <2>7. HubInstalled'
    BY <2>3 DEF HubInstalled, Syncing
  <2> QED BY <2>1, <2>2, <2>3, <2>4, <2>5, <2>6, <2>7, LookingHub DEF SameHubJob, Syncing
<1> QED BY <1>1, <1>2, <1>3

LEMMA SettingAside ==
  ASSUME HubInv, NEW r \in Resource, SetAside(r)
  PROVE  HubInv'
<1>0. HubTyped /\ ActTyped /\ HubOrder /\ HubBefore /\ HubMoved /\ HubPlaced /\ TreesKept
  BY DEF HubInv
<1> DEFINE moved == [act.moved EXCEPT ![r] = dirs[r]]
           cleared == [act.reg EXCEPT ![r] = None]
<1>1. /\ act.at = "aside" /\ First(r) /\ dirs' = [dirs EXCEPT ![r] = NoDir]
      /\ kept' = IF dirs[r] = NoDir THEN kept ELSE [kept EXCEPT !.backups = @ \cup {Backup(r)}]
      /\ UNCHANGED <<registry, source, dest, managed, locks, hubPlan, budget>>
  BY DEF SetAside
<1>2. /\ act.job \in {"import", "remove", "refresh"} /\ act.result = "none" /\ ~act.undoFailed
      /\ r \in act.todo /\ \A s \in act.undo : s \notin act.todo
      /\ act.job = "remove" => act.undo = {} /\ act.staged = Nothing
  BY <1>0, <1>1 DEF HubOrder, Storing, First
<1>3. /\ moved \in [Resource -> Dir] /\ moved[r] = dirs[r] /\ \A s \in Resource \ {r} : moved[s] = act.moved[s]
      /\ moved \in [Resource -> Dir \cup [content : Trees, digest : {None}]]
      /\ cleared \in [Resource -> Digests]
  <2>1. act.moved \in [Resource -> Dir] /\ dirs[r] \in Dir /\ act.reg \in [Resource -> Digests]
    BY <1>0, <1>2 DEF ActTyped, Acts, HubTyped
  <2>2. moved \in [Resource -> Dir] /\ moved[r] = dirs[r] /\ \A s \in Resource \ {r} : moved[s] = act.moved[s]
    BY <2>1
  <2>3. cleared \in [Resource -> Digests]
    BY <2>1 DEF Digests, None
  <2> HIDE DEF moved, cleared
  <2> QED BY <2>2, <2>3
<1>4. /\ dirs' \in [Resource -> Dir] /\ dirs'[r] = NoDir /\ \A s \in Resource \ {r} : dirs'[s] = dirs[s]
  BY <1>0, <1>1, NoDirIsDir DEF HubTyped
<1>5. /\ kept' \in [backups : SUBSET BackedUp, aside : {kept.aside}] /\ kept'.aside = kept.aside
      /\ kept.backups \subseteq kept'.backups
      /\ dirs[r] # NoDir => Backup(r) \in kept'.backups
  <2>1. dirs[r] # NoDir => Backup(r) \in BackedUp
    BY <1>0, NoDirIsDir DEF HubTyped, Backup, BackedUp
  <2>2. kept \in [backups : SUBSET BackedUp, aside : {kept.aside}]
    BY <1>0 DEF HubTyped
  <2> HIDE DEF BackedUp, Backup
  <2>3. CASE dirs[r] = NoDir
    BY <1>1, <2>2, <2>3
  <2>4. CASE dirs[r] # NoDir
    <3>1. kept' = [kept EXCEPT !.backups = @ \cup {Backup(r)}]
      BY <1>1, <2>4
    <3> QED BY <2>1, <2>2, <2>4, <3>1
  <2> QED BY <2>3, <2>4
<1>6. HubTyped'
  BY <1>0, <1>1, <1>4, <1>5 DEF HubTyped
<1>7. \A s : (DirKept(s) => Record(s) \in kept'.backups \/ act.before.dirs[s] = NoDir)
  BY <1>5 DEF DirKept
<1>8. r \in NotEdited => dirs[r] = act.before.dirs[r]
  BY <1>0, <1>1, <1>2 DEF HubBefore, AsBefore, Placing
<1>9. r \in NotEdited => act.before.dirs[r] = NoDir \/ Record(r) \in kept'.backups
  BY <1>5, <1>8 DEF Record, Backup
<1>10. ASSUME act'.before = act.before, act'.touched = act.touched, act'.job = act.job
       PROVE  TreesKept'
  <2> SUFFICES ASSUME NEW s \in NotEdited
               PROVE  /\ act.before.dest[s] \in {None, dest[s]} \/ <<s, act.before.dest[s]>> \in kept.aside
                      /\ act.before.dirs[s] \in {NoDir, dirs'[s]} \/ Record(s) \in kept'.backups
    BY <1>1, <1>5, <1>10 DEF TreesKept, Record, NotEdited
  <2>1. /\ act.before.dest[s] \in {None, dest[s]} \/ <<s, act.before.dest[s]>> \in kept.aside
        /\ act.before.dirs[s] \in {NoDir, dirs[s]} \/ Record(s) \in kept.backups
    BY <1>0, <1>2 DEF TreesKept, Record
  <2>2. CASE s = r
    BY <1>9, <2>1, <2>2
  <2>3. CASE s # r
    <3>1. s \in Resource
      BY DEF NotEdited
    <3> QED BY <1>4, <1>5, <2>1, <2>3, <3>1
  <2> QED BY <2>2, <2>3
<1>11. \A s \in NotEdited : s \in Resource
  BY DEF NotEdited
<1>12. \A s : ~Placing(s)
  BY <1>1 DEF Placing
<1>13. \A s \in NotEdited : s \notin act.undo /\ s # r => dirs'[s] = act.before.dirs[s]
  BY <1>0, <1>1, <1>2, <1>4, <1>11, <1>12 DEF HubBefore, AsBefore
<1>14. \A s \in NotEdited : dest[s] = act.before.dest[s]
  BY <1>0, <1>1, <1>2, <1>11 DEF HubBefore
<1>15. \A s \in Resource : budget.torn \/ (registry.digest[s] = act.before.registry[s] /\ managed[s] = act.before.managed[s])
  BY <1>0, <1>1 DEF HubBefore
<1>16. \A s \in NotEdited : s \in act.undo => act.moved[s] = act.before.dirs[s] /\ DirKept(s)
  BY <1>0, <1>1, <1>2 DEF HubMoved
<1>17. CASE act.job = "remove"
  <2>1. act' = [act EXCEPT !.at = "save", !.todo = {}, !.moved[r] = dirs[r], !.undo = {r}, !.reg[r] = None]
    BY <1>17 DEF SetAside
  <2>2. act' \in [at : {"save"}, job : {act.job}, plan : {act.plan}, ops : {act.ops}, todo : {{}},
                  staged : {act.staged}, undo : {{r}}, moved : {moved}, reg : {cleared}, entries : {act.entries},
                  touched : {act.touched}, result : {"none"}, undoFailed : {act.undoFailed}, before : {act.before}]
    BY <1>0, <1>2, <2>1 DEF ActTyped, Acts
  <2> HIDE DEF moved, cleared
  <2>3. /\ act'.at = "save" /\ act'.job = "remove" /\ act'.ops = act.ops /\ act'.todo = {} /\ act'.staged = Nothing
        /\ act'.undo = {r} /\ act'.moved = moved /\ act'.touched = act.touched /\ act'.result = "none"
        /\ ~act'.undoFailed /\ act'.before = act.before /\ act'.plan = act.plan
    BY <1>2, <1>17, <2>2
  <2>4. act' \in Acts'
    BY <1>0, <1>3, <1>17, <2>2, <2>3 DEF ActTyped, Acts, HubPlaces
  <2>5. ActTyped'
    BY <1>0, <1>3, <1>17, <2>3, <2>4 DEF ActTyped
  <2>6. NotEdited' = NotEdited
    BY <2>3 DEF NotEdited
  <2>7. HubOrder'
    BY <2>3 DEF HubOrder, Syncing, Storing
  <2>8. HubBefore'
    BY <1>1, <1>13, <1>14, <1>15, <2>3, <2>6, <1>2, <1>17 DEF HubBefore, AsBefore
  <2>9. HubMoved'
    BY <1>3, <1>8, <1>9, <2>3, <2>6 DEF HubMoved, Placing, DirKept, Record
  <2>10. HubReviewed' /\ HubInstalled'
    BY <2>3 DEF HubReviewed, HubInstalled, Syncing
  <2>11. HubPlaced'
    BY <2>3 DEF HubPlaced, Nothing
  <2>12. HubLocks' /\ HubAllOrNothing'
    BY <1>1, <1>17, <2>3, GoingOn
  <2> QED BY <1>6, <1>10, <1>17, <2>3, <2>5, <2>7, <2>8, <2>9, <2>10, <2>11, <2>12 DEF HubInv
<1>18. CASE act.job # "remove"
  <2>1. act' = [act EXCEPT !.at = "place", !.moved[r] = dirs[r]]
    BY <1>18 DEF SetAside
  <2>2. act' \in [at : {"place"}, job : {act.job}, plan : {act.plan}, ops : {act.ops}, todo : {act.todo},
                  staged : {act.staged}, undo : {act.undo}, moved : {moved}, reg : {act.reg}, entries : {act.entries},
                  touched : {act.touched}, result : {"none"}, undoFailed : {act.undoFailed}, before : {act.before}]
    BY <1>0, <1>2, <2>1 DEF ActTyped, Acts
  <2> HIDE DEF moved, cleared
  <2>3. /\ act'.at = "place" /\ act'.job = act.job /\ act'.ops = act.ops /\ act'.todo = act.todo
        /\ act'.staged = act.staged /\ act'.reg = act.reg
        /\ act'.undo = act.undo /\ act'.moved = moved /\ act'.touched = act.touched /\ act'.result = "none"
        /\ ~act'.undoFailed /\ act'.before = act.before /\ act'.plan = act.plan
    BY <1>2, <1>18, <2>2
  <2>4. act' \in Acts'
    BY <1>0, <1>3, <2>2, <2>3 DEF ActTyped, Acts, HubPlaces
  <2>5. ActTyped'
    BY <1>0, <1>3, <2>3, <2>4 DEF ActTyped
  <2>6. NotEdited' = NotEdited /\ \A s : First(s)' <=> First(s)
    BY <2>3 DEF NotEdited, First
  <2>7. HubOrder'
    BY <1>2, <1>18, <2>3 DEF HubOrder, Syncing, Storing
  <2>8. HubBefore'
    <3>1. Placing(r)'
      BY <1>1, <2>3, <2>6 DEF Placing
    <3> QED BY <1>1, <1>2, <1>13, <1>14, <1>15, <2>3, <2>6, <3>1 DEF HubBefore, AsBefore
  <2>9. HubMoved'
    <3> SUFFICES ASSUME NEW s \in NotEdited
                 PROVE  /\ s \in act.undo => moved[s] = act.before.dirs[s] /\ (act.before.dirs[s] = NoDir \/ Record(s) \in kept'.backups)
                        /\ First(s) => /\ dirs'[s] = NoDir /\ moved[s] = act.before.dirs[s]
                                       /\ act.before.dirs[s] = NoDir \/ Record(s) \in kept'.backups
      BY <1>2, <2>3, <2>6 DEF HubMoved, Placing, DirKept, Record
    <3>1. s \in Resource
      BY <1>11
    <3>2. s \in act.undo => s # r
      BY <1>2
    <3>3. First(s) => s = r
      BY <1>1, <3>1, FirstUnique
    <3> QED BY <1>3, <1>4, <1>7, <1>8, <1>9, <1>16, <3>1, <3>2, <3>3
  <2>10. HubReviewed' /\ HubInstalled'
    BY <2>3 DEF HubReviewed, HubInstalled, Syncing
  <2>11. HubPlaced'
    BY <1>0, <1>1, <1>2, <1>4, <2>3, <2>6 DEF HubPlaced, Storing
  <2>12. HubLocks' /\ HubAllOrNothing'
    BY <1>1, <2>3, GoingOn
  <2> QED BY <1>6, <1>10, <2>3, <2>5, <2>7, <2>8, <2>9, <2>10, <2>11, <2>12 DEF HubInv
<1> QED BY <1>17, <1>18

LEMMA PlacingHub ==
  ASSUME HubInv, NEW r \in Resource, PlaceDir(r)
  PROVE  HubInv'
<1>0. HubTyped /\ ActTyped /\ HubOrder /\ HubBefore /\ HubMoved /\ HubPlaced /\ TreesKept
  BY DEF HubInv
<1> DEFINE left == act.todo \ {r}
           placed == [content |-> act.staged[r], digest |-> act.staged[r]]
           reg == [act.reg EXCEPT ![r] = act.staged[r]]
<1>1. /\ act.at = "place" /\ First(r) /\ dirs[r] = NoDir /\ dirs' = [dirs EXCEPT ![r] = placed]
      /\ act' = [act EXCEPT !.todo = left, !.undo = @ \cup {r}, !.reg[r] = act.staged[r],
                            !.at = IF left = {} THEN "save" ELSE "aside"]
      /\ UNCHANGED <<registry, source, dest, managed, kept, locks, hubPlan, budget>>
  BY DEF PlaceDir
<1>2. /\ act.job \in {"import", "refresh"} /\ act.result = "none" /\ ~act.undoFailed
      /\ r \in act.todo /\ \A s \in act.undo : s \notin act.todo
  BY <1>0, <1>1 DEF HubOrder, Storing, First
<1>3. act.staged[r] \in TreeContent
  BY <1>0, <1>1, <1>2 DEF HubPlaced, Storing
<1>4. placed \in Dir /\ dirs' \in [Resource -> Dir] /\ dirs'[r] = placed /\ \A s \in Resource \ {r} : dirs'[s] = dirs[s]
  <2>1. placed \in Dir
    BY <1>3 DEF Dir
  <2> HIDE DEF placed
  <2> QED BY <1>0, <1>1, <2>1 DEF HubTyped
<1>5. reg \in [Resource -> Digests] /\ reg[r] = act.staged[r] /\ \A s \in Resource \ {r} : reg[s] = act.reg[s]
  BY <1>0, <1>3 DEF ActTyped, Acts, Digests
<1>6. HubTyped'
  <2> HIDE DEF placed
  <2> QED BY <1>0, <1>1, <1>4 DEF HubTyped
<1>7. act' \in [at : {"save", "aside"}, job : {act.job}, plan : {act.plan}, ops : {act.ops}, todo : {left},
                  staged : {act.staged}, undo : {act.undo \cup {r}}, moved : {act.moved}, reg : {reg}, entries : {act.entries},
                  touched : {act.touched}, result : {"none"}, undoFailed : {act.undoFailed}, before : {act.before}]
      /\ act'.at = IF left = {} THEN "save" ELSE "aside"
  BY <1>0, <1>1, <1>2 DEF ActTyped, Acts
<1> HIDE DEF reg
<1>8. /\ act'.at \in {"save", "aside"} /\ act'.job = act.job /\ act'.ops = act.ops /\ act'.todo = left
      /\ act'.staged = act.staged /\ act'.reg = reg /\ act'.undo = act.undo \cup {r} /\ act'.moved = act.moved
      /\ act'.touched = act.touched /\ act'.result = "none" /\ ~act'.undoFailed /\ act'.before = act.before
      /\ act'.plan = act.plan /\ (act'.at = "save" => left = {})
  BY <1>2, <1>7
<1>9. act' \in Acts'
  BY <1>0, <1>5, <1>7, <1>8 DEF ActTyped, Acts, HubPlaces
<1>10. ActTyped'
  BY <1>0, <1>8, <1>9 DEF ActTyped
<1>11. NotEdited' = NotEdited /\ \A s \in NotEdited : s \in Resource
  BY <1>8 DEF NotEdited
<1>12. HubOrder'
  BY <1>2, <1>8 DEF HubOrder, Syncing, Storing
<1>13. \A s \in Resource : s # r => ~Placing(s)
  BY <1>1, FirstUnique DEF Placing
<1>14. Placing(r)
  BY <1>1 DEF Placing
<1>15. HubBefore'
  <2>1. \A s \in Resource : budget.torn \/ (registry.digest[s] = act.before.registry[s] /\ managed[s] = act.before.managed[s])
    BY <1>0, <1>1 DEF HubBefore
  <2>2. \A s \in NotEdited : dest[s] = act.before.dest[s]
    BY <1>0, <1>1, <1>2, <1>11 DEF HubBefore
  <2>3. \A s \in NotEdited : s \notin act'.undo => dirs'[s] = act.before.dirs[s]
    BY <1>0, <1>1, <1>2, <1>4, <1>8, <1>11, <1>13 DEF HubBefore, AsBefore
  <2> QED BY <1>1, <1>2, <1>8, <1>11, <2>1, <2>2, <2>3 DEF HubBefore, AsBefore
<1>16. HubMoved'
  <2>1. \A s \in NotEdited : s \in act'.undo => act.moved[s] = act.before.dirs[s] /\ DirKept(s)
    BY <1>0, <1>1, <1>2, <1>8, <1>11, <1>14 DEF HubMoved
  <2> QED BY <1>1, <1>2, <1>8, <1>11, <2>1 DEF HubMoved, Placing, DirKept, Record
<1>17. HubReviewed' /\ HubInstalled'
  BY <1>8 DEF HubReviewed, HubInstalled, Syncing
<1>18. HubPlaced'
  <2> SUFFICES ASSUME NEW s \in Resource
               PROVE  /\ s \in left => act.staged[s] \in TreeContent
                      /\ act.staged[s] # None => s \in left \cup act.undo \cup {r}
                      /\ s \in act.undo \cup {r} => reg[s] = act.staged[s]
                      /\ s \in act.undo \cup {r} /\ s \in NotEdited =>
                            dirs'[s] = [content |-> act.staged[s], digest |-> act.staged[s]]
    BY <1>8, <1>11 DEF HubPlaced
  <2>1. /\ s \in act.todo => act.staged[s] \in TreeContent
        /\ act.staged[s] # None => s \in act.todo \cup act.undo
        /\ s \in act.undo => act.reg[s] = act.staged[s]
        /\ s \in act.undo /\ s \in NotEdited => dirs[s] = [content |-> act.staged[s], digest |-> act.staged[s]]
    BY <1>0, <1>1, <1>2 DEF HubPlaced, Storing
  <2> QED BY <1>4, <1>5, <2>1
<1>19. HubLocks' /\ HubAllOrNothing'
  BY <1>1, <1>8, GoingOn
<1>20. TreesKept'
  <2> SUFFICES ASSUME NEW s \in NotEdited
               PROVE  /\ act.before.dest[s] \in {None, dest[s]} \/ <<s, act.before.dest[s]>> \in kept.aside
                      /\ act.before.dirs[s] \in {NoDir, dirs'[s]} \/ Record(s) \in kept.backups
    BY <1>1, <1>8, <1>11 DEF TreesKept, Record
  <2>1. /\ act.before.dest[s] \in {None, dest[s]} \/ <<s, act.before.dest[s]>> \in kept.aside
        /\ act.before.dirs[s] \in {NoDir, dirs[s]} \/ Record(s) \in kept.backups
    BY <1>0, <1>2 DEF TreesKept, Record
  <2> QED BY <1>1, <1>4, <1>11, <2>1
<1> HIDE DEF left, placed
<1> QED BY <1>6, <1>10, <1>12, <1>15, <1>16, <1>17, <1>18, <1>19, <1>20 DEF HubInv

LEMMA FailingToPlace ==
  ASSUME HubInv, NEW r \in Resource, PlaceFails(r)
  PROVE  HubInv'
<1>0. HubTyped /\ ActTyped /\ HubOrder /\ HubBefore /\ HubMoved /\ TreesKept
  BY DEF HubInv
<1> DEFINE old == [id |-> r, content |-> act.moved[r].content, digest |-> act.moved[r].digest]
<1>1. /\ act.at = "place" /\ First(r) /\ UNCHANGED <<registry, source, dest, managed, hubPlan, budget>>
      /\ \/ UNCHANGED <<dirs, kept>>
         \/ /\ act.moved[r] # NoDir /\ dirs[r] = NoDir
            /\ dirs' = [dirs EXCEPT ![r] = act.moved[r]]
            /\ kept' = [kept EXCEPT !.backups = @ \ {old}]
      /\ IF dirs'[r] # NoDir \/ act.moved[r] = NoDir THEN Rollback
         ELSE /\ act' = [act EXCEPT !.at = IF act.undo = {} THEN "idle" ELSE "undo", !.todo = {},
                                    !.result = "failed", !.undoFailed = TRUE]
              /\ locks' = IF act.undo = {} THEN locks \ LockOf ELSE locks
  BY DEF PlaceFails
<1>2. /\ act.job \in {"import", "refresh"} /\ act.result = "none" /\ ~act.undoFailed
      /\ r \in act.todo /\ \A s \in act.undo : s \notin act.todo
  BY <1>0, <1>1 DEF HubOrder, Storing, First
<1>3. act.moved \in [Resource -> Dir] /\ dirs \in [Resource -> Dir]
  BY <1>0, <1>2 DEF ActTyped, HubTyped
<1>4. /\ act'.at = (IF act'.undo = {} THEN "idle" ELSE "undo") /\ act'.todo = {} /\ act'.undo = act.undo
      /\ act'.result = "failed" /\ act'.job = act.job /\ act'.ops = act.ops /\ act'.staged = act.staged
      /\ act'.moved = act.moved /\ act'.before = act.before /\ act'.touched = act.touched
      /\ ActTyped' /\ locks' = (IF act'.undo = {} THEN locks \ LockOf ELSE locks)
      /\ act'.undoFailed \/ dirs'[r] # NoDir \/ act.moved[r] = NoDir
  <2>1. CASE dirs'[r] # NoDir \/ act.moved[r] = NoDir
    <3>1. Rollback
      BY <1>1, <2>1
    <3> QED BY <1>0, <2>1, <3>1, RolledBackHub DEF SameHubJob
  <2>2. CASE ~(dirs'[r] # NoDir \/ act.moved[r] = NoDir)
    <3>1. /\ act' = [act EXCEPT !.at = IF act.undo = {} THEN "idle" ELSE "undo", !.todo = {},
                                !.result = "failed", !.undoFailed = TRUE]
          /\ locks' = IF act.undo = {} THEN locks \ LockOf ELSE locks
      BY <1>1, <2>2
    <3>2. act' \in [at : {IF act.undo = {} THEN "idle" ELSE "undo"}, job : {act.job}, plan : {act.plan}, ops : {act.ops},
                    todo : {{}}, staged : {act.staged}, undo : {act.undo}, moved : {act.moved}, reg : {act.reg},
                    entries : {act.entries}, touched : {act.touched}, result : {"failed"}, undoFailed : {TRUE},
                    before : {act.before}]
      BY <1>0, <3>1 DEF ActTyped, Acts
    <3>3. /\ act'.at = (IF act.undo = {} THEN "idle" ELSE "undo") /\ act'.job = act.job /\ act'.plan = act.plan
          /\ act'.ops = act.ops /\ act'.todo = {} /\ act'.undo = act.undo /\ act'.staged = act.staged
          /\ act'.moved = act.moved /\ act'.before = act.before /\ act'.touched = act.touched
          /\ act'.result = "failed" /\ act'.undoFailed
      BY <3>2
    <3>4. act' \in Acts'
      BY <1>0, <3>2, <3>3 DEF ActTyped, Acts, HubPlaces
    <3> QED BY <1>0, <3>1, <3>3, <3>4 DEF ActTyped
  <2> QED BY <2>1, <2>2
<1>5. /\ \A s \in Resource \ {r} : dirs'[s] = dirs[s]
      /\ \/ dirs'[r] = dirs[r] /\ kept' = kept
         \/ dirs[r] = NoDir /\ act.moved[r] # NoDir /\ dirs'[r] = act.moved[r]
      /\ dirs' \in [Resource -> Dir]
      /\ kept'.aside = kept.aside
      /\ \A b \in kept.backups : b.id # r => b \in kept'.backups
      /\ kept' \in [backups : SUBSET BackedUp, aside : {kept'.aside}]
  <2>0. kept \in [backups : SUBSET BackedUp, aside : {kept.aside}]
    BY <1>0 DEF HubTyped
  <2>1. CASE UNCHANGED <<dirs, kept>>
    BY <1>3, <2>0, <2>1
  <2>2. CASE /\ act.moved[r] # NoDir /\ dirs[r] = NoDir
             /\ dirs' = [dirs EXCEPT ![r] = act.moved[r]]
             /\ kept' = [kept EXCEPT !.backups = @ \ {old}]
    <3>1. /\ \A s \in Resource \ {r} : dirs'[s] = dirs[s]
          /\ dirs'[r] = act.moved[r] /\ dirs' \in [Resource -> Dir]
      BY <1>3, <2>2
    <3>2. old.id = r
      OBVIOUS
    <3> HIDE DEF old, BackedUp
    <3>3. kept'.aside = kept.aside /\ kept'.backups = kept.backups \ {old}
          /\ kept' \in [backups : SUBSET BackedUp, aside : {kept'.aside}]
      BY <2>0, <2>2
    <3> QED BY <2>2, <3>1, <3>2, <3>3
  <2> QED BY <1>1, <2>1, <2>2
<1> HIDE DEF old
<1>6. HubTyped'
  <2>1. locks' \subseteq {"target", "refresh"}
    BY <1>0, <1>4 DEF HubTyped
  <2> QED BY <1>0, <1>1, <1>5, <2>1 DEF HubTyped
<1>7. \A s \in NotEdited : s \in Resource
  BY DEF NotEdited
<1>8. \A s \in Resource : s # r => ~Placing(s)
  BY <1>1, FirstUnique DEF Placing
<1>9. Placing(r)
  BY <1>1 DEF Placing
<1>10. /\ r \in NotEdited /\ dirs[r] = NoDir => act.moved[r] = act.before.dirs[r]
       /\ r \in NotEdited /\ dirs[r] # NoDir => act.moved[r] = NoDir /\ dirs[r] = act.before.dirs[r]
  BY <1>0, <1>1, <1>9 DEF HubMoved
<1>11. r \in NotEdited => \/ dirs'[r] = act.before.dirs[r]
                          \/ dirs'[r] = dirs[r] /\ kept' = kept /\ act'.undoFailed
  BY <1>4, <1>5, <1>10
<1>12. \A s \in NotEdited : s \notin act.undo /\ s # r => dirs'[s] = act.before.dirs[s]
  BY <1>0, <1>1, <1>2, <1>5, <1>7, <1>8 DEF HubBefore, AsBefore
<1>13. \A s \in NotEdited :
          /\ act.job = "sync" => dirs'[s] = act.before.dirs[s]
          /\ act.job # "sync" => dest'[s] = act.before.dest[s]
          /\ s \notin act'.undo /\ ~act'.undoFailed => dirs'[s] = act.before.dirs[s] /\ dest'[s] = act.before.dest[s]
          /\ s \in act'.undo /\ act.job = "sync" => act.moved[s].content = act.before.dest[s] /\ DestKept(s)'
          /\ s \in act'.undo /\ act.job # "sync" => act.moved[s] = act.before.dirs[s] /\ DirKept(s)'
  <2> TAKE s \in NotEdited
  <2>1. dest'[s] = act.before.dest[s]
    BY <1>0, <1>1, <1>2, <1>7 DEF HubBefore
  <2>2. s \notin act'.undo /\ ~act'.undoFailed => dirs'[s] = act.before.dirs[s]
    BY <1>4, <1>11, <1>12
  <2>3. s \in act'.undo => act.moved[s] = act.before.dirs[s] /\ DirKept(s)'
    <3> SUFFICES ASSUME s \in act.undo
                 PROVE  act.moved[s] = act.before.dirs[s] /\ DirKept(s)'
      BY <1>4
    <3>1. s # r
      BY <1>2
    <3>2. act.moved[s] = act.before.dirs[s] /\ DirKept(s)
      BY <1>0, <1>1, <1>2 DEF HubMoved
    <3>3. Record(s).id = s
      BY DEF Record
    <3> QED BY <1>4, <1>5, <3>1, <3>2, <3>3 DEF DirKept, Record
  <2> QED BY <1>2, <2>1, <2>2, <2>3
<1>14. TreesKept'
  <2> SUFFICES ASSUME NEW s \in NotEdited
               PROVE  /\ act.before.dest[s] \in {None, dest[s]} \/ <<s, act.before.dest[s]>> \in kept'.aside
                      /\ act.before.dirs[s] \in {NoDir, dirs'[s]} \/ Record(s) \in kept'.backups
    BY <1>1, <1>4 DEF TreesKept, Record, NotEdited
  <2>1. /\ act.before.dest[s] \in {None, dest[s]} \/ <<s, act.before.dest[s]>> \in kept.aside
        /\ act.before.dirs[s] \in {NoDir, dirs[s]} \/ Record(s) \in kept.backups
    BY <1>0, <1>2 DEF TreesKept, Record
  <2>2. CASE s = r
    BY <1>5, <1>11, <2>1, <2>2
  <2>3. CASE s # r
    <3>1. Record(s).id = s
      BY DEF Record
    <3> QED BY <1>5, <1>7, <2>1, <2>3, <3>1
  <2> QED BY <2>2, <2>3
<1>15. \A s \in Resource : \/ budget'.torn
                           \/ registry'.digest[s] = act.before.registry[s] /\ managed'[s] = act.before.managed[s]
  BY <1>0, <1>1 DEF HubBefore
<1>16. act'.undo \subseteq act.undo /\ act.at # "idle" /\ budget'.crashed = budget.crashed
  BY <1>1, <1>4
<1> QED BY <1>4, <1>6, <1>13, <1>14, <1>15, <1>16, UndoingHub

LEMMA PlanUsedTyped ==
  ASSUME HubTyped, hubPlan' \in {PlanUsed, hubPlan}
  PROVE  /\ hubPlan' \in [id : {hubPlan'.id}, kind : {hubPlan'.kind}, saves : {hubPlan'.saves},
                          valid : {hubPlan'.valid}, ops : {hubPlan'.ops}]
         /\ GoodOps(hubPlan'.kind, hubPlan'.ops)
<1>1. CASE hubPlan' = hubPlan
  BY <1>1 DEF HubTyped
<1>2. CASE hubPlan' = NoHubPlan
  <2>1. hubPlan'.ops = <<>>
    BY <1>2 DEF NoHubPlan
  <2>2. hubPlan' \in [id : {0}, kind : {"none"}, saves : {0}, valid : {FALSE}, ops : {<<>>}]
    BY <1>2 DEF NoHubPlan
  <2> QED BY <2>1, <2>2, NoOps
<1> QED BY <1>1, <1>2 DEF PlanUsed

LEMMA SavingHub ==
  ASSUME HubInv, SaveRegistry
  PROVE  HubInv'
<1>0. HubTyped /\ ActTyped /\ HubOrder /\ HubPlaced
  BY DEF HubInv
<1>1. /\ act.at = "save" /\ registry' = Saved /\ hubPlan' \in {PlanUsed, hubPlan}
      /\ UNCHANGED <<dirs, source, dest, managed, kept, budget>>
  BY DEF SaveRegistry
<1>1a. PICK result \in {"done", "committed"} : Give(result) /\ (act.job # "refresh" => result = "done")
  BY DEF SaveRegistry
<1>2. act.job \in {"import", "remove", "refresh"} /\ act.todo = {} /\ (act.job = "remove" => act.staged = Nothing)
  BY <1>0, <1>1 DEF HubOrder, Storing
<1>3. act' = Ended(act, result) /\ locks' = locks \ LockOf
  BY <1>1a DEF Give
<1>4. act'.result = result /\ Committed' /\ SameHubJob
  BY <1>0, <1>3, <1>1a, EndedHub DEF Committed
<1>5. registry' \in [digest : {act.reg}, saves : {registry'.saves}, links : {registry'.links}]
  BY <1>0, <1>1 DEF HubTyped, Saved
<1>6. HubTyped'
  <2>1. act.reg \in [Resource -> Digests]
    BY <1>0 DEF ActTyped, Acts
  <2> QED BY <1>0, <1>1, <1>3, <1>5, <2>1, PlanUsedTyped DEF HubTyped
<1>7. HubAllOrNothing'
  <2> SUFFICES ASSUME NEW r \in NotEdited, act.staged[r] # None
               PROVE  dirs[r].content = act.staged[r] /\ act.reg[r] = act.staged[r]
    BY <1>1, <1>2, <1>4, <1>5, <1>1a DEF HubAllOrNothing, SameHubJob, NotEdited
  <2>1. r \in Resource
    BY DEF NotEdited
  <2>2. act.job # "remove"
    BY <1>2, <2>1 DEF Nothing
  <2>3. r \in act.undo
    BY <1>0, <1>1, <1>2, <2>1 DEF HubPlaced, Storing
  <2>4. act.reg[r] = act.staged[r] /\ dirs[r] = [content |-> act.staged[r], digest |-> act.staged[r]]
    BY <1>0, <1>1, <2>1, <2>2, <2>3 DEF HubPlaced, Storing
  <2> QED BY <2>4
<1> QED BY <1>1, <1>6, <1>7, <1>1a, FinishingHub

-----------------------------------------------------------------------------
(* The steps of a sync.                                                      *)

\* A destination that a sync has not come to is as it was.
LEMMA NotMovedYet ==
  ASSUME HubInv, act.at \in Syncing, NEW r \in NotEdited, r \notin act.undo
  PROVE  AsBefore(r)
<1>1. ~act.undoFailed /\ ~Placing(r) /\ r \in Resource
  BY DEF HubInv, HubOrder, Placing, Syncing, NotEdited
<1> QED BY <1>1 DEF HubInv, HubBefore, Syncing

LEMMA MovingAside ==
  ASSUME HubInv, NEW r \in Resource, MoveAside(r)
  PROVE  HubInv'
<1>0. HubTyped /\ ActTyped /\ HubOrder /\ HubBefore /\ HubMoved /\ HubReviewed /\ HubInstalled /\ TreesKept
  BY DEF HubInv
<1> DEFINE action == act.ops[r].action
           old == IF action = "create" THEN NoDir ELSE [content |-> dest[r], digest |-> None]
           moved == [act.moved EXCEPT ![r] = old]
           entries == [act.entries EXCEPT ![r] = IF action = "remove" THEN None ELSE @]
           left == IF action = "remove" THEN act.todo \ {r} ELSE act.todo
           next == IF action = "remove" THEN "move" ELSE "install"
<1>1. /\ act.at = "move" /\ First(r) /\ (action # "create" => dest[r] # None)
      /\ IF action = "create" THEN UNCHANGED <<dest, kept>>
         ELSE /\ dest' = [dest EXCEPT ![r] = None]
              /\ kept' = [kept EXCEPT !.aside = @ \cup {<<r, dest[r]>>}]
      /\ act' = [act EXCEPT !.undo = @ \cup {r},
                     !.moved[r] = IF action = "create" THEN NoDir
                                  ELSE [content |-> dest[r], digest |-> None],
                     !.entries[r] = IF action = "remove" THEN None ELSE @,
                     !.todo = IF action = "remove" THEN @ \ {r} ELSE @,
                     !.at = IF action = "remove" THEN "move" ELSE "install"]
      /\ UNCHANGED <<registry, dirs, source, managed, locks, hubPlan, budget>>
  BY DEF MoveAside
<1>2. /\ act.job = "sync" /\ act.result = "none" /\ ~act.undoFailed /\ act.staged = Nothing
      /\ r \in act.todo /\ r \in ToUpdate /\ r \in DOMAIN act.ops
      /\ \A s \in act.undo : s \notin act.todo
      /\ act.todo \subseteq ToUpdate /\ act.undo \subseteq ToUpdate
      /\ \A s \in ToUpdate \ act.todo : s \in act.undo
  <2>1. r \in act.todo
    BY <1>1 DEF First
  <2> QED BY <1>0, <1>1, <2>1 DEF HubOrder, Syncing, ToUpdate
<1>3. /\ moved \in [Resource -> Dir \cup [content : Trees, digest : {None}]] /\ moved[r] = old
      /\ \A s \in Resource \ {r} : moved[s] = act.moved[s]
      /\ entries \in [Resource -> Trees] /\ entries[r] = (IF action = "remove" THEN None ELSE act.entries[r])
      /\ \A s \in Resource \ {r} : entries[s] = act.entries[s]
  <2>1. act.moved \in [Resource -> Dir \cup [content : Trees, digest : {None}]] /\ act.entries \in [Resource -> Trees]
        /\ dest[r] \in Trees
    BY <1>0 DEF ActTyped, Acts, HubTyped
  <2>2. old \in Dir \cup [content : Trees, digest : {None}]
    BY <2>1, NoDirIsDir
  <2>3. None \in Trees
    BY DEF None, Trees, Digests
  <2> HIDE DEF old, action
  <2> QED BY <2>1, <2>2, <2>3
<1>4. old.content = IF action = "create" THEN None ELSE dest[r]
  BY NoDirIsDir
<1>5. /\ IF action = "create" THEN UNCHANGED <<dest, kept>> ELSE dest'[r] = None /\ <<r, dest[r]>> \in kept'.aside
      /\ \A s \in Resource \ {r} : dest'[s] = dest[s]
      /\ dest' \in [Resource -> Trees]
      /\ kept'.backups = kept.backups /\ kept.aside \subseteq kept'.aside
      /\ kept' \in [backups : SUBSET BackedUp, aside : {kept'.aside}]
  <2>1. kept \in [backups : SUBSET BackedUp, aside : {kept.aside}] /\ dest \in [Resource -> Trees] /\ None \in Trees
    BY <1>0 DEF HubTyped, None, Trees, Digests
  <2> HIDE DEF BackedUp
  <2>2. CASE action = "create"
    BY <1>1, <2>1, <2>2
  <2>3. CASE action # "create"
    <3>1. dest' = [dest EXCEPT ![r] = None] /\ kept' = [kept EXCEPT !.aside = @ \cup {<<r, dest[r]>>}]
      BY <1>1, <2>3
    <3>2. kept' \in [backups : SUBSET BackedUp, aside : {kept'.aside}] /\ kept'.backups = kept.backups
          /\ kept'.aside = kept.aside \cup {<<r, dest[r]>>}
      BY <2>1, <3>1
    <3> QED BY <2>1, <2>3, <3>1, <3>2
  <2> QED BY <2>2, <2>3
<1>6. act' \in [at : {next}, job : {act.job}, plan : {act.plan}, ops : {act.ops}, todo : {left},
                staged : {act.staged}, undo : {act.undo \cup {r}}, moved : {moved}, reg : {act.reg}, entries : {entries},
                touched : {act.touched}, result : {"none"}, undoFailed : {act.undoFailed}, before : {act.before}]
  BY <1>0, <1>1, <1>2 DEF ActTyped, Acts
<1> HIDE DEF old, moved, entries
<1>7. /\ act'.at = next /\ act'.job = act.job /\ act'.ops = act.ops /\ act'.todo = left
      /\ act'.staged = act.staged /\ act'.entries = entries /\ act'.undo = act.undo \cup {r} /\ act'.moved = moved
      /\ act'.touched = act.touched /\ act'.result = "none" /\ ~act'.undoFailed /\ act'.before = act.before
      /\ act'.plan = act.plan
  BY <1>2, <1>6
<1>8. act' \in Acts'
  BY <1>0, <1>2, <1>3, <1>6, <1>7 DEF ActTyped, Acts, HubPlaces
<1>9. ActTyped'
  BY <1>0, <1>2, <1>7, <1>8 DEF ActTyped
<1>10. HubTyped'
  BY <1>0, <1>1, <1>5 DEF HubTyped
<1>11. /\ NotEdited' = NotEdited /\ ToUpdate' = ToUpdate /\ \A s \in NotEdited : s \in Resource
       /\ \A s \in ToUpdate : s \in Resource
  BY <1>0, <1>7 DEF NotEdited, ToUpdate, ActTyped, GoodOps
<1>12. HubOrder'
  <2>1. CASE action = "remove"
    BY <1>2, <1>7, <1>11, <2>1 DEF HubOrder, Syncing, Storing
  <2>2. CASE action # "remove"
    <3>1. act'.at = "install" /\ act'.todo = act.todo
      BY <1>7, <2>2
    <3>2. \A s : First(s)' <=> First(s)
      BY <3>1 DEF First
    <3>3. \A s \in act.todo : First(s) => s = r
      BY <1>1, <1>2, <1>11, FirstUnique
    <3> QED BY <1>1, <1>2, <1>7, <1>11, <3>1, <3>2, <3>3 DEF HubOrder, Syncing, Storing
  <2> QED BY <2>1, <2>2
<1>13. \A s \in NotEdited : s \notin act.undo => AsBefore(s)
  BY <1>1, NotMovedYet DEF Syncing
<1>14. HubBefore'
  <2>1. \A s \in Resource : budget.torn \/ (registry.digest[s] = act.before.registry[s] /\ managed[s] = act.before.managed[s])
    BY <1>0, <1>1 DEF HubBefore
  <2>2. \A s \in NotEdited : dirs[s] = act.before.dirs[s]
    BY <1>0, <1>1, <1>2, <1>11 DEF HubBefore
  <2>3. \A s \in NotEdited : s \notin act'.undo => dest'[s] = act.before.dest[s]
    BY <1>5, <1>7, <1>11, <1>13 DEF AsBefore
  <2> QED BY <1>1, <1>2, <1>7, <1>11, <2>1, <2>2, <2>3 DEF HubBefore, AsBefore
<1>15. \A s : DestKept(s) => DestKept(s)'
  BY <1>5, <1>7 DEF DestKept
<1>16. r \in NotEdited => old.content = act.before.dest[r] /\ DestKept(r)'
  <2> SUFFICES ASSUME r \in NotEdited
               PROVE  old.content = act.before.dest[r] /\ DestKept(r)'
    OBVIOUS
  <2>1. dest[r] = act.before.dest[r]
    BY <1>2, <1>13 DEF AsBefore
  <2>2. action = "create" => act.before.dest[r] = None
    BY <1>0, <1>1, <1>2 DEF HubReviewed, Syncing
  <2> QED BY <1>4, <1>5, <1>7, <2>1, <2>2 DEF DestKept
<1>17. HubMoved'
  <2>1. act'.at \notin {"idle", "place"}
    BY <1>7
  <2>2. \A s \in NotEdited : s \in act'.undo => moved[s].content = act.before.dest[s] /\ DestKept(s)'
    BY <1>0, <1>1, <1>2, <1>3, <1>7, <1>11, <1>15, <1>16 DEF HubMoved
  <2> QED BY <1>2, <1>7, <1>11, <2>1, <2>2 DEF HubMoved, Placing
<1>18. HubReviewed'
  BY <1>0, <1>1, <1>7, <1>11 DEF HubReviewed, Syncing
<1>19. HubInstalled'
  <2> SUFFICES ASSUME NEW s \in ToUpdate \cap NotEdited, s \notin left
               PROVE  dest'[s] = entries[s]
    BY <1>7, <1>11 DEF HubInstalled
  <2>1. CASE s = r
    <3>1. action = "remove"
      BY <1>2, <2>1
    <3> QED BY <1>3, <1>5, <2>1, <3>1
  <2>2. CASE s # r
    BY <1>0, <1>1, <1>3, <1>5, <1>11, <2>2 DEF HubInstalled, Syncing
  <2> QED BY <2>1, <2>2
<1>20. HubPlaced'
  BY <1>7 DEF HubPlaced, Storing
<1>21. HubLocks' /\ HubAllOrNothing'
  BY <1>1, <1>7, GoingOn
<1>22. TreesKept'
  <2> SUFFICES ASSUME NEW s \in NotEdited
               PROVE  /\ act.before.dest[s] \in {None, dest'[s]} \/ <<s, act.before.dest[s]>> \in kept'.aside
                      /\ act.before.dirs[s] \in {NoDir, dirs[s]} \/ Record(s) \in kept'.backups
    BY <1>1, <1>7, <1>11 DEF TreesKept, Record
  <2>1. /\ act.before.dest[s] \in {None, dest[s]} \/ <<s, act.before.dest[s]>> \in kept.aside
        /\ act.before.dirs[s] \in {NoDir, dirs[s]} \/ Record(s) \in kept.backups
    BY <1>0, <1>2 DEF TreesKept, Record
  <2>2. CASE s = r
    BY <1>5, <1>7, <1>16, <2>1, <2>2 DEF DestKept
  <2>3. CASE s # r
    BY <1>5, <1>11, <2>1, <2>3
  <2> QED BY <2>2, <2>3
<1> QED BY <1>9, <1>10, <1>12, <1>14, <1>17, <1>18, <1>19, <1>20, <1>21, <1>22 DEF HubInv

LEMMA InstallingHub ==
  ASSUME HubInv, NEW r \in Resource, Install(r)
  PROVE  HubInv'
<1>0. HubTyped /\ ActTyped /\ HubOrder /\ HubBefore /\ HubMoved /\ HubReviewed /\ HubInstalled /\ TreesKept
  BY DEF HubInv
<1>1. /\ act.at = "install" /\ First(r) /\ act' = [act EXCEPT !.at = "digest"]
      /\ UNCHANGED <<registry, dirs, source, managed, kept, locks, hubPlan, budget>>
  BY DEF Install
<1>2. dest' \in [Resource -> Trees] /\ \A s \in Resource \ {r} : dest'[s] = dest[s]
  <2>1. dirs[r].content \in Trees /\ Link \in Trees /\ dest \in [Resource -> Trees]
    BY <1>0 DEF HubTyped, Dir, NoDir, None, Trees, Digests, Link
  <2>2. PICK v \in Trees : dest' = [dest EXCEPT ![r] = v]
    BY <2>1 DEF Install
  <2> QED BY <2>1, <2>2
<1>3. /\ act.job = "sync" /\ act.result = "none" /\ ~act.undoFailed /\ act.staged = Nothing
      /\ r \in act.todo /\ r \in act.undo
  <2>1. r \in act.todo
    BY <1>1 DEF First
  <2> QED BY <1>0, <1>1, <2>1 DEF HubOrder, Syncing
<1>4. /\ act'.at = "digest" /\ act'.todo = act.todo /\ act'.undo = act.undo /\ act'.result = act.result /\ SameHubJob
      /\ act' \in Acts'
  BY <1>0, <1>1 DEF ActTyped, Acts, SameHubJob, HubPlaces
<1>5. ActTyped' /\ HubTyped'
  BY <1>0, <1>1, <1>2, <1>4 DEF ActTyped, SameHubJob, HubTyped
<1>6. ToUpdate' = ToUpdate /\ NotEdited' = NotEdited /\ (\A s : First(s)' <=> First(s)) /\ \A s \in NotEdited : s \in Resource
  BY <1>4 DEF SameHubJob, ToUpdate, NotEdited, First
<1>7. HubOrder'
  BY <1>0, <1>1, <1>3, <1>4, <1>6 DEF HubOrder, SameHubJob, Syncing, Storing
<1>8. HubBefore'
  <2>1. \A s \in Resource : budget.torn \/ (registry.digest[s] = act.before.registry[s] /\ managed[s] = act.before.managed[s])
    BY <1>0, <1>1 DEF HubBefore
  <2>2. \A s \in NotEdited : dirs[s] = act.before.dirs[s]
    BY <1>0, <1>1, <1>3, <1>6 DEF HubBefore
  <2>3. \A s \in NotEdited : s \notin act.undo => dest'[s] = act.before.dest[s]
    <3>1. \A s \in NotEdited : s \notin act.undo => AsBefore(s)
      BY <1>1, NotMovedYet DEF Syncing
    <3> QED BY <1>2, <1>3, <1>6, <3>1 DEF AsBefore
  <2> QED BY <1>1, <1>3, <1>4, <1>6, <2>1, <2>2, <2>3 DEF HubBefore, AsBefore, SameHubJob
<1>9. HubMoved'
  BY <1>0, <1>1, <1>3, <1>4, <1>6 DEF HubMoved, DestKept, DirKept, SameHubJob, Placing
<1>10. HubReviewed'
  BY <1>0, <1>1, <1>4, <1>6 DEF HubReviewed, Syncing, SameHubJob
<1>11. HubInstalled'
  BY <1>0, <1>1, <1>2, <1>3, <1>4, <1>6 DEF HubInstalled, Syncing, SameHubJob
<1>12. HubPlaced'
  BY <1>4 DEF HubPlaced, Storing
<1>13. HubLocks' /\ HubAllOrNothing'
  BY <1>1, <1>4, GoingOn DEF SameHubJob
<1>14. TreesKept'
  <2> SUFFICES ASSUME NEW s \in NotEdited
               PROVE  /\ act.before.dest[s] \in {None, dest'[s]} \/ <<s, act.before.dest[s]>> \in kept.aside
                      /\ act.before.dirs[s] \in {NoDir, dirs[s]} \/ Record(s) \in kept.backups
    BY <1>1, <1>4, <1>6 DEF TreesKept, Record, SameHubJob
  <2>1. /\ act.before.dest[s] \in {None, dest[s]} \/ <<s, act.before.dest[s]>> \in kept.aside
        /\ act.before.dirs[s] \in {NoDir, dirs[s]} \/ Record(s) \in kept.backups
    BY <1>0, <1>3 DEF TreesKept, Record
  <2>2. CASE s = r
    BY <1>0, <1>1, <1>3, <2>1, <2>2 DEF HubMoved, DestKept
  <2>3. CASE s # r
    BY <1>2, <1>6, <2>1, <2>3
  <2> QED BY <2>2, <2>3
<1> QED BY <1>5, <1>7, <1>8, <1>9, <1>10, <1>11, <1>12, <1>13, <1>14 DEF HubInv

LEMMA ReadingBack ==
  ASSUME HubInv, NEW r \in Resource, Installed(r)
  PROVE  HubInv'
<1>0. HubTyped /\ ActTyped /\ HubOrder /\ HubInstalled
  BY DEF HubInv
<1> DEFINE entries == [act.entries EXCEPT ![r] = dest[r]]
<1>1. /\ act.at = "digest" /\ First(r) /\ act' = [act EXCEPT !.at = "move", !.todo = @ \ {r}, !.entries[r] = dest[r]]
      /\ UNCHANGED <<registry, dirs, source, dest, managed, kept, locks, hubPlan, budget>>
  BY DEF Installed
<1>2. /\ act.job = "sync" /\ act.result = "none" /\ ~act.undoFailed /\ act.staged = Nothing
      /\ r \in act.todo /\ r \in act.undo
      /\ act.todo \subseteq ToUpdate /\ act.undo \subseteq ToUpdate
      /\ \A s \in ToUpdate \ act.todo : s \in act.undo
      /\ \A s \in act.undo \cap act.todo : First(s)
  <2>1. r \in act.todo
    BY <1>1 DEF First
  <2> QED BY <1>0, <1>1, <2>1 DEF HubOrder, Syncing
<1>3. /\ entries \in [Resource -> Trees] /\ entries[r] = dest[r]
      /\ \A s \in Resource \ {r} : entries[s] = act.entries[s]
  BY <1>0 DEF ActTyped, Acts, HubTyped
<1>4. act' \in [at : {"move"}, job : {act.job}, plan : {act.plan}, ops : {act.ops}, todo : {act.todo \ {r}},
                staged : {act.staged}, undo : {act.undo}, moved : {act.moved}, reg : {act.reg}, entries : {entries},
                touched : {act.touched}, result : {"none"}, undoFailed : {act.undoFailed}, before : {act.before}]
  BY <1>0, <1>1, <1>2 DEF ActTyped, Acts
<1> HIDE DEF entries
<1>5. /\ act'.at = "move" /\ act'.job = act.job /\ act'.ops = act.ops /\ act'.todo = act.todo \ {r}
      /\ act'.staged = act.staged /\ act'.entries = entries /\ act'.undo = act.undo /\ act'.moved = act.moved
      /\ act'.touched = act.touched /\ act'.result = "none" /\ act'.undoFailed = act.undoFailed
      /\ act'.before = act.before /\ act'.plan = act.plan
  BY <1>4
<1>6. act' \in Acts'
  BY <1>0, <1>3, <1>4, <1>5 DEF ActTyped, Acts, HubPlaces
<1>7. ActTyped' /\ HubTyped'
  BY <1>0, <1>1, <1>5, <1>6 DEF ActTyped, HubTyped
<1>8. ToUpdate' = ToUpdate /\ NotEdited' = NotEdited /\ \A s \in ToUpdate : s \in Resource
  BY <1>0, <1>5 DEF ToUpdate, NotEdited, ActTyped, GoodOps
<1>9. HubOrder'
  <2>1. \A s \in act.undo : s \notin act.todo \ {r}
    BY <1>1, <1>2, <1>8, FirstUnique
  <2> QED BY <1>2, <1>5, <1>8, <2>1 DEF HubOrder, Syncing, Storing
<1>10. HubPlaced'
  BY <1>5 DEF HubPlaced, Storing
<1>11. HubInstalled'
  <2> SUFFICES ASSUME NEW s \in ToUpdate \cap NotEdited, s \notin act.todo \ {r}
               PROVE  dest[s] = entries[s]
    BY <1>1, <1>5, <1>8 DEF HubInstalled
  <2>1. CASE s = r
    BY <1>3, <2>1
  <2>2. CASE s # r
    BY <1>0, <1>1, <1>3, <1>8, <2>2 DEF HubInstalled, Syncing
  <2> QED BY <2>1, <2>2
<1> QED BY <1>1, <1>5, <1>7, <1>9, <1>10, <1>11, LookingHub DEF Syncing

LEMMA SavingManaged ==
  ASSUME HubInv, SaveManaged
  PROVE  HubInv'
<1>0. HubTyped /\ ActTyped /\ HubOrder /\ HubInstalled
  BY DEF HubInv
<1>1. /\ act.at = "move" /\ act.todo = {} /\ managed' = act.entries /\ hubPlan' \in {PlanUsed, hubPlan} /\ Give("done")
      /\ UNCHANGED <<registry, dirs, source, dest, kept, budget>>
  BY DEF SaveManaged
<1>2. act.job = "sync" /\ act.staged = Nothing /\ act.undo \subseteq ToUpdate
  BY <1>0, <1>1 DEF HubOrder, Syncing
<1>3. act' = Ended(act, "done") /\ locks' = locks \ LockOf
  BY <1>1 DEF Give
<1>4. act'.result = "done" /\ Committed' /\ SameHubJob
  BY <1>0, <1>3, EndedHub DEF Committed
<1>5. HubTyped'
  <2>1. act.entries \in [Resource -> Trees]
    BY <1>0 DEF ActTyped, Acts
  <2> QED BY <1>0, <1>1, <1>3, <2>1, PlanUsedTyped DEF HubTyped
<1>6. HubAllOrNothing'
  <2>1. ASSUME NEW r \in NotEdited, r \in DOMAIN act.ops
        PROVE  dest[r] = IF act.ops[r].action = "noop" THEN act.before.dest[r] ELSE act.entries[r]
    <3>1. CASE act.ops[r].action = "noop"
      <4>1. r \notin act.undo
        BY <1>2, <3>1 DEF ToUpdate
      <4> QED BY <1>1, <2>1, <3>1, <4>1, NotMovedYet DEF Syncing, AsBefore
    <3>2. CASE act.ops[r].action # "noop"
      BY <1>0, <1>1, <2>1, <3>2 DEF HubInstalled, Syncing, ToUpdate
    <3> QED BY <3>1, <3>2
  <2>2. \A r \in NotEdited : act.staged[r] = None
    BY <1>2 DEF Nothing, NotEdited
  <2> QED BY <1>1, <1>4, <2>1, <2>2 DEF HubAllOrNothing, SameHubJob, NotEdited
<1> QED BY <1>1, <1>5, <1>6, FinishingHub

-----------------------------------------------------------------------------
(* Other programs, and the whole component.                                  *)

LEMMA EditingHub ==
  ASSUME HubInv, NEW r \in Resource, HubEdit(r)
  PROVE  HubInv'
<1>0. /\ HubTyped /\ ActTyped /\ HubOrder /\ HubBefore /\ HubMoved /\ HubReviewed /\ HubInstalled /\ HubPlaced
      /\ HubLocks /\ HubAllOrNothing /\ TreesKept
  BY DEF HubInv
<1>1. budget' = [budget EXCEPT !.edits = @ - 1] /\ UNCHANGED <<registry, managed, kept, locks, hubPlan>>
  BY DEF HubEdit
<1>2. budget'.crashed = budget.crashed /\ budget'.torn = budget.torn
      /\ budget' \in [jobs : {budget'.jobs}, plans : {budget'.plans}, edits : {budget'.edits},
                      crashed : {budget'.crashed}, torn : {budget'.torn}]
  BY <1>0, <1>1 DEF HubTyped
<1>3. CASE (\E v \in Digests : v # source[r] /\ source' = [source EXCEPT ![r] = v]) /\ UNCHANGED <<dirs, dest, act>>
  <2>1. HubTyped'
    BY <1>0, <1>1, <1>2, <1>3 DEF HubTyped
  <2> QED BY <1>1, <1>2, <1>3, <2>1, SameHub
<1>4. CASE /\ act' = [act EXCEPT !.touched = @ \cup {r}] /\ source' = source
           /\ dirs' \in [Resource -> Dir] /\ dest' \in [Resource -> Trees]
           /\ \A s \in Resource \ {r} : dirs'[s] = dirs[s] /\ dest'[s] = dest[s]
  <2>1. HubTyped'
    BY <1>0, <1>1, <1>2, <1>4 DEF HubTyped
  <2>2. act' \in [at : {act.at}, job : {act.job}, plan : {act.plan}, ops : {act.ops}, todo : {act.todo},
                staged : {act.staged}, undo : {act.undo}, moved : {act.moved}, reg : {act.reg}, entries : {act.entries},
                touched : {act.touched \cup {r}}, result : {act.result}, undoFailed : {act.undoFailed}, before : {act.before}]
    BY <1>0, <1>4 DEF ActTyped, Acts
  <2>3. /\ act'.at = act.at /\ act'.job = act.job /\ act'.ops = act.ops /\ act'.todo = act.todo
        /\ act'.staged = act.staged /\ act'.undo = act.undo /\ act'.moved = act.moved /\ act'.plan = act.plan
        /\ act'.reg = act.reg /\ act'.entries = act.entries
        /\ act'.touched = act.touched \cup {r} /\ act'.result = act.result /\ act'.undoFailed = act.undoFailed
        /\ act'.before = act.before
    BY <2>2
  <2>4. act' \in Acts'
    BY <1>0, <2>2, <2>3 DEF ActTyped, Acts
  <2>5. ActTyped'
    BY <1>0, <2>3, <2>4 DEF ActTyped
  <2>6. /\ ToUpdate' = ToUpdate /\ LockOf' = LockOf /\ (\A s : First(s)' <=> First(s)) /\ (\A s : Placing(s)' <=> Placing(s))
        /\ \A s : (DirKept(s)' <=> DirKept(s)) /\ (DestKept(s)' <=> DestKept(s))
    BY <1>1, <2>3 DEF ToUpdate, LockOf, First, Placing, DirKept, DestKept, Record
  <2>7. /\ \A s \in NotEdited' : s \in NotEdited /\ dirs'[s] = dirs[s] /\ dest'[s] = dest[s] /\ (AsBefore(s)' <=> AsBefore(s))
    BY <1>4, <2>3 DEF NotEdited, AsBefore
  <2>8. HubOrder'
    BY <1>0, <2>3, <2>6 DEF HubOrder
  <2>9. HubBefore'
    <3>1. \A s \in Resource : s \in NotEdited' => s \in NotEdited
      BY <2>7
    <3> QED BY <1>0, <1>1, <1>2, <2>3, <2>6, <2>7 DEF HubBefore
  <2>10. HubMoved'
    BY <1>0, <2>3, <2>6, <2>7 DEF HubMoved
  <2>11. HubReviewed'
    BY <1>0, <1>1, <2>3, <2>7 DEF HubReviewed
  <2>12. HubInstalled'
    BY <1>0, <2>3, <2>6, <2>7 DEF HubInstalled
  <2>13. HubPlaced'
    BY <1>0, <2>3, <2>6, <2>7 DEF HubPlaced
  <2>14. HubLocks'
    BY <1>0, <1>1, <1>2, <2>3, <2>6 DEF HubLocks
  <2>15. HubAllOrNothing'
    BY <1>0, <1>1, <1>2, <2>3, <2>7 DEF HubAllOrNothing, Committed
  <2>16. TreesKept'
    BY <1>0, <1>1, <2>3, <2>7 DEF TreesKept
  <2> QED BY <2>1, <2>5, <2>8, <2>9, <2>10, <2>11, <2>12, <2>13, <2>14, <2>15, <2>16 DEF HubInv
<1>5. CASE dirs[r] # NoDir /\ (\E v \in TreeContent : v # dirs[r].content /\ dirs' = [dirs EXCEPT ![r].content = v])
           /\ act' = [act EXCEPT !.touched = @ \cup {r}] /\ UNCHANGED <<source, dest>>
  <2>1. PICK v \in TreeContent : dirs' = [dirs EXCEPT ![r].content = v]
    BY <1>5
  <2> DEFINE edited == [dirs[r] EXCEPT !.content = v]
  <2>2. edited \in Dir
    BY <1>0, <1>5, NoDirIsDir DEF HubTyped, Dir
  <2>3. dirs' = [dirs EXCEPT ![r] = edited]
    BY <2>1
  <2> HIDE DEF edited
  <2>4. dirs' \in [Resource -> Dir] /\ \A s \in Resource \ {r} : dirs'[s] = dirs[s]
    BY <1>0, <2>2, <2>3 DEF HubTyped
  <2> QED BY <1>0, <1>4, <1>5, <2>4 DEF HubTyped
<1>6. CASE (\E v \in Digests : v # dest[r] /\ dest' = [dest EXCEPT ![r] = v])
           /\ act' = [act EXCEPT !.touched = @ \cup {r}] /\ UNCHANGED <<source, dirs>>
  <2>1. PICK v \in Trees : dest' = [dest EXCEPT ![r] = v]
    BY <1>6 DEF Trees
  <2>2. dest' \in [Resource -> Trees] /\ \A s \in Resource \ {r} : dest'[s] = dest[s]
    BY <1>0, <2>1 DEF HubTyped
  <2> QED BY <1>0, <1>4, <1>6, <2>2 DEF HubTyped
<1> QED BY <1>3, <1>5, <1>6 DEF HubEdit

LEMMA HubInvStep == HubInv /\ [HubNext]_hubVars => HubInv'
<1> SUFFICES ASSUME HubInv, [HubNext]_hubVars
             PROVE  HubInv'
  OBVIOUS
<1>1. CASE \/ \E selected \in SUBSET Resource :
                 \/ \E allowRisk, prune \in BOOLEAN : PlanSync(selected, allowRisk, prune)
                 \/ PlanRefresh(selected)
           \/ HubPlanLapses \/ UNCHANGED hubVars
  BY <1>1, PlanningHub
<1>2. CASE \E b \in kept.backups : RestoreBackup(b)
  <2>1. PICK b \in kept.backups : RestoreBackup(b)
    BY <1>2
  <2>2. b.id \in Resource /\ b.content \in Digests
    BY DEF HubInv, HubTyped, BackedUp, Digests
  <2> QED BY <2>1, <2>2, ImportingHub DEF RestoreBackup
<1>3. CASE ApplySync \/ ApplyRefresh
  BY <1>3, StartingReviewed DEF ApplySync, ApplyRefresh
<1>4. CASE Check \/ CheckFails
  BY <1>4, CheckingHub
<1>5. CASE Staged \/ NothingToRefresh
  BY <1>5, StagingHub
<1>6. CASE SaveRegistry \/ SaveManaged
  BY <1>6, SavingHub, SavingManaged
<1>7. CASE JobFails \/ SaveReportsError
  BY <1>7, JobFailsHub
<1>8. CASE HubCrash
  BY <1>8, CrashingHub
<1>9. ASSUME NEW r \in Resource, ResourceStep(r)
      PROVE  HubInv'
  <2>1. ASSUME NEW replace \in BOOLEAN, Import(r, replace)
        PROVE  HubInv'
    <3>1. source[r] \in Digests
      BY DEF HubInv, HubTyped
    <3> QED BY <2>1, <3>1, ImportingHub DEF Import
  <2>2. CASE RemoveResource(r)
    BY <2>2, RemovingHub
  <2>3. CASE StageCopy(r)
    BY <2>3, StagingHub
  <2>4. CASE SetAside(r) \/ PlaceDir(r) \/ PlaceFails(r)
    BY <2>4, SettingAside, PlacingHub, FailingToPlace
  <2>5. CASE UndoDir(r) \/ UndoDest(r) \/ UndoFails(r)
    BY <2>5, UndoStepHub
  <2>6. CASE MoveAside(r) \/ Install(r) \/ Installed(r)
    BY <2>6, MovingAside, InstallingHub, ReadingBack
  <2>7. CASE HubEdit(r)
    BY <2>7, EditingHub
  <2> QED BY <1>9, <2>1, <2>2, <2>3, <2>4, <2>5, <2>6, <2>7 DEF ResourceStep
<1> QED BY <1>1, <1>2, <1>3, <1>4, <1>5, <1>6, <1>7, <1>8, <1>9 DEF HubNext

LEMMA HubTypes == HubInv => HubTypeOK /\ LocksReleased
<1> SUFFICES ASSUME HubInv
             PROVE  HubTypeOK /\ LocksReleased
  OBVIOUS
<1>1. HubTyped /\ ActTyped /\ HubLocks
  BY DEF HubInv
<1>2. \A r \in Resource : dirs[r].content \in Digests
  BY <1>1 DEF HubTyped, Dir, NoDir, None, Digests
<1>3. act.todo \subseteq Resource /\ act.undo \subseteq Resource
  BY <1>1 DEF ActTyped, Acts
<1> QED BY <1>1, <1>2, <1>3 DEF HubTyped, HubLocks, HubTypeOK, LocksReleased

\* Only these steps change destinations.
LEMMA ForeignDestinationStep ==
  ASSUME HubInv, [HubNext]_hubVars, NEW r \in Resource, dest'[r] # dest[r]
  PROVE  \/ r \in act'.touched \/ r \in act.undo
         \/ dest[r] \in {None, managed[r]}
         \/ act.job = "sync" /\ r \in DOMAIN act.ops /\ dest[r] = act.ops[r].recorded
<1>0. HubTyped /\ ActTyped /\ HubOrder /\ HubReviewed
  BY DEF HubInv
<1>1. \/ \E s \in Resource : MoveAside(s) \/ Install(s) \/ UndoDest(s) \/ UndoFails(s) \/ HubEdit(s)
      \/ dest' = dest
  <2>1. CASE UNCHANGED hubVars
    BY <2>1 DEF hubVars
  <2>2. ASSUME NEW selected \in SUBSET Resource
        PROVE  /\ \A allowRisk, prune \in BOOLEAN : PlanSync(selected, allowRisk, prune) => dest' = dest
               /\ PlanRefresh(selected) => dest' = dest
    BY DEF PlanSync, PlanRefresh, Planned
  <2>3. \A s, content, replace : StageImport(s, content, replace) => dest' = dest
    BY DEF StageImport
  <2>4. ApplySync \/ ApplyRefresh => dest' = dest
    BY DEF ApplySync, ApplyRefresh, StartReviewed
  <2>5. HubPlanLapses \/ Check \/ CheckFails \/ Staged \/ NothingToRefresh \/ SaveRegistry \/ SaveManaged => dest' = dest
    BY DEF HubPlanLapses, Check, CheckFails, Staged, NothingToRefresh, SaveRegistry, SaveManaged
  <2>6. JobFails \/ SaveReportsError \/ HubCrash => dest' = dest
    BY DEF JobFails, SaveReportsError, HubCrash
  <2>7. \A s : RemoveResource(s) \/ StageCopy(s) \/ SetAside(s) \/ PlaceDir(s) => dest' = dest
    BY DEF RemoveResource, StageCopy, SetAside, PlaceDir
  <2>8. \A s : PlaceFails(s) \/ UndoDir(s) \/ Installed(s) => dest' = dest
    BY DEF PlaceFails, UndoDir, Installed
  <2> QED BY <2>1, <2>2, <2>3, <2>4, <2>5, <2>6, <2>7, <2>8 DEF HubNext, ResourceStep, RestoreBackup, Import
<1>2. PICK s \in Resource : MoveAside(s) \/ Install(s) \/ UndoDest(s) \/ UndoFails(s) \/ HubEdit(s)
  BY <1>1
<1>3. s = r
  <2>1. dest \in [Resource -> Trees]
    BY <1>0 DEF HubTyped
  <2>2. dest' = dest \/ \E v : dest' = [dest EXCEPT ![s] = v]
    BY <1>2 DEF MoveAside, Install, UndoDest, UndoFails, HubEdit
  <2> QED BY <2>1, <2>2
<1>4. CASE UndoDest(r) \/ UndoFails(r)
  BY <1>4 DEF UndoDest, UndoFails, LastDone
<1>5. CASE HubEdit(r)
  <2>1. act' = [act EXCEPT !.touched = @ \cup {r}]
    BY <1>5 DEF HubEdit
  <2> QED BY <1>0, <2>1 DEF ActTyped, Acts
<1>6. CASE Install(r)
  BY <1>0, <1>6 DEF Install, HubOrder, First
<1>7. CASE MoveAside(r)
  <2>1. /\ act.at = "move" /\ First(r) /\ act'.touched = act.touched
        /\ act.ops[r].action # "create"
    <3>1. act.at = "move" /\ First(r)
      BY <1>7 DEF MoveAside
    <3>2. act.ops[r].action # "create"
      BY <1>7 DEF MoveAside
    <3>3. act'.touched = act.touched
      BY <1>0, <1>7 DEF MoveAside, ActTyped, Acts
    <3> QED BY <3>1, <3>2, <3>3
  <2>2. r \in act.todo /\ act.job = "sync" /\ r \in ToUpdate
    BY <1>0, <2>1 DEF HubOrder, Syncing, First
  <2>3. r \in DOMAIN act.ops /\ act.ops[r].action # "noop"
    BY <2>2 DEF ToUpdate
  <2>4. SUFFICES ASSUME r \in NotEdited, r \notin act.undo
                 PROVE  dest[r] \in {None, managed[r]} \/ dest[r] = act.ops[r].recorded
    BY <2>1, <2>2, <2>3 DEF NotEdited
  <2>5. dest[r] = act.before.dest[r]
    BY <2>1, <2>4, NotMovedYet DEF Syncing, AsBefore
  <2>6. act.ops[r].action \in {"update", "remove"}
    BY <1>0, <2>1, <2>2, <2>3, <2>4 DEF HubReviewed, Syncing, ActTyped, GoodOps
  <2> QED BY <1>0, <2>1, <2>3, <2>4, <2>5, <2>6 DEF HubReviewed, Syncing
<1> QED BY <1>2, <1>3, <1>4, <1>5, <1>6, <1>7

-----------------------------------------------------------------------------
(* The theorems.                                                             *)

\* resourcehub Import, RestoreBackup, RemoveResource, ApplyRefresh and ApplySync: a job that
\* fails, and whose rollback meets no error, leaves directories, destinations, the registry
\* and the sync state as they were, and one that succeeds leaves them in agreement, over all
\* that nobody else edited while it ran.
THEOREM HubTransactional == HubSpec => []HubAllOrNothing
<1>1. HubInv => HubAllOrNothing
  BY DEF HubInv
<1> QED BY <1>1, HubInvInit, HubInvStep, PTL DEF HubSpec

\* The same jobs: whatever fails or crashes, a tree that a job found is still at its place,
\* or beside it or among the backups.
THEOREM HubTreesKept == HubSpec => []TreesKept
<1>1. HubInv => TreesKept
  BY DEF HubInv
<1> QED BY <1>1, HubInvInit, HubInvStep, PTL DEF HubSpec

\* ApplySync: a destination that nothing manages, and nothing managed when the applied plan
\* was made, is neither replaced nor removed, unless it has changed since the job looked at it.
THEOREM HubForeignKept == HubSpec => ForeignDestinationsKept
<1>1. HubInv /\ [HubNext]_hubVars =>
        [\A r \in Resource :
            dest'[r] # dest[r] =>
                \/ r \in act'.touched \/ r \in act.undo
                \/ dest[r] \in {None, managed[r]}
                \/ act.job = "sync" /\ r \in DOMAIN act.ops /\ dest[r] = act.ops[r].recorded]_hubVars
  BY ForeignDestinationStep
<1> QED BY <1>1, HubInvInit, HubInvStep, PTL DEF HubSpec, ForeignDestinationsKept
=============================================================================
