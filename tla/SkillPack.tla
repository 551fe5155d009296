------------------------------ MODULE SkillPack -----------------------------
(***************************************************************************)
(* The directories of a skill pack: skills.Installer copies those that do  *)
(* not exist yet, and the removal of the component moves those that are    *)
(* owned to quarantine.  Every file operation may fail, the process may    *)
(* crash between two, and the owner of the machine makes, edits and        *)
(* deletes directories meanwhile.                                          *)
(***************************************************************************)
EXTENDS Naturals, FiniteSets

CONSTANTS
    D,              \* how many directories the pack has, over all targets
    MaxPackJobs,    \* bound: installations and removals
    MaxTouches      \* bound: changes of the owner

\* ValidateSkillInventory refuses an empty inventory.
ASSUME PackAssumption == D \in Nat \ {0} /\ MaxPackJobs \in Nat /\ MaxTouches \in Nat

Directories == 1 .. D

VARIABLES
    directory,      \* what is at each directory
    quarantined,    \* what quarantine holds of each directory
    ours,           \* the directories state/ownership.json records
    packJob,        \* the installation or the removal that is under way
    bounds          \* jobs and touches that may still happen

packVars == <<directory, quarantined, ours, packJob, bounds>>

Content == {"absent", "pack", "foreign", "edited"}
Kept == {"foreign", "edited"}
NoJob == [at |-> "idle", next |-> 1, added |-> {}, moves |-> {}, moved |-> {}]
Steps == {"idle", "look", "publish", "record", "move", "back", "forget"}

PackInit ==
    /\ directory \in [Directories -> {"absent", "foreign"}]
    /\ quarantined = [d \in Directories |-> {}]
    /\ ours = {} /\ packJob = NoJob
    /\ bounds = [jobs |-> MaxPackJobs, touches |-> MaxTouches]

At(step) == packJob.at = step
BeginJob(j) == At("idle") /\ bounds.jobs > 0 /\ packJob' = j /\ bounds' = [bounds EXCEPT !.jobs = @ - 1]

\* The clone has the pinned commit and the audited inventory; otherwise nothing begins.
InstallPack ==
    /\ BeginJob([NoJob EXCEPT !.at = "look"])
    /\ UNCHANGED <<directory, quarantined, ours>>

Advance(j) == [j EXCEPT !.next = @ + 1, !.at = IF j.next = D THEN "record" ELSE "look"]

\* CopyMissingSkills: what exists is preserved.
Look ==
    /\ At("look")
    /\ packJob' = IF directory[packJob.next] # "absent" THEN Advance(packJob) ELSE [packJob EXCEPT !.at = "publish"]
    /\ UNCHANGED <<directory, quarantined, ours, bounds>>

\* Mutant of Publish: what has appeared since Look is replaced.
PublishOver ==
    /\ At("publish")
    /\ directory' = [directory EXCEPT ![packJob.next] = "pack"]
    /\ packJob' = Advance([packJob EXCEPT !.added = @ \cup {packJob.next}])
    /\ UNCHANGED <<quarantined, ours, bounds>>

\* copyTreeAtomic: the staged copy is renamed to its place, unless something is there now.
Publish ==
    /\ At("publish")
    /\ directory[packJob.next] = "absent"
    /\ directory' = [directory EXCEPT ![packJob.next] = "pack"]
    /\ packJob' = Advance([packJob EXCEPT !.added = @ \cup {packJob.next}])
    /\ UNCHANGED <<quarantined, ours, bounds>>

\* A failure leaves what was copied before; nothing of it is recorded.
InstallFails ==
    /\ At("look") \/ At("publish")
    /\ packJob' = NoJob
    /\ UNCHANGED <<directory, quarantined, ours, bounds>>

\* recordSuccessfulInstalls, after Verify has found every directory of the report.
RecordAdded ==
    /\ At("record")
    /\ ours' = IF \A d \in Directories : directory[d] # "absent" THEN ours \cup packJob.added ELSE ours
    /\ packJob' = NoJob
    /\ UNCHANGED <<directory, quarantined, bounds>>

\* quarantineOwnedPaths: the directories that are there are to be moved.
RemovePack ==
    /\ ours # {}
    /\ BeginJob([NoJob EXCEPT !.at = "move", !.moves = {d \in ours : directory[d] # "absent"}])
    /\ UNCHANGED <<directory, quarantined, ours>>

ToMove == {d \in packJob.moves : \A m \in packJob.moved : m[1] # d}

Move ==
    /\ At("move")
    /\ \/ /\ ToMove = {}
          /\ packJob' = [packJob EXCEPT !.at = "forget"] /\ UNCHANGED <<directory, quarantined>>
       \/ \E d \in ToMove :
             /\ \A e \in ToMove : d <= e
             /\ directory[d] # "absent"
             /\ directory' = [directory EXCEPT ![d] = "absent"]
             /\ quarantined' = [quarantined EXCEPT ![d] = @ \cup {directory[d]}]
             /\ packJob' = [packJob EXCEPT !.moved = @ \cup {<<d, directory[d]>>}]
       \/ /\ ToMove # {}
          /\ packJob' = [packJob EXCEPT !.at = "back"] /\ UNCHANGED <<directory, quarantined>>
    /\ UNCHANGED <<ours, bounds>>

\* The moves are undone, the last one first; one that fails stays in quarantine.
MoveBack ==
    /\ At("back")
    /\ \/ packJob.moved = {} /\ packJob' = NoJob /\ UNCHANGED <<directory, quarantined>>
       \/ \E last \in packJob.moved :
             /\ \A m \in packJob.moved : m[1] <= last[1]
             /\ \/ /\ directory[last[1]] = "absent"
                   /\ directory' = [directory EXCEPT ![last[1]] = last[2]]
                   /\ quarantined' = [quarantined EXCEPT ![last[1]] = @ \ {last[2]}]
                \/ UNCHANGED <<directory, quarantined>>
             /\ packJob' = [packJob EXCEPT !.moved = @ \ {last}]
    /\ UNCHANGED <<ours, bounds>>

Forget ==
    /\ At("forget")
    /\ ours' = {}
    /\ packJob' = NoJob
    /\ UNCHANGED <<directory, quarantined, bounds>>

PackCrash ==
    /\ ~At("idle")
    /\ packJob' = NoJob
    /\ UNCHANGED <<directory, quarantined, ours, bounds>>

\* The owner makes, edits or deletes a directory.
Touch(d) ==
    /\ bounds.touches > 0
    /\ bounds' = [bounds EXCEPT !.touches = @ - 1]
    /\ \E content \in (IF directory[d] = "absent" THEN {"foreign"} ELSE {"absent", "edited"}) \ {directory[d]} :
         directory' = [directory EXCEPT ![d] = content]
    /\ UNCHANGED <<quarantined, ours, packJob>>

PackNext ==
    \/ InstallPack \/ Look \/ Publish \/ InstallFails \/ RecordAdded
    \/ RemovePack \/ Move \/ MoveBack \/ Forget \/ PackCrash
    \/ \E d \in Directories : Touch(d)

PackSpec == PackInit /\ [][PackNext]_packVars

-----------------------------------------------------------------------------
PackTypeOK ==
    /\ directory \in [Directories -> Content]
    /\ quarantined \in [Directories -> SUBSET Content]
    /\ ours \subseteq Directories
    /\ packJob \in [at : Steps, next : 1 .. D + 1, added : SUBSET Directories,
                moves : SUBSET Directories, moved : SUBSET (Directories \X Content)]

\* What the owner of the machine made or edited is neither replaced nor deleted: it leaves
\* its place only by the owner's hand, or whole and into quarantine, and only where
\* AgentStack had recorded the directory as its own.
OwnersDirectoriesKept == [][\A d \in Directories :
    directory[d] \in Kept /\ directory'[d] # directory[d] =>
        Touch(d) \/ (d \in ours /\ directory[d] \in quarantined'[d])]_packVars
=============================================================================
