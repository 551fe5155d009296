---------------------------- MODULE Fabric_proofs ---------------------------
(***************************************************************************)
(* Proofs about the parts of the fabric and about all of them together:    *)
(* what the runs of Fabric check on small instances holds for any number   *)
(* of files, directories, installations and operations.                    *)
(***************************************************************************)
EXTENDS Fabric, Routines_proofs, LinkAndHub_proofs, SequenceTheorems

-----------------------------------------------------------------------------
(* The directories of a skill pack.                                         *)


\* A removal moves directories that are recorded, and the record does not change
\* while it moves them.
MovesOurs == packJob.at = "move" => packJob.moves \subseteq ours
PackInv ==
    /\ DOMAIN directory = Directories /\ DOMAIN quarantined = Directories
    /\ directory = [d \in Directories |-> directory[d]]
    /\ quarantined = [d \in Directories |-> quarantined[d]]
    /\ packJob = [at |-> packJob.at, next |-> packJob.next, added |-> packJob.added,
              moves |-> packJob.moves, moved |-> packJob.moved]
    /\ MovesOurs

\* Initially no job is under way.
LEMMA PackInvInit == PackInit => PackInv
  BY DEF PackInit, PackInv, MovesOurs, NoJob

\* Every step keeps the invariant.
LEMMA PackInvStep == PackInv /\ [PackNext]_packVars => PackInv'
<1> SUFFICES ASSUME PackInv, [PackNext]_packVars
             PROVE  PackInv'
  OBVIOUS
<1> USE DEF PackInv, MovesOurs
<1>1. CASE InstallPack
  BY <1>1 DEF InstallPack, BeginJob, NoJob
<1>2. CASE Look
  BY <1>2 DEF Look, At, Advance
<1>3. CASE Publish
  BY <1>3 DEF Publish, At, Advance
<1>4. CASE InstallFails \/ PackCrash
  BY <1>4 DEF InstallFails, PackCrash, NoJob
<1>5. CASE RecordAdded \/ Forget
  BY <1>5 DEF RecordAdded, Forget, At, NoJob
<1>6. CASE RemovePack
  BY <1>6 DEF RemovePack, BeginJob, NoJob
<1>7. CASE Move
  BY <1>7 DEF Move, At
<1>8. CASE MoveBack
  BY <1>8 DEF MoveBack, At, NoJob
<1>9. ASSUME NEW d \in Directories, Touch(d)
      PROVE  PackInv'
  BY <1>9 DEF Touch
<1>10. CASE UNCHANGED packVars
  BY <1>10 DEF packVars
<1> QED BY <1>1, <1>2, <1>3, <1>4, <1>5, <1>6, <1>7, <1>8, <1>9, <1>10 DEF PackNext

\* Under the invariant no step takes a directory of the owner but by the owner's hand or,
\* where it is recorded, into quarantine.
LEMMA PackStepKeeps ==
  ASSUME PackInv, [PackNext]_packVars, NEW d \in Directories,
         directory[d] \in Kept, directory'[d] # directory[d]
  PROVE  Touch(d) \/ (d \in ours /\ directory[d] \in quarantined'[d])
<1> USE DEF PackInv, MovesOurs, Kept
<1>1. CASE Publish
  BY <1>1 DEF Publish
<1>2. CASE Move
  <2>1. PICK e \in ToMove : directory' = [directory EXCEPT ![e] = "absent"]
                            /\ quarantined' = [quarantined EXCEPT ![e] = @ \cup {directory[e]}]
    BY <1>2 DEF Move
  <2>2. e = d
    BY <2>1
  <2>3. e \in ours
    BY <1>2 DEF Move, At, ToMove
  <2> QED BY <2>1, <2>2, <2>3
<1>3. CASE MoveBack
  BY <1>3 DEF MoveBack
<1>4. ASSUME NEW e \in Directories, Touch(e)
      PROVE  Touch(d)
  <2>1. e = d
    BY <1>4 DEF Touch
  <2> QED BY <1>4, <2>1
<1>5. CASE InstallPack \/ Look \/ InstallFails \/ RecordAdded \/ RemovePack \/ Forget \/ PackCrash
           \/ UNCHANGED packVars
  BY <1>5 DEF InstallPack, Look, InstallFails, RecordAdded, RemovePack, Forget, PackCrash, packVars
<1> QED BY <1>1, <1>2, <1>3, <1>4, <1>5 DEF PackNext

\* What the owner of the machine made or edited at a directory of the pack is neither
\* replaced nor deleted by CopyMissingSkills or quarantineOwnedPaths, whatever fails.
THEOREM PackOwnersDirectoriesKept == PackSpec => OwnersDirectoriesKept
<1>1. PackInv /\ [PackNext]_packVars =>
        [\A d \in Directories :
            directory[d] \in Kept /\ directory'[d] # directory[d] =>
                Touch(d) \/ (d \in ours /\ directory[d] \in quarantined'[d])]_packVars
  BY PackStepKeeps
<1> QED BY <1>1, PackInvInit, PackInvStep, PTL DEF PackSpec, OwnersDirectoriesKept

\* A directory that is looked at or published is one of the pack.
PackTyped == PackTypeOK /\ (packJob.at \in {"look", "publish"} => packJob.next \in Directories)

LEMMA PackTypedInit == PackInit => PackTyped
BY PackAssumption DEF PackInit, PackTyped, PackTypeOK, NoJob, Content, Steps, Directories

LEMMA PackTypedStep == PackTyped /\ [PackNext]_packVars => PackTyped'
<1> SUFFICES ASSUME PackTyped, [PackNext]_packVars
             PROVE  PackTyped'
  OBVIOUS
<1>0. PackTypeOK /\ D \in Nat /\ 1 \in Directories /\ (packJob.at \in {"look", "publish"} => packJob.next \in Directories)
  BY PackAssumption DEF PackTyped, Directories
<1>1. NoJob \in [at : {"idle"}, next : {1}, added : {{}}, moves : {{}}, moved : {{}}]
  BY DEF NoJob
<1> DEFINE Jobs == [at : Steps, next : 1 .. D + 1, added : SUBSET Directories,
                    moves : SUBSET Directories, moved : SUBSET (Directories \X Content)]
<1>2. NoJob \in Jobs /\ NoJob.at = "idle" /\ packJob \in Jobs
  BY <1>0, <1>1 DEF PackTypeOK, Steps
<1>3. \A j \in Jobs : j.next \in Directories =>
         /\ Advance(j) \in Jobs
         /\ Advance(j).at = "look" => Advance(j).next \in Directories
         /\ Advance(j).at \in {"look", "record"}
  <2> TAKE j \in Jobs
  <2> HAVE j.next \in Directories
  <2> DEFINE at == IF j.next = D THEN "record" ELSE "look"
  <2>1. at \in Steps /\ j.next + 1 \in 1 .. D + 1 /\ (at = "look" => j.next + 1 \in Directories) /\ at \in {"look", "record"}
    BY <1>0 DEF Directories, Steps
  <2>2. Advance(j) = [j EXCEPT !.next = @ + 1, !.at = at]
    BY DEF Advance
  <2> HIDE DEF at
  <2>3. Advance(j) \in Jobs /\ Advance(j).next = j.next + 1 /\ Advance(j).at = at
    BY <2>1, <2>2
  <2> QED BY <2>1, <2>3
<1>4. ASSUME packJob' = NoJob, UNCHANGED <<directory, quarantined>>, ours' \subseteq Directories
      PROVE  PackTyped'
  BY <1>0, <1>2, <1>4 DEF PackTyped, PackTypeOK
<1>5. ASSUME packJob' \in Jobs, packJob'.at \in {"look", "publish"} => packJob'.next \in Directories,
             directory' \in [Directories -> Content], quarantined' = quarantined, ours' = ours
      PROVE  PackTyped'
  BY <1>0, <1>5 DEF PackTyped, PackTypeOK
<1>6. CASE InstallPack
  <2>1. packJob' = [NoJob EXCEPT !.at = "look"] /\ UNCHANGED <<directory, quarantined, ours>>
    BY <1>6 DEF InstallPack, BeginJob
  <2>2. packJob' \in Jobs /\ packJob'.next = 1
    BY <1>0, <1>1, <2>1 DEF Steps, Directories
  <2> HIDE DEF Jobs
  <2> QED BY <1>0, <1>5, <2>1, <2>2 DEF PackTypeOK
<1>7. CASE Look
  <2>1. packJob.next \in Directories /\ UNCHANGED <<directory, quarantined, ours>>
    BY <1>0, <1>7 DEF Look, At
  <2>2. CASE packJob' = Advance(packJob)
    <3> HIDE DEF Jobs
    <3> QED BY <1>0, <1>2, <1>3, <1>5, <2>1, <2>2 DEF PackTypeOK
  <2>3. CASE packJob' = [packJob EXCEPT !.at = "publish"]
    <3>1. packJob' \in Jobs /\ packJob'.next = packJob.next
      BY <1>2, <2>3 DEF Steps
    <3> HIDE DEF Jobs
    <3> QED BY <1>0, <1>5, <2>1, <3>1 DEF PackTypeOK
  <2> QED BY <1>7, <2>2, <2>3 DEF Look
<1>8. CASE Publish
  <2>1. /\ packJob.next \in Directories /\ directory' = [directory EXCEPT ![packJob.next] = "pack"]
        /\ packJob' = Advance([packJob EXCEPT !.added = @ \cup {packJob.next}]) /\ UNCHANGED <<quarantined, ours>>
    BY <1>0, <1>8 DEF Publish, At
  <2> DEFINE j == [packJob EXCEPT !.added = @ \cup {packJob.next}]
  <2>2. j \in Jobs /\ j.next = packJob.next
    BY <1>2, <2>1
  <2>3. directory' \in [Directories -> Content]
    BY <1>0, <2>1 DEF PackTypeOK, Content
  <2> HIDE DEF Jobs, j
  <2>4. packJob' = Advance(j)
    BY <2>1 DEF j
  <2> QED BY <1>3, <1>5, <2>1, <2>2, <2>3, <2>4
<1>9. CASE InstallFails \/ RecordAdded \/ Forget \/ PackCrash
  BY <1>0, <1>4, <1>9 DEF InstallFails, RecordAdded, Forget, PackCrash, PackTypeOK
<1>10. CASE RemovePack
  <2> DEFINE moves == {d \in ours : directory[d] # "absent"}
  <2>1. packJob' = [NoJob EXCEPT !.at = "move", !.moves = moves] /\ UNCHANGED <<directory, quarantined, ours>>
    BY <1>10 DEF RemovePack, BeginJob
  <2>2. moves \subseteq Directories
    BY <1>0 DEF PackTypeOK
  <2> HIDE DEF moves
  <2>3. packJob' \in Jobs /\ packJob'.at = "move"
    <3>1. packJob' \in [at : {"move"}, next : {1}, added : {{}}, moves : {moves}, moved : {{}}]
      BY <1>1, <2>1
    <3>2. /\ "move" \in Steps /\ 1 \in 1 .. D + 1 /\ moves \in SUBSET Directories /\ {} \in SUBSET Directories
          /\ {} \in SUBSET (Directories \X Content)
      BY <1>0, <2>2 DEF Steps
    <3> HIDE DEF Directories, Content, Steps
    <3> QED BY <3>1, <3>2
  <2> HIDE DEF Jobs
  <2> QED BY <1>0, <1>5, <2>1, <2>3 DEF PackTypeOK
<1>11. CASE Move
  <2>1. packJob.at = "move" /\ ours' = ours
    BY <1>11 DEF Move, At
  <2>2. CASE (packJob' = [packJob EXCEPT !.at = "forget"] \/ packJob' = [packJob EXCEPT !.at = "back"])
             /\ UNCHANGED <<directory, quarantined>>
    <3>1. packJob' \in Jobs /\ packJob'.at \in {"forget", "back"}
      BY <1>2, <2>2 DEF Steps
    <3> HIDE DEF Jobs
    <3> QED BY <1>0, <1>5, <2>1, <2>2, <3>1 DEF PackTypeOK
  <2>3. ASSUME NEW d \in ToMove, directory' = [directory EXCEPT ![d] = "absent"],
               quarantined' = [quarantined EXCEPT ![d] = @ \cup {directory[d]}],
               packJob' = [packJob EXCEPT !.moved = @ \cup {<<d, directory[d]>>}]
        PROVE  PackTyped'
    <3>1. d \in Directories /\ directory[d] \in Content /\ "absent" \in Content
      BY <1>0, <1>2 DEF ToMove, PackTypeOK, Content
    <3>2. directory' \in [Directories -> Content] /\ quarantined' \in [Directories -> SUBSET Content]
      BY <1>0, <2>3, <3>1 DEF PackTypeOK
    <3>3. packJob' \in Jobs /\ packJob'.at = "move"
      BY <1>2, <2>1, <2>3, <3>1
    <3> HIDE DEF Jobs
    <3>4. packJob' \in Jobs
      BY <3>3
    <3> QED BY <1>0, <2>1, <3>2, <3>3 DEF PackTyped, PackTypeOK, Jobs
  <2> QED BY <1>11, <2>2, <2>3 DEF Move
<1>12. CASE MoveBack
  <2>1. packJob.at = "back" /\ ours' = ours
    BY <1>12 DEF MoveBack, At
  <2>2. CASE packJob' = NoJob /\ UNCHANGED <<directory, quarantined>>
    BY <1>0, <1>4, <2>1, <2>2 DEF PackTypeOK
  <2>3. ASSUME NEW last \in packJob.moved,
               \/ /\ directory' = [directory EXCEPT ![last[1]] = last[2]]
                  /\ quarantined' = [quarantined EXCEPT ![last[1]] = @ \ {last[2]}]
               \/ UNCHANGED <<directory, quarantined>>,
               packJob' = [packJob EXCEPT !.moved = @ \ {last}]
        PROVE  PackTyped'
    <3>1. last[1] \in Directories /\ last[2] \in Content
      BY <1>2
    <3>2. directory' \in [Directories -> Content] /\ quarantined' \in [Directories -> SUBSET Content]
      BY <1>0, <2>3, <3>1 DEF PackTypeOK
    <3>3. packJob' \in Jobs /\ packJob'.at = "back"
      BY <1>2, <2>1, <2>3
    <3> QED BY <1>0, <2>1, <3>2, <3>3 DEF PackTyped, PackTypeOK
  <2> QED BY <1>12, <2>2, <2>3 DEF MoveBack
<1>13. ASSUME NEW d \in Directories, Touch(d)
       PROVE  PackTyped'
  <2>1. PICK content \in Content : directory' = [directory EXCEPT ![d] = content]
    BY <1>13 DEF Touch, Content
  <2>2. UNCHANGED <<quarantined, ours, packJob>>
    BY <1>13 DEF Touch
  <2> QED BY <1>0, <2>1, <2>2 DEF PackTyped, PackTypeOK
<1>14. CASE UNCHANGED packVars
  BY <1>0, <1>14 DEF packVars, PackTyped, PackTypeOK
<1> QED BY <1>6, <1>7, <1>8, <1>9, <1>10, <1>11, <1>12, <1>13, <1>14 DEF PackNext

-----------------------------------------------------------------------------
(* The replacement of a file.                                               *)

\* The two variables are records, with these fields.
Shaped ==
    /\ file = [destination |-> file.destination, staged |-> file.staged]
    /\ install = [at |-> install.at, offered |-> install.offered, before |-> install.before]

\* An answer belongs to an installation that is over.
AnsweredWhenOver == ~InstallAt("idle") => answer = "none"

\* What the destination holds at every place: the new content once it was renamed
\* there, nothing between the two renames, and what was there before otherwise.
Located ==
    /\ install.at \in {"copy", "replace", "vacate"} => file.destination = install.before
    /\ install.at \in {"replace", "vacate", "place"} => file.staged = install.offered
    /\ install.at \in {"installed", "verify", "cleanup"} => file.destination = install.offered
    /\ InstallAt("vacate") => install.before # 0

\* From the first of the two renames on, the previous content is beside it.
KeptAside == install.at \in {"place", "verify", "cleanup"} => install.before \in asides

ReplaceInv == Shaped /\ AnsweredWhenOver /\ Located /\ KeptAside /\ PreviousRecoverable

\* Initially nothing was installed.
LEMMA ReplaceInvInit == ReplacementInit => ReplaceInv
  BY DEF ReplacementInit, ReplaceInv, Shaped, AnsweredWhenOver, Located, KeptAside, PreviousRecoverable, NoInstall, InstallAt

\* Every step keeps the invariant.
LEMMA ReplaceInvStep == ReplaceInv /\ [ReplacementNext]_replaceVars => ReplaceInv'
<1> SUFFICES ASSUME ReplaceInv, [ReplacementNext]_replaceVars
             PROVE  ReplaceInv'
  OBVIOUS
<1> USE DEF ReplaceInv, Shaped, AnsweredWhenOver, Located, KeptAside, PreviousRecoverable, InstallAt, Proceed, Return
<1>1. ASSUME NEW release \in Release, Begin(release)
      PROVE  ReplaceInv'
  <2>1. CASE SameFileContent(release)
    BY <1>1, <2>1 DEF Begin, SameFileContent
  <2>2. CASE ~SameFileContent(release)
    BY <1>1, <2>2 DEF Begin, SameFileContent
  <2> QED BY <2>1, <2>2
<1>2. CASE Stage
  BY <1>2 DEF Stage
<1>3. CASE Replace
  BY <1>3 DEF Replace
<1>4. CASE Verified
  BY <1>4 DEF Verified
<1>5. CASE Vacate
  BY <1>5 DEF Vacate
<1>6. CASE Place
  BY <1>6 DEF Place, PutAsideBack
<1>7. CASE VerifyPlaced
  BY <1>7 DEF VerifyPlaced, PutAsideBack
<1>8. CASE CleanUp
  BY <1>8 DEF CleanUp
<1>9. CASE ReplaceCrash
  BY <1>9 DEF ReplaceCrash
<1>10. CASE UNCHANGED replaceVars
  BY <1>10 DEF replaceVars
<1> QED BY <1>1, <1>2, <1>3, <1>4, <1>5, <1>6, <1>7, <1>8, <1>9, <1>10 DEF ReplacementNext

\* safefile.Replace: whatever fails, and wherever the process stops, the file that was
\* there is at its place or beside it until the new one is in its place, and the answer
\* tells the caller which.
THEOREM PreviousFileRecoverable == ReplacementSpec => []PreviousRecoverable
<1>1. ReplaceInv => PreviousRecoverable
  BY DEF ReplaceInv
<1> QED BY <1>1, ReplaceInvInit, ReplaceInvStep, PTL DEF ReplacementSpec

LEMMA ReplacementTypedInit == ReplacementInit => ReplacementTypeOK
BY ReplacementAssumption DEF ReplacementInit, ReplacementTypeOK, NoInstall, InstallPlaces, Answers

LEMMA ReplacementTypedStep == ReplaceInv /\ ReplacementTypeOK /\ [ReplacementNext]_replaceVars => ReplacementTypeOK'
<1> SUFFICES ASSUME ReplaceInv, ReplacementTypeOK, [ReplacementNext]_replaceVars
             PROVE  ReplacementTypeOK'
  OBVIOUS
<1> USE ReplacementAssumption DEF ReplacementTypeOK, InstallAt, Proceed, Return, InstallPlaces, Answers
<1>1. ASSUME NEW release \in Release, Begin(release)
      PROVE  ReplacementTypeOK'
  BY <1>1 DEF Begin, SameFileContent
<1>2. CASE Stage
  BY <1>2 DEF Stage
<1>3. CASE Replace
  BY <1>3 DEF Replace
<1>4. CASE Verified
  BY <1>4 DEF Verified
<1>5. CASE Vacate
  BY <1>5 DEF Vacate, ReplaceInv, Located
<1>6. CASE Place
  BY <1>6 DEF Place, PutAsideBack
<1>7. CASE VerifyPlaced
  BY <1>7 DEF VerifyPlaced, PutAsideBack
<1>8. CASE CleanUp
  BY <1>8 DEF CleanUp
<1>9. CASE ReplaceCrash
  BY <1>9 DEF ReplaceCrash
<1>10. CASE UNCHANGED replaceVars
  BY <1>10 DEF replaceVars
<1> QED BY <1>1, <1>2, <1>3, <1>4, <1>5, <1>6, <1>7, <1>8, <1>9, <1>10 DEF ReplacementNext

-----------------------------------------------------------------------------
(* Operations of the manager page: what compaction evicts.                  *)

Operations == [OperationId -> [status : {"unknown", "running", "succeeded", "failed", "evicted"},
                               finished : 0 .. Cardinality(OperationId)]]

\* An end has a time of its own, and an operation without one has not ended.
Timed(ops) ==
    /\ \A o \in OperationId : ops[o].finished = 0 <=> ops[o].status \in {"unknown", "running"}
    /\ \A o, p \in OperationId : ops[o].finished = ops[p].finished /\ ops[o].finished # 0 => o = p

\* What was evicted ended before everything that is still kept.
OldestEvicted(ops) == \A o \in OperationId, p \in EndedOps(ops) :
    ops[o].status = "evicted" => ops[o].finished < ops[p].finished

\* Nothing is evicted unless the store is full.
FullStore(ops) ==
    (\E o \in OperationId : ops[o].status = "evicted") => Cardinality(Retained(ops)) >= MaxRetained

Older(ops, o) == {p \in EndedOps(ops) : ops[p].finished < ops[o].finished}
Victims(ops) == {o \in EndedOps(ops) : Cardinality(Older(ops, o)) < Cardinality(Retained(ops)) - MaxRetained}

LEMMA CompactEvicts ==
  ASSUME NEW ops
  PROVE  Compact(ops) = [o \in OperationId |->
            IF o \in Victims(ops) THEN [ops[o] EXCEPT !.status = "evicted"] ELSE ops[o]]
BY DEF Compact, Victims, Older

LEMMA RetainedFinite ==
  ASSUME NEW ops, NEW S \in SUBSET Retained(ops)
  PROVE  IsFiniteSet(S) /\ Cardinality(S) \in Nat
<1>1. S \in SUBSET OperationId
  BY DEF Retained
<1> QED BY <1>1, DeskAssumption, FS_Subset, FS_CardinalityType

\* As many are evicted as the store has in excess, at the most.
LEMMA VictimsFew ==
  ASSUME NEW ops \in Operations, Timed(ops), Victims(ops) # {}
  PROVE  Cardinality(Victims(ops)) <= Cardinality(Retained(ops)) - MaxRetained
<1> DEFINE V == Victims(ops)
<1>1. V \in SUBSET EndedOps(ops) /\ EndedOps(ops) \in SUBSET Retained(ops) /\ Retained(ops) \in SUBSET OperationId
  BY DEF Victims, EndedOps, Retained
<1>2. PICK v \in V : \A u \in V : ops[u].finished <= ops[v].finished
  <2> DEFINE T == {ops[u].finished : u \in V}
  <2>1. Cardinality(OperationId) \in Nat
    BY DeskAssumption, FS_CardinalityType
  <2>2. \A u \in V : ops[u].finished \in Nat /\ ops[u].finished <= Cardinality(OperationId)
    BY <1>1, <2>1 DEF Operations
  <2>3. T \in SUBSET Nat /\ T # {} /\ \A t \in T : t <= Cardinality(OperationId)
    BY <2>2
  <2> HIDE DEF T
  <2>4. PICK t \in T : \A u \in T : u <= t
    BY <2>1, <2>3, Latest
  <2> QED BY <2>4 DEF T
<1>3. V \ {v} \in SUBSET Older(ops, v)
  <2> SUFFICES ASSUME NEW u \in V, u # v
               PROVE  u \in Older(ops, v)
    OBVIOUS
  <2>1. ops[u].finished \in Nat /\ ops[v].finished \in Nat /\ ops[u].finished <= ops[v].finished
    BY <1>1, <1>2 DEF Operations
  <2>2. ops[u].finished # 0
    BY <1>1 DEF EndedOps, Retained, Timed
  <2>3. ops[u].finished # ops[v].finished
    BY <1>1, <2>2 DEF Timed
  <2> QED BY <1>1, <2>1, <2>3 DEF Older
<1>4. Older(ops, v) \in SUBSET Retained(ops)
  BY <1>1 DEF Older
<1>5. /\ IsFiniteSet(V) /\ Cardinality(V) \in Nat
      /\ IsFiniteSet(Older(ops, v)) /\ Cardinality(Older(ops, v)) \in Nat
      /\ Cardinality(Retained(ops)) \in Nat
  BY <1>1, <1>4, RetainedFinite
<1>6. Cardinality(V \ {v}) = Cardinality(V) - 1 /\ Cardinality(V \ {v}) <= Cardinality(Older(ops, v))
  BY <1>3, <1>5, FS_RemoveElement, FS_Subset
<1>7. Cardinality(Older(ops, v)) < Cardinality(Retained(ops)) - MaxRetained
  BY DEF Victims
<1> QED BY <1>5, <1>6, <1>7, DeskAssumption

\* What compaction leaves: the oldest ends are gone, and the store is still full.
LEMMA CompactKeeps ==
  ASSUME NEW ops \in Operations, Timed(ops), OldestEvicted(ops), FullStore(ops)
  PROVE  /\ Compact(ops) \in Operations
         /\ Timed(Compact(ops)) /\ OldestEvicted(Compact(ops)) /\ FullStore(Compact(ops))
         /\ \A o \in OperationId : Compact(ops)[o].finished = ops[o].finished
         /\ \A o \in OperationId : ops[o].status = "running" => Compact(ops)[o].status = "running"
<1> DEFINE V == Victims(ops)
           c == Compact(ops)
<1>1. V \in SUBSET EndedOps(ops) /\ EndedOps(ops) \in SUBSET Retained(ops) /\ Retained(ops) \in SUBSET OperationId
  BY DEF Victims, EndedOps, Retained
<1>2. /\ c \in Operations
      /\ \A o \in OperationId : c[o].finished = ops[o].finished
      /\ \A o \in OperationId : c[o].status = IF o \in V THEN "evicted" ELSE ops[o].status
  <2> HIDE DEF V
  <2>1. c = [o \in OperationId |-> IF o \in V THEN [ops[o] EXCEPT !.status = "evicted"] ELSE ops[o]]
    BY CompactEvicts DEF V
  <2> QED BY <2>1 DEF Operations
<1> HIDE DEF c
<1>3. Retained(c) = Retained(ops) \ V /\ EndedOps(c) = EndedOps(ops) \ V
  <2> HIDE DEF V
  <2>1. Retained(c) = Retained(ops) \ V
    BY <1>2 DEF Retained
  <2> QED BY <1>1, <1>2, <2>1 DEF EndedOps
<1>4. \A o \in V : ops[o].status \notin {"unknown", "running"}
  BY <1>1 DEF EndedOps, Retained
<1>5. Timed(c)
  <2> HIDE DEF V
  <2> QED BY <1>2, <1>4 DEF Timed
<1>6. OldestEvicted(c)
  <2> SUFFICES ASSUME NEW o \in OperationId, NEW p \in EndedOps(ops) \ V, c[o].status = "evicted"
               PROVE  ops[o].finished < ops[p].finished
    BY <1>1, <1>2, <1>3 DEF OldestEvicted
  <2>1. CASE o \notin V
    BY <1>2, <2>1 DEF OldestEvicted
  <2>2. CASE o \in V
    <3> SUFFICES ASSUME ~ (ops[o].finished < ops[p].finished)
                 PROVE  FALSE
      OBVIOUS
    <3>1. ops[o].finished \in Nat /\ ops[p].finished \in Nat /\ \A q \in EndedOps(ops) : ops[q].finished \in Nat
      BY <1>1 DEF Operations
    <3>2. Older(ops, p) \in SUBSET Older(ops, o) /\ Older(ops, o) \in SUBSET Retained(ops)
      BY <1>1, <3>1 DEF Older
    <3>3. IsFiniteSet(Older(ops, o)) /\ Cardinality(Older(ops, o)) \in Nat /\ Cardinality(Older(ops, p)) \in Nat
      BY <3>2, RetainedFinite
    <3>4. Cardinality(Older(ops, p)) <= Cardinality(Older(ops, o))
      BY <3>2, <3>3, FS_Subset
    <3>5. /\ Cardinality(Older(ops, o)) < Cardinality(Retained(ops)) - MaxRetained
          /\ ~ (Cardinality(Older(ops, p)) < Cardinality(Retained(ops)) - MaxRetained)
      BY <2>2 DEF Victims
    <3>6. Cardinality(Retained(ops)) - MaxRetained \in Int
      BY RetainedFinite, DeskAssumption
    <3> QED BY <3>3, <3>4, <3>5, <3>6
  <2> QED BY <2>1, <2>2
<1>7. FullStore(c)
  <2> SUFFICES ASSUME NEW o \in OperationId, c[o].status = "evicted"
               PROVE  Cardinality(Retained(ops) \ V) >= MaxRetained
    BY <1>3 DEF FullStore
  <2>1. CASE V = {}
    <3>1. ops[o].status = "evicted" /\ Retained(ops) \ V = Retained(ops)
      BY <1>2, <2>1
    <3> QED BY <3>1 DEF FullStore
  <2>2. CASE V # {}
    <3>1. Cardinality(V) <= Cardinality(Retained(ops)) - MaxRetained
      BY <2>2, VictimsFew
    <3>2. V \in SUBSET Retained(ops) /\ Retained(ops) \cap V = V
      BY <1>1
    <3>3. IsFiniteSet(Retained(ops)) /\ Cardinality(Retained(ops)) \in Nat /\ Cardinality(V) \in Nat
      BY <3>2, RetainedFinite
    <3> HIDE DEF V
    <3>4. Cardinality(Retained(ops) \ V) = Cardinality(Retained(ops)) - Cardinality(V)
      BY <3>2, <3>3, FS_Difference
    <3> QED BY <3>1, <3>3, <3>4, DeskAssumption
  <2> QED BY <2>1, <2>2
<1> QED BY <1>2, <1>4, <1>5, <1>6, <1>7 DEF c

Finished(ops) == {p \in OperationId : ops[p].finished # 0}

\* What is at work has not returned yet.
NoneTwice == working \cap returned = {}

DeskInv ==
    /\ DeskTypeOK /\ OperationsAnswered
    /\ Timed(operations) /\ OldestEvicted(operations) /\ FullStore(operations)
    /\ \A o \in OperationId : operations[o].finished <= Cardinality(Finished(operations))
    /\ \A o \in working \cup returned : operations[o].status = "running"
    /\ NoneTwice

\* What is left is newer than what was evicted, so the first half of OperationsAnswered follows.
LEMMA KeptAreNewer ==
  ASSUME NEW ops, OldestEvicted(ops), FullStore(ops),
         NEW o \in OperationId, ops[o].status = "evicted"
  PROVE  Cardinality({p \in Retained(ops) :
              p \notin EndedOps(ops) \/ ops[p].finished > ops[o].finished}) >= MaxRetained
<1> DEFINE newer == {p \in Retained(ops) : p \notin EndedOps(ops) \/ ops[p].finished > ops[o].finished}
<1>1. \A p \in EndedOps(ops) : ops[o].finished < ops[p].finished
  BY DEF OldestEvicted
<1>2. \A p \in EndedOps(ops) : ops[p].finished > ops[o].finished
  BY <1>1
<1>3. newer = Retained(ops)
  BY <1>2
<1> QED BY <1>3 DEF FullStore

\* No work goes on when the gate is open.
LEMMA GateOpen ==
  ASSUME DeskInv, gate = 0
  PROVE  working = {} /\ request = "none"
<1>1. IsFiniteSet(working) /\ Cardinality(working) \in Nat
  BY DeskAssumption, FS_Subset, FS_CardinalityType DEF DeskInv, DeskTypeOK
<1>2. gate = Cardinality(working) + (IF request = "none" THEN 0 ELSE 1)
  BY DEF DeskInv, OperationsAnswered
<1>3. Cardinality(working) = 0 /\ request = "none"
  BY <1>1, <1>2
<1> QED BY <1>1, <1>3, FS_EmptySet

LEMMA StartMutationKeeps == DeskInv /\ StartMutation => DeskInv'
<1> SUFFICES ASSUME DeskInv, StartMutation
             PROVE  DeskInv'
  OBVIOUS
<1>1. working = {} /\ request = "none" /\ gate = 0 /\ returned' = returned /\ request' = request /\ page' = page
  BY GateOpen DEF StartMutation
<1>2. DeskTypeOK /\ Timed(operations) /\ OldestEvicted(operations) /\ FullStore(operations)
  BY DEF DeskInv
<1>3. CASE UNCHANGED <<operations, working, gate>>
  BY <1>1, <1>3 DEF DeskInv, DeskTypeOK, OperationsAnswered, Finished, NoneTwice
<1>4. CASE \E o \in OperationId \ Receipts :
              /\ operations' = Compact([operations EXCEPT ![o].status = "running"])
              /\ working' = working \cup {o} /\ gate' = 1
  <2>1. PICK o \in OperationId \ Receipts :
              /\ operations' = Compact([operations EXCEPT ![o].status = "running"])
              /\ working' = working \cup {o} /\ gate' = 1
    BY <1>4
  <2> DEFINE ops == [operations EXCEPT ![o].status = "running"]
  <2>2. /\ ops \in Operations
        /\ \A p \in OperationId : ops[p].finished = operations[p].finished
        /\ \A p \in OperationId : ops[p].status = IF p = o THEN "running" ELSE operations[p].status
    BY <1>2, <2>1 DEF DeskTypeOK, Operations
  <2>3. operations[o].status = "unknown"
    BY <2>1 DEF Receipts
  <2> HIDE DEF ops
  <2>4. Timed(ops)
    BY <1>2, <2>2, <2>3 DEF Timed
  <2>5. Retained(ops) = Retained(operations) \cup {o} /\ EndedOps(ops) = EndedOps(operations)
    <3>1. Retained(ops) = Retained(operations) \cup {o} /\ o \notin Retained(operations)
      BY <2>2, <2>3 DEF Retained
    <3> QED BY <2>2, <3>1 DEF EndedOps, Retained
  <2>6. OldestEvicted(ops)
    <3>1. EndedOps(operations) \subseteq OperationId
      BY DEF EndedOps, Retained
    <3> QED BY <1>2, <2>2, <2>3, <2>5, <3>1 DEF OldestEvicted
  <2>7. FullStore(ops)
    <3>1. /\ IsFiniteSet(Retained(operations)) /\ Cardinality(Retained(operations)) \in Nat
          /\ IsFiniteSet(Retained(ops)) /\ Cardinality(Retained(ops)) \in Nat
      BY RetainedFinite
    <3>2. Cardinality(Retained(operations)) <= Cardinality(Retained(ops))
      BY <2>5, <3>1, FS_Subset
    <3>3. (\E p \in OperationId : ops[p].status = "evicted") => \E p \in OperationId : operations[p].status = "evicted"
      BY <2>2, <2>3
    <3> QED BY <1>2, <3>1, <3>2, <3>3, DeskAssumption DEF FullStore
  <2>8. /\ operations' \in Operations
        /\ Timed(operations') /\ OldestEvicted(operations') /\ FullStore(operations')
        /\ \A p \in OperationId : operations'[p].finished = operations[p].finished
        /\ \A p \in OperationId : ops[p].status = "running" => operations'[p].status = "running"
    BY <2>1, <2>2, <2>4, <2>6, <2>7, CompactKeeps DEF ops
  <2>9. working' = {o} /\ Cardinality(working') = 1
    BY <1>1, <2>1, FS_Singleton
  <2>10. DeskTypeOK'
    BY <1>1, <1>2, <2>1, <2>8, <2>9 DEF DeskTypeOK, Operations
  <2>11. OperationsAnswered'
    <3>1. \A p \in OperationId : operations'[p].status = "evicted" =>
            Cardinality({q \in Retained(operations') :
              q \notin EndedOps(operations') \/ operations'[q].finished > operations'[p].finished}) >= MaxRetained
      BY <2>8, KeptAreNewer
    <3>2. gate' = Cardinality(working') + (IF request' = "none" THEN 0 ELSE 1)
      BY <1>1, <2>1, <2>9
    <3> QED BY <3>1, <3>2, Zenon DEF OperationsAnswered
  <2>12. \A p \in OperationId : operations'[p].finished <= Cardinality(Finished(operations'))
    <3>1. Finished(operations') = Finished(operations)
      BY <2>8 DEF Finished
    <3> QED BY <2>8, <3>1 DEF DeskInv
  <2>13. \A p \in working' \cup returned' : operations'[p].status = "running"
    <3>1. \A p \in returned : p \in OperationId /\ ops[p].status = "running"
      BY <1>2, <2>2 DEF DeskInv, DeskTypeOK
    <3> QED BY <1>1, <2>1, <2>2, <2>8, <2>9, <3>1
  <2>14. NoneTwice'
    <3>1. o \notin returned
      BY <2>3 DEF DeskInv
    <3> QED BY <1>1, <2>9, <3>1 DEF NoneTwice
  <2> QED BY <2>8, <2>10, <2>11, <2>12, <2>13, <2>14 DEF DeskInv
<1>5. OperationId \ Receipts # {} /\ Min(OperationId \ Receipts) \in OperationId \ Receipts
  <2>1. OperationId \ Receipts \in SUBSET Nat /\ OperationId \ Receipts # {}
    BY DeskAssumption DEF StartMutation, Receipts
  <2>2. \E o \in OperationId \ Receipts : \A p \in OperationId \ Receipts : o <= p
    BY <2>1, Least
  <2> QED BY <2>1, <2>2 DEF Min
<1> QED BY <1>3, <1>4, <1>5 DEF StartMutation

LEMMA WorkReturnsKeeps ==
  ASSUME DeskInv, NEW o \in OperationId, WorkReturns(o)
  PROVE  DeskInv'
<1>1. /\ o \in working /\ working' = working \ {o} /\ returned' = returned \cup {o}
      /\ gate' = 0 /\ operations' = operations /\ request' = request /\ page' = page
  BY DEF WorkReturns
<1>2. DeskTypeOK'
  BY <1>1 DEF DeskInv, DeskTypeOK
<1>3. IsFiniteSet(working) /\ Cardinality(working) \in Nat
  BY DeskAssumption, FS_Subset, FS_CardinalityType DEF DeskInv, DeskTypeOK
<1>4. gate \in {0, 1} /\ gate = Cardinality(working) + (IF request = "none" THEN 0 ELSE 1)
  BY DEF DeskInv, OperationsAnswered, DeskTypeOK
<1>5. Cardinality(working) # 0
  BY <1>1, <1>3, FS_EmptySet
<1>6. Cardinality(working') = Cardinality(working) - 1
  BY <1>1, <1>3, FS_RemoveElement
<1>7. gate' = Cardinality(working') + (IF request' = "none" THEN 0 ELSE 1)
  BY <1>1, <1>3, <1>4, <1>5, <1>6
<1> QED BY <1>1, <1>2, <1>7 DEF DeskInv, OperationsAnswered, Finished, NoneTwice

LEMMA StoreOutcomeKeeps ==
  ASSUME DeskInv, NEW o \in OperationId, StoreOutcome(o)
  PROVE  DeskInv'
<1> DEFINE T == {operations[p].finished : p \in OperationId}
           n == Cardinality(OperationId)
           done == Cardinality(Finished(operations))
<1>1. o \in returned /\ operations[o].status = "running" /\ operations[o].finished = 0
  BY DEF StoreOutcome, DeskInv, Timed
<1>2. PICK outcome \in {"succeeded", "failed"} :
         operations' = [operations EXCEPT ![o] = [status |-> outcome, finished |-> 1 + Max(T)]]
  BY DEF StoreOutcome
<1>3. returned' = returned \ {o} /\ working' = working /\ gate' = gate /\ request' = request /\ page' = page
  BY DEF StoreOutcome
<1>4. /\ Finished(operations) \in SUBSET (OperationId \ {o})
      /\ n \in Nat /\ done \in Nat /\ done <= n - 1
      /\ IsFiniteSet(Finished(operations))
  <2>1. Finished(operations) \in SUBSET (OperationId \ {o})
    BY <1>1 DEF Finished
  <2>2. IsFiniteSet(OperationId \ {o}) /\ Cardinality(OperationId \ {o}) = n - 1 /\ n \in Nat
    BY DeskAssumption, FS_RemoveElement, FS_CardinalityType
  <2> QED BY <2>1, <2>2, FS_Subset, FS_CardinalityType
<1>5. operations \in Operations /\ \A p \in OperationId : operations[p].finished \in Nat /\ operations[p].finished <= done
  BY <1>4 DEF DeskInv, DeskTypeOK, Operations
<1>6. Max(T) \in T /\ \A t \in T : t <= Max(T)
  <2>1. T \in SUBSET Nat /\ T # {} /\ \A t \in T : t <= done
    BY <1>5
  <2> HIDE DEF T, done
  <2>2. PICK t \in T : \A u \in T : u <= t
    BY <1>4, <2>1, Latest
  <2>3. \A u \in T : t >= u
    BY <2>1, <2>2
  <2>4. Max(T) \in T /\ \A t1 \in T : Max(T) >= t1
    BY <2>3 DEF Max
  <2> QED BY <2>1, <2>4
<1> DEFINE last == Max(T)
<1>7. last \in Nat /\ last <= done /\ \A p \in OperationId : operations[p].finished <= last
  BY <1>5, <1>6
<1> HIDE DEF T, last
<1>8. /\ operations' \in Operations
      /\ operations'[o].status = outcome /\ operations'[o].finished = 1 + last
      /\ \A p \in OperationId \ {o} : operations'[p] = operations[p]
  <2>1. 1 + last \in 0 .. n
    BY <1>4, <1>7
  <2> HIDE DEF n
  <2> QED BY <1>2, <1>5, <2>1 DEF Operations, last, n
<1>9. Timed(operations')
  BY <1>2, <1>5, <1>7, <1>8 DEF Timed, DeskInv
<1>10. Retained(operations') = Retained(operations) /\ EndedOps(operations') = EndedOps(operations) \cup {o}
  <2>1. Retained(operations') = Retained(operations)
    BY <1>1, <1>2, <1>8 DEF Retained
  <2> QED BY <1>1, <1>2, <1>8, <2>1 DEF EndedOps, Retained
<1>11. OldestEvicted(operations')
  <2> SUFFICES ASSUME NEW p \in OperationId, NEW q \in EndedOps(operations) \cup {o}, operations'[p].status = "evicted"
               PROVE  operations'[p].finished < operations'[q].finished
    BY <1>10 DEF OldestEvicted
  <2>1. p # o /\ operations'[p] = operations[p]
    BY <1>2, <1>8
  <2>2. CASE q = o
    BY <1>5, <1>7, <1>8, <2>1, <2>2
  <2>3. CASE q # o
    <3>1. q \in OperationId /\ q \in EndedOps(operations)
      BY <2>3 DEF EndedOps, Retained
    <3> QED BY <1>8, <2>1, <2>3, <3>1 DEF DeskInv, OldestEvicted
  <2> QED BY <2>2, <2>3
<1>12. FullStore(operations')
  <2>1. \A p \in OperationId : operations'[p].status = "evicted" => operations[p].status = "evicted"
    BY <1>2, <1>8
  <2> QED BY <1>10, <2>1 DEF FullStore, DeskInv
<1>13. \A p \in OperationId : operations'[p].finished <= Cardinality(Finished(operations'))
  <2>1. Finished(operations') = Finished(operations) \cup {o} /\ o \notin Finished(operations)
    BY <1>4, <1>7, <1>8 DEF Finished
  <2>2. Cardinality(Finished(operations')) = done + 1
    BY <1>4, <2>1, FS_AddElement
  <2> HIDE DEF done
  <2> QED BY <1>4, <1>5, <1>7, <1>8, <2>2
<1>14. DeskTypeOK' /\ \A p \in working' \cup returned' : operations'[p].status = "running"
  <2>1. DeskTypeOK'
    BY <1>3, <1>8 DEF DeskInv, DeskTypeOK, Operations
  <2>2. o \notin working'
    BY <1>1, <1>3 DEF DeskInv, NoneTwice
  <2> QED BY <1>3, <1>8, <2>1, <2>2 DEF DeskInv, DeskTypeOK
<1>15. OperationsAnswered'
  BY <1>3, <1>9, <1>11, <1>12, KeptAreNewer DEF OperationsAnswered, DeskInv
<1>16. NoneTwice'
  BY <1>3 DEF DeskInv, NoneTwice
<1> QED BY <1>9, <1>11, <1>12, <1>13, <1>14, <1>15, <1>16 DEF DeskInv

LEMMA DeskInvInit == DeskInit => DeskInv
<1> SUFFICES ASSUME DeskInit
             PROVE  DeskInv
  OBVIOUS
<1>1. \A o \in OperationId : operations[o].status = "unknown" /\ operations[o].finished = 0
  BY DEF DeskInit, Fresh
<1>2. Retained(operations) = {} /\ EndedOps(operations) = {} /\ Finished(operations) = {}
  BY <1>1 DEF Retained, EndedOps, Finished
<1>3. Cardinality(OperationId) \in Nat /\ Cardinality(working) = 0 /\ Cardinality(Finished(operations)) = 0
  BY <1>2, DeskAssumption, FS_CardinalityType, FS_EmptySet DEF DeskInit
<1>4. DeskTypeOK
  BY <1>3 DEF DeskInit, DeskTypeOK, Fresh
<1>5. OperationsAnswered
  BY <1>1, <1>3 DEF DeskInit, OperationsAnswered
<1>6. Timed(operations) /\ OldestEvicted(operations) /\ FullStore(operations)
  BY <1>1, <1>2 DEF Timed, OldestEvicted, FullStore
<1>7. (\A o \in working \cup returned : operations[o].status = "running") /\ NoneTwice
  BY DEF DeskInit, NoneTwice
<1> QED BY <1>1, <1>3, <1>4, <1>5, <1>6, <1>7 DEF DeskInv

LEMMA DeskInvStep == DeskInv /\ [DeskNext]_deskVars => DeskInv'
<1> SUFFICES ASSUME DeskInv, [DeskNext]_deskVars
             PROVE  DeskInv'
  OBVIOUS
<1>1. ASSUME NEW kind \in {"plan", "shutdown"}, Handle(kind)
      PROVE  DeskInv'
  <2>1. /\ request = "none" /\ Cardinality(working) = 0
        /\ gate' = 1 /\ request' = kind /\ page' \in {page, "closing"}
        /\ operations' = operations /\ working' = working /\ returned' = returned
    BY <1>1, GateOpen, FS_EmptySet DEF Handle
  <2> QED BY <2>1 DEF DeskInv, DeskTypeOK, OperationsAnswered, Finished, NoneTwice
<1>2. CASE Handled
  <2>1. IsFiniteSet(working) /\ Cardinality(working) \in Nat
    BY DeskAssumption, FS_Subset, FS_CardinalityType DEF DeskInv, DeskTypeOK
  <2>2. gate \in {0, 1} /\ gate = Cardinality(working) + 1
    BY <1>2 DEF Handled, DeskInv, DeskTypeOK, OperationsAnswered
  <2>3. Cardinality(working) = 0
    BY <2>1, <2>2
  <2> QED BY <1>2, <2>3 DEF Handled, DeskInv, DeskTypeOK, OperationsAnswered, Finished, NoneTwice
<1>3. CASE ClosePage
  BY <1>3 DEF ClosePage, DeskInv, DeskTypeOK, OperationsAnswered, Finished, NoneTwice
<1>4. CASE UNCHANGED deskVars
  BY <1>4 DEF deskVars, DeskInv, DeskTypeOK, OperationsAnswered, Finished, NoneTwice
<1> QED BY <1>1, <1>2, <1>3, <1>4, StartMutationKeeps, WorkReturnsKeeps, StoreOutcomeKeeps DEF DeskNext

-----------------------------------------------------------------------------
(* The generated context: a refresh is transactional and loses no file.     *)

ContextPlaces == {"idle", "scan", "capture", "save", "write", "verify", "rollback"}
Writing == {"save", "write", "verify"}

\* The fields of the refresh and what the files hold.
ContextTyped ==
    /\ files = [p \in File |-> files[p]]
    /\ project \in [fingerprint : Fingerprint, directories : SUBSET {DirectoryOf[p] : p \in File}]
    /\ contextPlan \in [id : {contextPlan.id}, fingerprint : {contextPlan.fingerprint},
                        ops : {contextPlan.ops}, valid : {contextPlan.valid}]
    /\ DOMAIN contextPlan.ops \subseteq File
    /\ refresh \in [at : ContextPlaces, todo : SUBSET File, seen : {refresh.seen}, undo : SUBSET File,
                    result : {refresh.result}, id : {refresh.id}, ops : {refresh.ops},
                    fingerprint : {refresh.fingerprint}, touched : {refresh.touched},
                    undoFailed : {refresh.undoFailed}, unsure : {refresh.unsure}]
    /\ DOMAIN refresh.ops \subseteq File
    /\ refresh.at # "idle" => refresh.seen = [p \in File |-> refresh.seen[p]]
    /\ \A copy \in copies : copy[1] \in File /\ copy[2] # Absent

\* Only files that will change are looked at, and none is written twice.
ContextOrder ==
    /\ refresh.at \in {"capture"} \cup Writing => refresh.todo \subseteq ToWrite(refresh.ops)
    /\ refresh.at \in {"idle", "scan", "capture"} => refresh.undo = {}
    /\ \A p \in refresh.undo \cap refresh.todo : refresh.at = "verify" /\ Head1(p)
    /\ refresh.at \in {"scan", "capture"} \cup Writing => refresh.result = "none"
    /\ refresh.at = "rollback" => refresh.result = "failed"

\* A file nobody edited holds what was read of it until it is written, and once it is written back.
NotWritten(p) ==
    /\ refresh.at # "idle" /\ p \notin refresh.undo
    /\ refresh.at = "rollback" => ~refresh.undoFailed /\ p \notin refresh.unsure
ContextStillSeen == \A p \in File \ refresh.touched : NotWritten(p) => files[p] = refresh.seen[p]

\* What was read of a file that passed the check is what was reviewed.
ContextSeenReviewed == \A p \in Reviewed :
    refresh.at \in Writing \cup {"rollback"} \/ (refresh.at = "capture" /\ p \notin refresh.todo) =>
        refresh.seen[p] = FileOp(p).before

\* A file whose turn is over was written as reviewed and can be written back.
ContextWritten == refresh.at \in Writing =>
    /\ \A p \in ToWrite(refresh.ops) \ refresh.todo : p \in refresh.undo
    /\ \A p \in refresh.undo \ refresh.touched : files[p] = FileOp(p).after
    /\ refresh.at = "verify" => \A p \in refresh.todo : Head1(p) => p \in refresh.undo

\* A file is copied before it is written.
Copied(p) == refresh.seen[p] = Absent \/ <<p, refresh.seen[p]>> \in copies
ContextCopied == \A p \in File \ refresh.touched : refresh.at = "write" /\ Head1(p) => Copied(p)

ContextInv ==
    /\ ContextTyped /\ ContextOrder /\ ContextStillSeen /\ ContextSeenReviewed
    /\ ContextWritten /\ ContextCopied
    /\ ContextAllOrNothing /\ ContextKept

LEMMA HeadUnique == \A p, q \in File : Head1(p) /\ Head1(q) => p = q
BY ContextAssumption DEF File, Head1

LEMMA ContextInvInit == ContextInit => ContextInv
<1> SUFFICES ASSUME ContextInit
             PROVE  ContextInv
  OBVIOUS
<1>1. ContextTyped
  <2>1. files = [p \in File |-> files[p]]
    BY ContextAssumption DEF ContextInit
  <2>2. project \in [fingerprint : Fingerprint, directories : SUBSET {DirectoryOf[p] : p \in File}]
    <3> DEFINE present == {DirectoryOf[p] : p \in {q \in File : files[q] # Absent}} \ {"root"}
               all == {DirectoryOf[p] : p \in File}
               first == CHOOSE f \in Fingerprint : TRUE
    <3>1. present \subseteq all
      OBVIOUS
    <3>2. first \in Fingerprint
      BY ContextAssumption
    <3>3. project = [fingerprint |-> first, directories |-> present]
      BY DEF ContextInit
    <3> HIDE DEF present, all, first
    <3>4. project \in [fingerprint : Fingerprint, directories : SUBSET all]
      BY <3>1, <3>2, <3>3
    <3> QED BY <3>4 DEF all
  <2>3. /\ contextPlan \in [id : {contextPlan.id}, fingerprint : {contextPlan.fingerprint},
                          ops : {contextPlan.ops}, valid : {contextPlan.valid}]
        /\ contextPlan.ops = <<>>
    BY DEF ContextInit, NoContextPlan
  <2>4. /\ refresh \in [at : ContextPlaces, todo : SUBSET File, seen : {refresh.seen}, undo : SUBSET File,
                      result : {refresh.result}, id : {refresh.id}, ops : {refresh.ops},
                      fingerprint : {refresh.fingerprint}, touched : {refresh.touched},
                      undoFailed : {refresh.undoFailed}, unsure : {refresh.unsure}]
        /\ refresh.ops = <<>> /\ refresh.at = "idle"
    BY DEF ContextInit, NoRefresh, ContextPlaces
  <2>5. copies = {} /\ DOMAIN <<>> = {}
    BY DEF ContextInit
  <2> QED BY <2>1, <2>2, <2>3, <2>4, <2>5 DEF ContextTyped
<1>2. refresh.at = "idle" /\ refresh.result = "none" /\ refresh.undo = {} /\ refresh.ops = <<>>
  BY DEF ContextInit, NoRefresh
<1>3. ContextOrder /\ ContextStillSeen /\ ContextSeenReviewed /\ ContextWritten /\ ContextCopied
  BY <1>2 DEF ContextOrder, ContextStillSeen, NotWritten, ContextSeenReviewed, ContextWritten, ContextCopied, Writing, Reviewed, ToWrite
<1>4. ContextAllOrNothing /\ ContextKept
  BY <1>2 DEF ContextAllOrNothing, ContextKept
<1> QED BY <1>1, <1>3, <1>4 DEF ContextInv

\* Steps that leave the files and what the refresh does as they are.
LEMMA SameContext ==
  ASSUME ContextInv, ContextTyped', files' = files, refresh' = refresh, copies' = copies
  PROVE  ContextInv'
<1>1. ContextOrder' /\ ContextStillSeen' /\ ContextSeenReviewed' /\ ContextWritten' /\ ContextCopied'
  BY DEF ContextInv, ContextOrder, ContextStillSeen, NotWritten, ContextSeenReviewed, ContextWritten, ContextCopied,
         Reviewed, FileOp, Head1, Copied
<1>2. ContextAllOrNothing' /\ ContextKept'
  BY DEF ContextInv, ContextAllOrNothing, ContextKept, Reviewed, FileOp
<1> QED BY <1>1, <1>2 DEF ContextInv

\* When the refresh is over, what counts is its result.
LEMMA OverContext ==
  ASSUME ContextTyped', ContextAllOrNothing', ContextKept', refresh'.at = "idle", refresh'.undo = {}
  PROVE  ContextInv'
BY DEF ContextInv, ContextOrder, ContextStillSeen, NotWritten, ContextSeenReviewed, ContextWritten, ContextCopied, Writing

LEMMA PlanningContext ==
  ASSUME ContextInv,
         \/ \E agents \in SUBSET Agent : PlanContext(agents)
         \/ ContextPlanLapses \/ UNCHANGED contextVars
         \/ \E f \in Fingerprint : EditProject(f)
  PROVE  ContextInv'
<1>0. ContextTyped
  BY DEF ContextInv
<1>1. ASSUME NEW agents \in SUBSET Agent, PlanContext(agents)
      PROVE  ContextInv'
  <2> DEFINE targets == IF agents = {} THEN Detected ELSE agents
  <2>1. targets \subseteq Agent
    BY ContextAssumption DEF Detected
  <2>2. {PathOf[a] : a \in targets} \subseteq File
    BY <2>1 DEF File
  <2>3. /\ contextPlan' = [id |-> spent.plans + 1, fingerprint |-> project.fingerprint, valid |-> TRUE,
                           ops |-> [p \in {PathOf[a] : a \in targets} |-> PlanFile(p)]]
        /\ files' = files /\ project' = project /\ refresh' = refresh /\ copies' = copies
    BY <1>1 DEF PlanContext
  <2> HIDE DEF targets
  <2>4. ContextTyped'
    BY <1>0, <2>2, <2>3 DEF ContextTyped
  <2> QED BY <2>3, <2>4, SameContext
<1>2. CASE ContextPlanLapses
  <2>1. ContextTyped'
    BY <1>0, <1>2 DEF ContextPlanLapses, ContextTyped
  <2> QED BY <1>2, <2>1, SameContext DEF ContextPlanLapses
<1>3. CASE UNCHANGED contextVars
  <2>1. ContextTyped'
    BY <1>0, <1>3 DEF contextVars, ContextTyped
  <2> QED BY <1>3, <2>1, SameContext DEF contextVars
<1>4. ASSUME NEW f \in Fingerprint, EditProject(f)
      PROVE  ContextInv'
  <2>1. ContextTyped'
    BY <1>0, <1>4 DEF EditProject, ContextTyped
  <2> QED BY <1>4, <2>1, SameContext DEF EditProject
<1> QED BY <1>1, <1>2, <1>3, <1>4

LEMMA EditingContext ==
  ASSUME ContextInv, NEW p \in File, NEW content, EditFile(p, content)
  PROVE  ContextInv'
<1>0. ContextTyped
  BY DEF ContextInv
<1>1. /\ \A q \in File \ {p} : files'[q] = files[q]
      /\ refresh'.touched = refresh.touched \cup {p} /\ copies' = copies
      /\ refresh'.at = refresh.at /\ refresh'.todo = refresh.todo /\ refresh'.seen = refresh.seen
      /\ refresh'.undo = refresh.undo /\ refresh'.result = refresh.result /\ refresh'.ops = refresh.ops
      /\ refresh'.undoFailed = refresh.undoFailed /\ refresh'.unsure = refresh.unsure
  BY <1>0 DEF EditFile, ContextTyped
<1>2. ContextTyped'
  BY <1>0 DEF EditFile, ContextTyped
<1>3. \A q : (Head1(q)' <=> Head1(q)) /\ FileOp(q)' = FileOp(q) /\ (NotWritten(q)' <=> NotWritten(q)) /\ (Copied(q)' <=> Copied(q))
  BY <1>1 DEF Head1, FileOp, NotWritten, Copied
<1>4. Reviewed' = Reviewed \ {p} /\ Reviewed \subseteq File
  BY <1>0, <1>1 DEF Reviewed, ToWrite, ContextTyped
<1>5. ContextOrder' /\ ContextStillSeen'
  BY <1>1, <1>3 DEF ContextInv, ContextOrder, ContextStillSeen
<1>6. ContextSeenReviewed' /\ ContextCopied'
  BY <1>1, <1>3, <1>4 DEF ContextInv, ContextSeenReviewed, ContextCopied
<1>7. ContextWritten'
  <2>1. refresh.undo \subseteq File
    BY <1>0 DEF ContextTyped
  <2> QED BY <1>1, <1>3, <2>1 DEF ContextInv, ContextWritten
<1>8. ContextAllOrNothing' /\ ContextKept'
  BY <1>1, <1>3, <1>4 DEF ContextInv, ContextAllOrNothing, ContextKept
<1> QED BY <1>2, <1>5, <1>6, <1>7, <1>8 DEF ContextInv

\* Nothing has been written yet.
LEMMA CapturingContext ==
  ASSUME ContextInv, ApplyContext \/ Rescan \/ ApplyRefuses \/ Captured \/ \E p \in File : Capture(p)
  PROVE  ContextInv'
<1>0. ContextTyped
  BY DEF ContextInv
<1>1. CASE ApplyContext
  <2>1. /\ refresh'.at = "scan" /\ refresh'.seen = files /\ refresh'.ops = contextPlan.ops /\ refresh'.touched = {}
        /\ refresh'.undo = {} /\ refresh'.result = "none" /\ refresh'.todo = {} /\ files' = files /\ copies' = copies
    BY <1>1 DEF ApplyContext, NoRefresh
  <2>2. ContextTyped'
    BY <1>0, <1>1 DEF ApplyContext, NoRefresh, ContextTyped, ContextPlaces
  <2>3. ContextOrder' /\ ContextStillSeen' /\ ContextSeenReviewed' /\ ContextWritten' /\ ContextCopied'
    BY <2>1 DEF ContextOrder, ContextStillSeen, NotWritten, ContextSeenReviewed, ContextWritten, ContextCopied, Writing
  <2>4. ContextAllOrNothing' /\ ContextKept'
    BY <2>1 DEF ContextAllOrNothing, ContextKept
  <2> QED BY <2>2, <2>3, <2>4 DEF ContextInv
<1>2. CASE ApplyRefuses
  <2>1. /\ refresh'.at = "idle" /\ refresh'.result = "refused" /\ refresh'.undo = {} /\ refresh'.seen = refresh.seen
        /\ refresh'.touched = refresh.touched /\ files' = files /\ copies' = copies /\ refresh.at # "idle"
    BY <1>0, <1>2 DEF ApplyRefuses, ContextTyped, ContextInv, ContextOrder
  <2>2. ContextTyped'
    BY <1>0, <1>2 DEF ApplyRefuses, ContextTyped, ContextPlaces
  <2>3. ContextAllOrNothing' /\ ContextKept'
    BY <2>1 DEF ContextAllOrNothing, ContextKept, ContextInv
  <2> QED BY <2>1, <2>2, <2>3, OverContext
<1>3. CASE Rescan \/ Captured
  <2>1. /\ \/ refresh.at = "scan" /\ refresh'.at = "capture"
           \/ refresh.at = "capture" /\ refresh.todo = {} /\ refresh'.at = "save"
        /\ refresh'.todo = ToWrite(refresh.ops) /\ refresh'.seen = refresh.seen /\ refresh'.undo = refresh.undo
        /\ refresh'.ops = refresh.ops /\ refresh'.touched = refresh.touched /\ refresh'.result = refresh.result
        /\ files' = files /\ copies' = copies
    BY <1>0, <1>3 DEF Rescan, Captured, ContextTyped
  <2>2. ContextTyped'
    <3>1. ToWrite(refresh.ops) \subseteq File
      BY <1>0 DEF ContextTyped, ToWrite
    <3> QED BY <1>0, <1>3, <3>1 DEF Rescan, Captured, ContextTyped, ContextPlaces
  <2>3. refresh.undo = {} /\ Reviewed' = Reviewed /\ Reviewed \subseteq ToWrite(refresh.ops) /\ \A p : FileOp(p)' = FileOp(p)
    BY <2>1 DEF ContextInv, ContextOrder, Reviewed, FileOp
  <2>4. ContextOrder' /\ ContextStillSeen'
    BY <2>1, <2>3 DEF ContextInv, ContextOrder, ContextStillSeen, NotWritten, Writing
  <2>5. ContextSeenReviewed'
    BY <2>1, <2>3 DEF ContextInv, ContextSeenReviewed, Writing
  <2>6. ContextWritten' /\ ContextCopied' /\ ContextAllOrNothing'
    BY <2>1, <2>3 DEF ContextWritten, ContextCopied, ContextAllOrNothing
  <2>7. ContextKept'
    BY <2>1 DEF ContextInv, ContextKept
  <2> QED BY <2>2, <2>4, <2>5, <2>6, <2>7 DEF ContextInv
<1>4. ASSUME NEW p \in File, Capture(p)
      PROVE  ContextInv'
  <2>1. /\ refresh.at = "capture" /\ refresh'.at = "capture" /\ refresh'.todo = refresh.todo \ {p}
        /\ refresh'.seen[p] = files[p] /\ \A q \in File \ {p} : refresh'.seen[q] = refresh.seen[q]
        /\ refresh'.undo = refresh.undo /\ refresh'.ops = refresh.ops /\ refresh'.touched = refresh.touched
        /\ refresh'.result = refresh.result /\ files' = files /\ copies' = copies /\ files[p] = FileOp(p).before
    BY <1>0, <1>4 DEF Capture, ContextTyped, Unchanged
  <2>2. ContextTyped'
    BY <1>0, <1>4 DEF Capture, ContextTyped, ContextPlaces
  <2>3. refresh.undo = {} /\ Reviewed' = Reviewed /\ Reviewed \subseteq File /\ \A q : FileOp(q)' = FileOp(q)
    BY <1>0, <2>1 DEF ContextInv, ContextOrder, Reviewed, FileOp, ToWrite, ContextTyped
  <2>4. ContextOrder'
    BY <2>1, <2>3 DEF ContextInv, ContextOrder, Writing
  <2>5. ContextStillSeen'
    BY <2>1, <2>3 DEF ContextInv, ContextStillSeen, NotWritten
  <2>6. ContextSeenReviewed'
    BY <2>1, <2>3 DEF ContextInv, ContextSeenReviewed, Writing
  <2>7. ContextWritten' /\ ContextCopied' /\ ContextAllOrNothing'
    BY <2>1 DEF ContextWritten, ContextCopied, ContextAllOrNothing, Writing
  <2>8. ContextKept'
    BY <2>1 DEF ContextInv, ContextKept
  <2> QED BY <2>2, <2>4, <2>5, <2>6, <2>7, <2>8 DEF ContextInv
<1> QED BY <1>1, <1>2, <1>3, <1>4

\* An error while files are written: what was not written is as it was, but for the file
\* whose own write reported it.
LEMMA FailedContext ==
  ASSUME ContextInv, ContextTyped', ContextKept', refresh.at \in Writing,
         refresh'.at = (IF refresh.undo = {} THEN "idle" ELSE "rollback"), refresh'.todo = {},
         refresh'.result = "failed", refresh'.undo = refresh.undo, refresh'.seen = refresh.seen,
         refresh'.ops = refresh.ops, refresh'.touched = refresh.touched,
         \A p \in File \ (refresh'.unsure \cup refresh.undo) : files'[p] = files[p]
  PROVE  ContextInv'
<1>1. Reviewed' = Reviewed /\ Reviewed \subseteq File \ refresh.touched /\ \A q : FileOp(q)' = FileOp(q)
  BY DEF ContextInv, Reviewed, FileOp, ToWrite, ContextTyped
<1>2. \A p \in File \ refresh.touched : p \notin refresh'.unsure \cup refresh.undo => files'[p] = refresh.seen[p]
  BY DEF ContextInv, ContextStillSeen, NotWritten, Writing
<1>3. \A p \in Reviewed : refresh.seen[p] = FileOp(p).before
  BY DEF ContextInv, ContextSeenReviewed
<1>4. CASE refresh.undo = {}
  <2>1. ContextAllOrNothing'
    BY <1>1, <1>2, <1>3, <1>4 DEF ContextAllOrNothing
  <2> QED BY <1>4, <2>1, OverContext
<1>5. CASE refresh.undo # {}
  <2>1. refresh'.at = "rollback"
    BY <1>5
  <2>2. ContextOrder' /\ ContextWritten' /\ ContextCopied' /\ ContextAllOrNothing'
    BY <2>1 DEF ContextOrder, ContextWritten, ContextCopied, ContextAllOrNothing, Writing
  <2>3. ContextStillSeen' /\ ContextSeenReviewed'
    BY <1>1, <1>2, <1>3, <2>1 DEF ContextStillSeen, NotWritten, ContextSeenReviewed
  <2> QED BY <2>2, <2>3 DEF ContextInv
<1> QED BY <1>4, <1>5

LEMMA WritingContext ==
  ASSUME ContextInv,
         \/ CopyFails \/ FinishRefresh
         \/ \E p \in File : SaveCopy(p) \/ WriteContext(p) \/ WriteReportsError(p) \/ VerifyContext(p)
  PROVE  ContextInv'
<1>0. ContextTyped
  BY DEF ContextInv
<1>1. CASE CopyFails
  <2>1. /\ refresh.at \in Writing /\ refresh'.at = (IF refresh.undo = {} THEN "idle" ELSE "rollback") /\ refresh'.todo = {}
        /\ refresh'.result = "failed" /\ refresh'.undo = refresh.undo /\ refresh'.seen = refresh.seen
        /\ refresh'.ops = refresh.ops /\ refresh'.touched = refresh.touched /\ files' = files /\ copies' = copies
        /\ refresh.at # "idle"
    BY <1>0, <1>1 DEF CopyFails, RefreshFailed, ContextTyped, Writing
  <2>2. ContextTyped'
    BY <1>0, <1>1 DEF CopyFails, RefreshFailed, ContextTyped, ContextPlaces
  <2>3. ContextKept'
    BY <2>1 DEF ContextInv, ContextKept
  <2> QED BY <2>1, <2>2, <2>3, FailedContext
<1>2. CASE FinishRefresh
  <2>1. /\ refresh.at = "save" /\ refresh.todo = {} /\ refresh'.at = "idle" /\ refresh'.undo = {} /\ refresh'.result = "applied"
        /\ refresh'.seen = refresh.seen /\ refresh'.ops = refresh.ops /\ refresh'.touched = refresh.touched
        /\ files' = files /\ copies' = copies
    BY <1>0, <1>2 DEF FinishRefresh, ContextTyped
  <2>2. ContextTyped'
    <3>1. NoContextPlan = [id |-> 0, fingerprint |-> "", ops |-> <<>>, valid |-> FALSE] /\ DOMAIN NoContextPlan.ops = {}
      BY DEF NoContextPlan
    <3>2. contextPlan' = contextPlan \/ contextPlan' = NoContextPlan
      BY <1>2 DEF FinishRefresh
    <3>3. /\ contextPlan' \in [id : {contextPlan'.id}, fingerprint : {contextPlan'.fingerprint},
                             ops : {contextPlan'.ops}, valid : {contextPlan'.valid}]
          /\ DOMAIN contextPlan'.ops \subseteq File
      BY <1>0, <3>1, <3>2 DEF ContextTyped
    <3> QED BY <1>0, <1>2, <3>3 DEF FinishRefresh, ContextTyped, ContextPlaces
  <2>3. Reviewed' = Reviewed /\ Reviewed \subseteq ToWrite(refresh.ops) \ refresh.touched /\ \A q : FileOp(q)' = FileOp(q)
    BY <2>1 DEF Reviewed, FileOp
  <2>4. ContextAllOrNothing'
    BY <2>1, <2>3 DEF ContextInv, ContextAllOrNothing, ContextWritten, Writing
  <2>5. ContextKept'
    BY <2>1 DEF ContextInv, ContextKept
  <2> QED BY <2>1, <2>2, <2>4, <2>5, OverContext
<1>3. ASSUME NEW p \in File, SaveCopy(p)
      PROVE  ContextInv'
  <2>1. /\ refresh.at = "save" /\ Head1(p) /\ refresh'.at = "write" /\ refresh'.todo = refresh.todo
        /\ refresh'.undo = refresh.undo /\ refresh'.seen = refresh.seen /\ refresh'.result = refresh.result
        /\ refresh'.ops = refresh.ops /\ refresh'.touched = refresh.touched /\ files' = files
        /\ (refresh.seen[p] = Absent /\ copies' = copies) \/ copies' = copies \cup {<<p, files[p]>>}
    BY <1>0, <1>3 DEF SaveCopy, ContextTyped
  <2>2. ContextTyped'
    BY <1>0, <1>3 DEF SaveCopy, ContextTyped, ContextPlaces
  <2>3. /\ Reviewed' = Reviewed /\ \A q : FileOp(q)' = FileOp(q)
        /\ \A q : (Head1(q)' <=> Head1(q)) /\ (Copied(q) => Copied(q)')
    BY <2>1 DEF Reviewed, FileOp, Head1, Copied
  <2>4. p \notin refresh.undo
    BY <2>1 DEF ContextInv, ContextOrder, Head1
  <2>5. ContextOrder'
    BY <2>1, <2>3 DEF ContextInv, ContextOrder, Writing
  <2>6. ContextStillSeen' /\ ContextSeenReviewed'
    BY <2>1, <2>3 DEF ContextInv, ContextStillSeen, NotWritten, ContextSeenReviewed, Writing
  <2>7. ContextWritten' /\ ContextAllOrNothing'
    BY <2>1, <2>3 DEF ContextInv, ContextWritten, ContextAllOrNothing, Writing
  <2>8. ContextCopied'
    <3>1. \A q \in File : Head1(q)' => q = p
      BY <2>1, <2>3, HeadUnique
    <3>2. p \notin refresh.touched => files[p] = refresh.seen[p]
      BY <2>1, <2>4 DEF ContextInv, ContextStillSeen, NotWritten
    <3>3. p \notin refresh.touched => Copied(p)'
      BY <2>1, <3>2 DEF Copied
    <3> QED BY <2>1, <3>1, <3>3 DEF ContextCopied
  <2>9. ContextKept'
    BY <2>1 DEF ContextInv, ContextKept
  <2> QED BY <2>2, <2>5, <2>6, <2>7, <2>8, <2>9 DEF ContextInv
<1>4. ASSUME NEW p \in File, refresh.at = "write", Head1(p), copies' = copies,
             refresh'.result # "none" \/ refresh'.at # "idle",
             refresh'.seen = refresh.seen, refresh'.touched = refresh.touched, \A q \in File \ {p} : files'[q] = files[q]
      PROVE  ContextKept'
  <2>1. \A q \in File \ refresh.touched : refresh.seen[q] \in {Absent, files[q]} \/ <<q, refresh.seen[q]>> \in copies
    BY <1>4 DEF ContextInv, ContextKept
  <2>2. p \notin refresh.touched => refresh.seen[p] = Absent \/ <<p, refresh.seen[p]>> \in copies
    BY <1>4 DEF ContextInv, ContextCopied, Copied
  <2> QED BY <1>4, <2>1, <2>2 DEF ContextKept
<1>5. ASSUME NEW p \in File, WriteContext(p)
      PROVE  ContextInv'
  <2>1. /\ refresh.at = "write" /\ Head1(p) /\ refresh'.at = "verify" /\ refresh'.undo = refresh.undo \cup {p}
        /\ refresh'.todo = refresh.todo /\ refresh'.seen = refresh.seen /\ refresh'.result = refresh.result
        /\ refresh'.ops = refresh.ops /\ refresh'.touched = refresh.touched /\ copies' = copies
        /\ files'[p] = FileOp(p).after /\ \A q \in File \ {p} : files'[q] = files[q]
    BY <1>0, <1>5 DEF WriteContext, PutFile, ContextTyped
  <2>2. ContextTyped'
    BY <1>0, <1>5 DEF WriteContext, PutFile, ContextTyped, ContextPlaces
  <2>3. /\ Reviewed' = Reviewed /\ \A q : FileOp(q)' = FileOp(q)
        /\ \A q : Head1(q)' <=> Head1(q)
    BY <2>1 DEF Reviewed, FileOp, Head1
  <2>4. ContextOrder'
    BY <2>1, <2>3 DEF ContextInv, ContextOrder, Writing
  <2>5. ContextStillSeen' /\ ContextSeenReviewed'
    BY <2>1, <2>3 DEF ContextInv, ContextStillSeen, NotWritten, ContextSeenReviewed, Writing
  <2>6. ContextWritten'
    <3>1. \A q \in refresh.todo : Head1(q) => q = p
      BY <1>0, <2>1, HeadUnique DEF ContextTyped
    <3>2. refresh.undo \subseteq File
      BY <1>0 DEF ContextTyped
    <3> QED BY <2>1, <2>3, <3>1, <3>2 DEF ContextInv, ContextWritten, Writing
  <2>7. ContextCopied' /\ ContextAllOrNothing'
    BY <2>1 DEF ContextCopied, ContextAllOrNothing
  <2>8. ContextKept'
    BY <1>4, <2>1
  <2> QED BY <2>2, <2>4, <2>5, <2>6, <2>7, <2>8 DEF ContextInv
<1>6. ASSUME NEW p \in File, WriteReportsError(p)
      PROVE  ContextInv'
  <2>1. /\ refresh.at = "write" /\ Head1(p) /\ refresh'.at = (IF refresh.undo = {} THEN "idle" ELSE "rollback")
        /\ refresh'.todo = {} /\ refresh'.result = "failed" /\ refresh'.undo = refresh.undo /\ refresh'.seen = refresh.seen
        /\ refresh'.ops = refresh.ops /\ refresh'.touched = refresh.touched /\ refresh'.unsure = {p} /\ copies' = copies
    BY <1>0, <1>6 DEF WriteReportsError, RefreshFailed, ContextTyped
  <2>2. \A q \in File \ {p} : files'[q] = files[q]
    BY <1>0, <1>6 DEF WriteReportsError, PutFile, ContextTyped
  <2>3. ContextTyped'
    <3>1. CASE UNCHANGED <<files, project>>
      BY <1>0, <1>6, <3>1 DEF WriteReportsError, RefreshFailed, ContextTyped, ContextPlaces
    <3>2. CASE PutFile(p, FileOp(p).after)
      BY <1>0, <1>6, <3>2 DEF WriteReportsError, RefreshFailed, PutFile, ContextTyped, ContextPlaces
    <3> QED BY <1>6, <3>1, <3>2 DEF WriteReportsError
  <2>4. ContextKept'
    BY <1>4, <2>1, <2>2
  <2> QED BY <2>1, <2>2, <2>3, <2>4, FailedContext DEF Writing
<1>7. ASSUME NEW p \in File, VerifyContext(p)
      PROVE  ContextInv'
  <2>0. refresh.at = "verify" /\ Head1(p) /\ files' = files /\ copies' = copies /\ project' = project /\ contextPlan' = contextPlan
    BY <1>7 DEF VerifyContext
  <2>1. CASE refresh' = [refresh EXCEPT !.at = "save", !.todo = @ \ {p}]
    <3>1. /\ refresh'.at = "save" /\ refresh'.todo = refresh.todo \ {p}
          /\ refresh'.undo = refresh.undo /\ refresh'.seen = refresh.seen /\ refresh'.result = refresh.result
          /\ refresh'.ops = refresh.ops /\ refresh'.touched = refresh.touched
      BY <1>0, <2>1 DEF ContextTyped
    <3>2. ContextTyped'
      BY <1>0, <2>0, <2>1 DEF ContextTyped, ContextPlaces
    <3>3. Reviewed' = Reviewed /\ \A q : FileOp(q)' = FileOp(q)
      BY <3>1 DEF Reviewed, FileOp
    <3>4. ContextOrder'
      <4>1. \A q \in refresh.undo \cap refresh.todo : q = p
        BY <1>0, <2>0, HeadUnique DEF ContextInv, ContextOrder, ContextTyped
      <4> QED BY <2>0, <3>1, <3>3, <4>1 DEF ContextInv, ContextOrder, Writing
    <3>5. ContextStillSeen' /\ ContextSeenReviewed'
      BY <2>0, <3>1, <3>3 DEF ContextInv, ContextStillSeen, NotWritten, ContextSeenReviewed, Writing
    <3>6. ContextWritten'
      BY <2>0, <3>1, <3>3 DEF ContextInv, ContextWritten, Writing, Head1
    <3>7. ContextCopied' /\ ContextAllOrNothing'
      BY <3>1 DEF ContextCopied, ContextAllOrNothing
    <3>8. ContextKept'
      BY <2>0, <3>1 DEF ContextInv, ContextKept
    <3> QED BY <3>2, <3>4, <3>5, <3>6, <3>7, <3>8 DEF ContextInv
  <2>2. CASE refresh' = RefreshFailed(refresh)
    <3>1. /\ refresh.at \in Writing /\ refresh'.at = (IF refresh.undo = {} THEN "idle" ELSE "rollback") /\ refresh'.todo = {}
          /\ refresh'.result = "failed" /\ refresh'.undo = refresh.undo /\ refresh'.seen = refresh.seen
          /\ refresh'.ops = refresh.ops /\ refresh'.touched = refresh.touched
      BY <1>0, <2>0, <2>2 DEF RefreshFailed, ContextTyped, Writing
    <3>2. ContextTyped'
      BY <1>0, <2>0, <2>2 DEF RefreshFailed, ContextTyped, ContextPlaces
    <3>3. ContextKept'
      BY <2>0, <3>1 DEF ContextInv, ContextKept
    <3> QED BY <2>0, <3>1, <3>2, <3>3, FailedContext
  <2> QED BY <1>7, <2>1, <2>2 DEF VerifyContext
<1> QED BY <1>1, <1>2, <1>3, <1>5, <1>6, <1>7

\* A rollback, and a crash.
LEMMA EndingContext ==
  ASSUME ContextInv, ContextCrash \/ \E p \in File : WriteBack(p) \/ WriteBackFails(p)
  PROVE  ContextInv'
<1>0. ContextTyped
  BY DEF ContextInv
<1>1. CASE ContextCrash
  <2>1. /\ refresh.at # "idle" /\ refresh'.at = "idle" /\ refresh'.undo = {} /\ refresh'.result = "crashed"
        /\ refresh'.seen = refresh.seen /\ refresh'.touched = refresh.touched /\ files' = files /\ copies' = copies
    BY <1>0, <1>1 DEF ContextCrash, ContextTyped
  <2>2. ContextTyped'
    BY <1>0, <1>1 DEF ContextCrash, ContextTyped, ContextPlaces
  <2>3. ContextAllOrNothing' /\ ContextKept'
    BY <2>1 DEF ContextInv, ContextAllOrNothing, ContextKept
  <2> QED BY <2>1, <2>2, <2>3, OverContext
<1>2. ASSUME NEW p \in File, WriteBack(p) \/ WriteBackFails(p)
      PROVE  ContextInv'
  <2>1. /\ refresh.at = "rollback" /\ refresh'.undo = refresh.undo \ {p}
        /\ refresh'.at = IF refresh'.undo = {} THEN "idle" ELSE "rollback"
        /\ refresh'.seen = refresh.seen /\ refresh'.ops = refresh.ops /\ refresh'.touched = refresh.touched
        /\ refresh'.result = refresh.result /\ refresh'.unsure = refresh.unsure /\ refresh'.todo = refresh.todo
        /\ copies' = copies
    <3>1. CASE WriteBack(p)
      BY <1>0, <3>1 DEF WriteBack, FileUndone, ContextTyped
    <3>2. CASE WriteBackFails(p)
      BY <1>0, <3>2 DEF WriteBackFails, FileUndone, ContextTyped
    <3> QED BY <1>2, <3>1, <3>2
  <2>2. /\ \A q \in File \ {p} : files'[q] = files[q]
        /\ files'[p] = refresh.seen[p] \/ (files'[p] = files[p] /\ refresh'.undoFailed)
        /\ ~refresh'.undoFailed => files'[p] = refresh.seen[p] /\ ~refresh.undoFailed
    BY <1>0, <1>2 DEF WriteBack, WriteBackFails, FileUndone, ContextTyped
  <2>3. ContextTyped'
    <3> DEFINE left == refresh.undo \ {p}
    <3>1. left \in SUBSET File
      BY <1>0 DEF ContextTyped
    <3>2. FileUndone(p) = [refresh EXCEPT !.undo = left, !.at = IF left = {} THEN "idle" ELSE "rollback"]
      BY DEF FileUndone
    <3> HIDE DEF left
    <3>3. CASE WriteBack(p)
      BY <1>0, <3>1, <3>2, <3>3 DEF WriteBack, ContextTyped, ContextPlaces
    <3>4. CASE WriteBackFails(p)
      <4> DEFINE r == [refresh EXCEPT !.undo = left, !.at = IF left = {} THEN "idle" ELSE "rollback"]
      <4>1. /\ r \in [at : ContextPlaces, todo : SUBSET File, seen : {refresh.seen}, undo : SUBSET File,
                    result : {refresh.result}, id : {refresh.id}, ops : {refresh.ops},
                    fingerprint : {refresh.fingerprint}, touched : {refresh.touched},
                    undoFailed : {refresh.undoFailed}, unsure : {refresh.unsure}]
            /\ refresh.at = "rollback" /\ refresh' = [r EXCEPT !.undoFailed = TRUE]
        BY <1>0, <3>1, <3>2, <3>4 DEF WriteBackFails, ContextTyped, ContextPlaces
      <4> HIDE DEF r
      <4> QED BY <1>0, <3>1, <3>4, <4>1 DEF WriteBackFails, ContextTyped, ContextPlaces
    <3> QED BY <1>2, <3>3, <3>4
  <2>4. Reviewed' = Reviewed /\ Reviewed \subseteq File \ refresh.touched /\ \A q : FileOp(q)' = FileOp(q)
    BY <1>0, <2>1 DEF Reviewed, FileOp, ToWrite, ContextTyped
  <2>5. ContextKept'
    BY <2>1, <2>2 DEF ContextInv, ContextKept
  <2>6. \A q \in File \ refresh.touched :
            ~refresh'.undoFailed /\ q \notin refresh.unsure \cup refresh'.undo => files'[q] = refresh.seen[q]
    BY <2>1, <2>2 DEF ContextInv, ContextStillSeen, NotWritten
  <2>7. \A q \in Reviewed : refresh.seen[q] = FileOp(q).before
    BY <2>1 DEF ContextInv, ContextSeenReviewed
  <2>8. refresh.result = "failed"
    BY <2>1 DEF ContextInv, ContextOrder
  <2>9. CASE refresh'.undo = {}
    <3>1. ContextAllOrNothing'
      BY <2>1, <2>4, <2>6, <2>7, <2>8, <2>9 DEF ContextAllOrNothing
    <3> QED BY <2>1, <2>3, <2>5, <2>9, <3>1, OverContext
  <2>10. CASE refresh'.undo # {}
    <3>1. refresh'.at = "rollback"
      BY <2>1, <2>10
    <3>2. ContextOrder'
      BY <2>1, <2>8, <3>1 DEF ContextInv, ContextOrder, Writing
    <3>3. ContextWritten' /\ ContextCopied' /\ ContextAllOrNothing'
      BY <3>1 DEF ContextWritten, ContextCopied, ContextAllOrNothing, Writing
    <3>4. ContextStillSeen' /\ ContextSeenReviewed'
      BY <2>1, <2>4, <2>6, <2>7, <3>1 DEF ContextStillSeen, NotWritten, ContextSeenReviewed
    <3> QED BY <2>3, <2>5, <3>2, <3>3, <3>4 DEF ContextInv
  <2> QED BY <2>9, <2>10
<1> QED BY <1>1, <1>2

LEMMA ContextInvStep == ContextInv /\ [ContextNext]_contextVars => ContextInv'
BY PlanningContext, EditingContext, CapturingContext, WritingContext, EndingContext DEF ContextNext, FileStep

LEMMA ContextTypes == ContextInv => ContextTypeOK
BY DEF ContextInv, ContextTyped, ContextTypeOK

-----------------------------------------------------------------------------
(* Human text: what a merge of the managed section makes of it.             *)

\* The text so far, with one more piece.
Grown(text, piece) == IF piece[1] = "text" THEN Append(text, piece) ELSE text

TextTo(s, n, f) ==
    /\ f \in [0 .. n -> Seq(Piece)]
    /\ f[0] = <<>>
    /\ \A k \in 1 .. n : f[k] = Grown(f[k - 1], s[k])

\* The recursion of HumanText.
TextOf(s) == CHOOSE up : up = [n \in 0 .. Len(s) |->
    IF n = 0 THEN <<>> ELSE IF s[n][1] = "text" THEN Append(up[n - 1], s[n]) ELSE up[n - 1]]

\* The text can be followed from the first piece to any later one.
LEMMA TextFollowed ==
  ASSUME NEW s \in Seq(Piece), NEW n \in 0 .. Len(s)
  PROVE  \E f : TextTo(s, n, f)
<1> DEFINE Missing == {k \in 0 .. Len(s) : ~\E f : TextTo(s, k, f)}
<1>1. SUFFICES ASSUME Missing # {}
               PROVE  FALSE
  OBVIOUS
<1>2. PICK m \in Missing : \A k \in Missing : m <= k
  <2>1. Missing \in SUBSET Nat
    OBVIOUS
  <2> HIDE DEF Missing
  <2> QED BY <1>1, <2>1, Least
<1>3. m # 0
  <2>1. [k \in 0 .. 0 |-> <<>>] \in [0 .. 0 -> Seq(Piece)]
    OBVIOUS
  <2>2. TextTo(s, 0, [k \in 0 .. 0 |-> <<>>])
    BY <2>1 DEF TextTo
  <2> QED BY <2>2
<1>4. m - 1 \in 0 .. Len(s) /\ m - 1 \notin Missing /\ m \in 1 .. Len(s)
  BY <1>2, <1>3
<1>5. PICK f : TextTo(s, m - 1, f)
  BY <1>4
<1> DEFINE h == [k \in 0 .. m |-> IF k = m THEN Grown(f[m - 1], s[m]) ELSE f[k]]
<1>6. h \in [0 .. m -> Seq(Piece)]
  <2>1. f \in [0 .. m - 1 -> Seq(Piece)] /\ f[m - 1] \in Seq(Piece) /\ s[m] \in Piece
    <3> HIDE DEF Missing
    <3>1. m - 1 \in 0 .. m - 1
      BY <1>4
    <3> QED BY <1>4, <1>5, <3>1 DEF TextTo
  <2>2. Grown(f[m - 1], s[m]) \in Seq(Piece)
    BY <2>1 DEF Grown
  <2> HIDE DEF Missing
  <2> QED BY <1>4, <2>1, <2>2
<1>7. TextTo(s, m, h)
  <2>1. h[0] = <<>>
    BY <1>3, <1>4, <1>5 DEF TextTo
  <2>2. ASSUME NEW k \in 1 .. m
        PROVE  h[k] = Grown(h[k - 1], s[k])
    <3>1. k \in 0 .. m /\ k - 1 \in 0 .. m /\ k - 1 # m /\ h[k - 1] = f[k - 1]
      BY <1>4
    <3>2. CASE k = m
      BY <3>1, <3>2
    <3>3. CASE k # m
      <4>1. k \in 1 .. m - 1 /\ h[k] = f[k]
        BY <1>4, <3>1, <3>3
      <4> QED BY <1>5, <3>1, <4>1 DEF TextTo
    <3> QED BY <3>2, <3>3
  <2> HIDE DEF h
  <2> QED BY <1>6, <2>1, <2>2 DEF TextTo
<1> QED BY <1>2, <1>7

\* HumanText adds piece after piece.
LEMMA TextSteps ==
  ASSUME NEW s \in Seq(Piece)
  PROVE  /\ TextTo(s, Len(s), TextOf(s))
         /\ s # Absent => HumanText(s) = TextOf(s)[Len(s)]
<1> DEFINE Is(up) == up = [n \in 0 .. Len(s) |->
              IF n = 0 THEN <<>> ELSE IF s[n][1] = "text" THEN Append(up[n - 1], s[n]) ELSE up[n - 1]]
<1>1. PICK f : TextTo(s, Len(s), f)
  <2>1. Len(s) \in 0 .. Len(s)
    OBVIOUS
  <2> QED BY <2>1, TextFollowed
<1>2. Is(f)
  <2>1. \A n \in 0 .. Len(s) : n # 0 => n \in 1 .. Len(s)
    OBVIOUS
  <2> QED BY <1>1, <2>1 DEF TextTo, Grown
<1>3. Is(TextOf(s))
  BY <1>2 DEF TextOf
<1>4. TextOf(s)[0] = <<>> /\ \A n \in 1 .. Len(s) : TextOf(s)[n] = Grown(TextOf(s)[n - 1], s[n])
  <2> DEFINE t == TextOf(s)
  <2>1. Is(t)
    BY <1>3
  <2> HIDE DEF t
  <2>2. \A n \in 0 .. Len(s) : t[n] = IF n = 0 THEN <<>> ELSE Grown(t[n - 1], s[n])
    BY <2>1 DEF Grown
  <2>3. 0 \in 0 .. Len(s) /\ \A n \in 1 .. Len(s) : n \in 0 .. Len(s) /\ n # 0
    OBVIOUS
  <2>4. t[0] = <<>> /\ \A n \in 1 .. Len(s) : t[n] = Grown(t[n - 1], s[n])
    BY <2>2, <2>3
  <2> QED BY <2>4 DEF t
<1>5. TextOf(s) = f
  <2> DEFINE t == TextOf(s)
             Differ == {n \in 0 .. Len(s) : t[n] # f[n]}
  <2>1. DOMAIN t = 0 .. Len(s) /\ t = [n \in 0 .. Len(s) |-> t[n]]
    <3> SUFFICES ASSUME Is(t)
                 PROVE  DOMAIN t = 0 .. Len(s) /\ t = [n \in 0 .. Len(s) |-> t[n]]
      BY <1>3
    <3> HIDE DEF t
    <3> QED OBVIOUS
  <2>2. t[0] = <<>> /\ \A n \in 1 .. Len(s) : t[n] = Grown(t[n - 1], s[n])
    BY <1>4
  <2> HIDE DEF t
  <2>3. Differ = {}
    <3> SUFFICES ASSUME Differ # {}
                 PROVE  FALSE
      OBVIOUS
    <3>1. PICK m \in Differ : \A k \in Differ : m <= k
      <4>1. Differ \in SUBSET Nat
        OBVIOUS
      <4> HIDE DEF Differ
      <4> QED BY <4>1, Least
    <3>2. m # 0
      BY <1>1, <2>2, <3>1 DEF TextTo
    <3>3. m - 1 \in 0 .. Len(s) /\ m \in 1 .. Len(s) /\ m - 1 \notin Differ
      BY <3>1, <3>2
    <3>4. t[m - 1] = f[m - 1]
      BY <3>3
    <3>5. t[m] = f[m]
      BY <1>1, <2>2, <3>3, <3>4 DEF TextTo
    <3> QED BY <3>1, <3>5
  <2>4. f = [n \in 0 .. Len(s) |-> f[n]]
    BY <1>1 DEF TextTo
  <2>5. \A n \in 0 .. Len(s) : t[n] = f[n]
    BY <2>3
  <2>6. t = f
    BY <2>1, <2>4, <2>5
  <2> QED BY <2>6 DEF t
<1>6. s # Absent => HumanText(s) = TextOf(s)[Len(s)]
  BY DEF HumanText, TextOf
<1> QED BY <1>1, <1>5, <1>6

AllText(s) == TextOf(s)[Len(s)]

LEMMA TextTyped ==
  ASSUME NEW s \in Seq(Piece), NEW n \in 0 .. Len(s)
  PROVE  TextOf(s)[n] \in Seq(Piece)
BY TextSteps DEF TextTo

LEMMA Associated ==
  ASSUME NEW u \in Seq(Piece), NEW v \in Seq(Piece), NEW w \in Seq(Piece)
  PROVE  (u \o v) \o w = u \o (v \o w)
BY ConcatAssociative

\* The text of two sequences, one after the other.
LEMMA TextJoined ==
  ASSUME NEW a \in Seq(Piece), NEW b \in Seq(Piece)
  PROVE  AllText(a \o b) = AllText(a) \o AllText(b)
<1> DEFINE c == a \o b
<1>1. /\ c \in Seq(Piece) /\ Len(c) = Len(a) + Len(b) /\ Len(a) \in Nat /\ Len(b) \in Nat
      /\ \A i \in 1 .. Len(a) : c[i] = a[i]
      /\ \A i \in 1 .. Len(b) : c[Len(a) + i] = b[i]
  <2>1. /\ c \in Seq(Piece) /\ Len(c) = Len(a) + Len(b)
        /\ \A i \in 1 .. Len(a) + Len(b) : c[i] = IF i <= Len(a) THEN a[i] ELSE b[i - Len(a)]
    BY ConcatProperties
  <2>2. Len(a) \in Nat /\ Len(b) \in Nat
    OBVIOUS
  <2> HIDE DEF c
  <2>3. \A i \in 1 .. Len(b) : c[Len(a) + i] = b[i]
    <3> TAKE i \in 1 .. Len(b)
    <3>1. Len(a) + i \in 1 .. Len(a) + Len(b) /\ ~(Len(a) + i <= Len(a)) /\ (Len(a) + i) - Len(a) = i
      BY <2>2
    <3> QED BY <2>1, <3>1
  <2>4. \A i \in 1 .. Len(a) : i \in 1 .. Len(a) + Len(b) /\ i <= Len(a)
    BY <2>2
  <2> QED BY <2>1, <2>2, <2>3, <2>4
<1> HIDE DEF c
<1> DEFINE x == TextOf(a)
           y == TextOf(b)
           z == TextOf(c)
<1>2. /\ x[0] = <<>> /\ \A n \in 1 .. Len(a) : x[n] = Grown(x[n - 1], a[n])
      /\ y[0] = <<>> /\ \A n \in 1 .. Len(b) : y[n] = Grown(y[n - 1], b[n])
      /\ z[0] = <<>> /\ \A n \in 1 .. Len(c) : z[n] = Grown(z[n - 1], c[n])
  BY <1>1, TextSteps DEF TextTo
<1>3. x[Len(a)] \in Seq(Piece) /\ \A n \in 0 .. Len(b) : y[n] \in Seq(Piece)
  BY <1>1, TextTyped
<1> HIDE DEF x, y, z
<1>4. z[Len(a)] = x[Len(a)]
  <2> DEFINE Differ == {n \in 0 .. Len(a) : z[n] # x[n]}
  <2>1. SUFFICES ASSUME Differ # {}
                 PROVE  FALSE
    BY <1>1
  <2>2. PICK m \in Differ : \A k \in Differ : m <= k
    <3>1. Differ \in SUBSET Nat
      OBVIOUS
    <3> HIDE DEF Differ
    <3> QED BY <2>1, <3>1, Least
  <2>3. m # 0
    BY <1>2, <2>2
  <2>4. m - 1 \in 0 .. Len(a) /\ m \in 1 .. Len(a) /\ m \in 1 .. Len(c) /\ m - 1 \notin Differ
    BY <1>1, <2>2, <2>3
  <2>5. z[m - 1] = x[m - 1]
    BY <2>4
  <2>6. z[m] = x[m]
    BY <1>1, <1>2, <2>4, <2>5
  <2> QED BY <2>2, <2>6
<1>5. z[Len(a) + Len(b)] = x[Len(a)] \o y[Len(b)]
  <2> DEFINE d == [n \in 0 .. Len(b) |-> z[Len(a) + n]]
             w == [n \in 0 .. Len(b) |-> x[Len(a)] \o y[n]]
             Differ == {n \in 0 .. Len(b) : d[n] # w[n]}
  <2>1. d[0] = w[0]
    <3>1. x[Len(a)] \o <<>> = x[Len(a)]
      BY <1>3, ConcatEmptySeq
    <3>2. Len(a) + 0 = Len(a) /\ 0 \in 0 .. Len(b)
      BY <1>1
    <3> QED BY <1>2, <1>4, <3>1, <3>2
  <2>2. ASSUME NEW m \in 1 .. Len(b), d[m - 1] = w[m - 1]
        PROVE  d[m] = w[m]
    <3>1. m - 1 \in 0 .. Len(b) /\ m \in 0 .. Len(b)
      BY <1>1
    <3>2. Len(a) + m \in 1 .. Len(c) /\ (Len(a) + m) - 1 = Len(a) + (m - 1) /\ c[Len(a) + m] = b[m]
      BY <1>1
    <3>3. z[Len(a) + m] = Grown(z[Len(a) + (m - 1)], b[m])
      BY <1>2, <3>2
    <3> DEFINE u == x[Len(a)]
               v == y[m - 1]
               e == b[m]
    <3>4. d[m] = Grown(u \o v, e) /\ w[m] = u \o Grown(v, e)
      <4>1. d[m] = z[Len(a) + m] /\ d[m - 1] = z[Len(a) + (m - 1)]
        BY <3>1
      <4>2. w[m - 1] = u \o v /\ w[m] = u \o y[m] /\ y[m] = Grown(v, e)
        BY <1>2, <3>1
      <4> HIDE DEF d, w, u, v, e
      <4>3. e = b[m]
        BY DEF e
      <4> QED BY <2>2, <3>3, <4>1, <4>2, <4>3
    <3>5. u \in Seq(Piece) /\ v \in Seq(Piece) /\ e \in Piece
      BY <1>3, <3>1
    <3> HIDE DEF u, v, e, d, w
    <3>6. u \o v \in Seq(Piece) /\ <<e>> \in Seq(Piece)
      BY <3>5
    <3>7. Append(u \o v, e) = (u \o v) \o <<e>> /\ Append(v, e) = v \o <<e>>
      BY <3>5, <3>6, AppendIsConcat
    <3>8. (u \o v) \o <<e>> = u \o (v \o <<e>>)
      <4> DEFINE one == <<e>>
      <4>1. one \in Seq(Piece)
        BY <3>6
      <4> HIDE DEF one
      <4>2. (u \o v) \o one = u \o (v \o one)
        BY <3>5, <4>1, Associated
      <4> QED BY <4>2 DEF one
    <3>9. Append(u \o v, e) = u \o Append(v, e)
      BY <3>7, <3>8
    <3> QED BY <3>4, <3>9 DEF Grown
  <2> HIDE DEF d, w
  <2>3. Differ = {}
    <3> SUFFICES ASSUME Differ # {}
                 PROVE  FALSE
      OBVIOUS
    <3>1. PICK m \in Differ : \A k \in Differ : m <= k
      <4>1. Differ \in SUBSET Nat
        OBVIOUS
      <4> HIDE DEF Differ
      <4> QED BY <4>1, Least
    <3>2. m # 0
      BY <2>1, <3>1
    <3>3. m - 1 \in 0 .. Len(b) /\ m \in 1 .. Len(b) /\ m - 1 \notin Differ
      BY <1>1, <3>1, <3>2
    <3> QED BY <2>2, <3>1, <3>3
  <2>4. Len(b) \in 0 .. Len(b)
    BY <1>1
  <2>5. d[Len(b)] = w[Len(b)]
    BY <2>3, <2>4
  <2> QED BY <2>4, <2>5 DEF d, w
<1> QED BY <1>1, <1>5 DEF AllText, x, y, z, c

\* Pieces that are no text leave none.
LEMMA NoText ==
  ASSUME NEW s \in Seq(Piece), \A i \in 1 .. Len(s) : s[i][1] # "text"
  PROVE  AllText(s) = <<>>
<1> DEFINE x == TextOf(s)
           Differ == {n \in 0 .. Len(s) : x[n] # <<>>}
<1>1. x[0] = <<>> /\ \A n \in 1 .. Len(s) : x[n] = x[n - 1]
  BY TextSteps DEF TextTo, Grown
<1> HIDE DEF x
<1>2. Differ = {}
  <2> SUFFICES ASSUME Differ # {}
               PROVE  FALSE
    OBVIOUS
  <2>1. PICK m \in Differ : \A k \in Differ : m <= k
    <3>1. Differ \in SUBSET Nat
      OBVIOUS
    <3> HIDE DEF Differ
    <3> QED BY <3>1, Least
  <2>2. m # 0
    BY <1>1, <2>1
  <2>3. m - 1 \in 0 .. Len(s) /\ m \in 1 .. Len(s) /\ m - 1 \notin Differ
    BY <2>1, <2>2
  <2> QED BY <1>1, <2>1, <2>3
<1>3. Len(s) \in 0 .. Len(s)
  OBVIOUS
<1> QED BY <1>2, <1>3 DEF AllText, x

\* The first piece of a kind.
LEMMA PositionFirst ==
  ASSUME NEW s \in Seq(Piece), NEW piece
  PROVE  \/ Position(s, piece) = 0 /\ \A i \in 1 .. Len(s) : s[i] # piece
         \/ /\ Position(s, piece) \in 1 .. Len(s) /\ s[Position(s, piece)] = piece
            /\ \A i \in 1 .. Position(s, piece) - 1 : s[i] # piece
<1> DEFINE I == {i \in 1 .. Len(s) : s[i] = piece}
<1>1. Position(s, piece) = IF I # {} THEN CHOOSE i \in I : \A j \in I : i <= j ELSE 0
  BY DEF Position, SelectInSeq, Min
<1>2. CASE I = {}
  BY <1>1, <1>2
<1>3. CASE I # {}
  <2>1. \E i \in I : \A j \in I : i <= j
    <3>1. I \in SUBSET Nat
      OBVIOUS
    <3> HIDE DEF I
    <3> QED BY <1>3, <3>1, Least
  <2>2. Position(s, piece) \in I /\ \A j \in I : Position(s, piece) <= j
    <3> HIDE DEF I
    <3> QED BY <1>1, <1>3, <2>1
  <2>3. \A i \in 1 .. Position(s, piece) - 1 : i \in 1 .. Len(s) /\ ~(Position(s, piece) <= i)
    BY <2>2
  <2> QED BY <2>2, <2>3
<1> QED BY <1>2, <1>3

Projects == [fingerprint : Fingerprint, directories : SUBSET {DirectoryOf[p] : p \in File}]

\* The managed section has its marks and no text.
LEMMA SectionPieces ==
  ASSUME NEW p \in Projects
  PROVE  /\ Section(p) \in Seq(Piece) /\ Len(Section(p)) = 3
         /\ Section(p)[1] = StartMark /\ Section(p)[3] = EndMark
         /\ \A i \in 1 .. 3 : Section(p)[i][1] # "text"
<1>1. Generated(p) \in Piece /\ StartMark \in Piece /\ EndMark \in Piece
  <2>1. p.fingerprint \in Fingerprint /\ p.directories \in SUBSET {DirectoryOf[q] : q \in File}
    BY DEF Projects
  <2> HIDE DEF Projects
  <2> DEFINE Named == SUBSET {DirectoryOf[q] : q \in File}
  <2> HIDE DEF Named
  <2>2. Generated(p) \in {"generated"} \X Fingerprint \X Named
    BY <2>1 DEF Generated, Named
  <2> QED BY <2>2 DEF Piece, Named
<1>2. Generated(p)[1] = "generated" /\ StartMark[1] = "start" /\ EndMark[1] = "end"
  BY DEF Generated, StartMark, EndMark
<1> DEFINE a == StartMark
           b == Generated(p)
           c == EndMark
<1>3. Section(p) = <<a, b, c>>
  BY DEF Section
<1> HIDE DEF a, b, c
<1>4. a \in Piece /\ b \in Piece /\ c \in Piece /\ a[1] # "text" /\ b[1] # "text" /\ c[1] # "text"
  BY <1>1, <1>2 DEF a, b, c
<1>5. /\ <<a, b, c>> \in Seq(Piece) /\ Len(<<a, b, c>>) = 3
      /\ <<a, b, c>>[1] = a /\ <<a, b, c>>[2] = b /\ <<a, b, c>>[3] = c
  BY <1>4
<1>6. \A i \in 1 .. 3 : i = 1 \/ i = 2 \/ i = 3
  OBVIOUS
<1> QED BY <1>3, <1>4, <1>5, <1>6 DEF a, c

\* A content, or what is merged where there is no file.
Pieces(content) == IF content = Absent THEN <<>> ELSE content

LEMMA HumanPieces ==
  ASSUME NEW content \in Marked \cup {Absent}
  PROVE  /\ Pieces(content) \in Seq(Piece) /\ WellMarked(Pieces(content))
         /\ HumanText(content) = AllText(Pieces(content))
<1>1. CASE content = Absent
  <2>1. <<>> \in Seq(Piece) /\ Len(<<>>) = 0
    OBVIOUS
  <2>2. WellMarked(<<>>)
    BY <2>1 DEF WellMarked
  <2>3. AllText(<<>>) = <<>>
    <3>1. \A i \in 1 .. Len(<<>>) : FALSE
      BY <2>1
    <3> DEFINE none == <<>>
    <3>2. none \in Seq(Piece) /\ \A i \in 1 .. Len(none) : none[i][1] # "text"
      BY <2>1, <3>1
    <3> HIDE DEF none
    <3>3. AllText(none) = <<>>
      BY <3>2, NoText
    <3> QED BY <3>3 DEF none
  <2> QED BY <1>1, <2>1, <2>2, <2>3 DEF Pieces, HumanText
<1>2. CASE content # Absent
  BY <1>2, TextSteps DEF Marked, Pieces, AllText
<1> QED BY <1>1, <1>2

\* A merge keeps the marks and the human text.
LEMMA MergeKeeps ==
  ASSUME FilesMarked, NEW content \in Marked \cup {Absent}, NEW p \in Projects
  PROVE  /\ Merge(content, Section(p)) \in Marked
         /\ HumanText(Merge(content, Section(p))) = HumanText(content)
<1> DEFINE s == Pieces(content)
           m == Merge(content, Section(p))
           sec == Section(p)
           start == Position(s, StartMark)
           end == Position(s, EndMark)
           before == SubSeq(s, 1, start - 1)
           after == SubSeq(s, end + 1, Len(s))
<1>1. s \in Seq(Piece) /\ WellMarked(s) /\ HumanText(content) = AllText(s) /\ Len(s) \in Nat
  BY HumanPieces
<1>2. /\ sec \in Seq(Piece) /\ Len(sec) = 3 /\ sec[1] = StartMark /\ sec[3] = EndMark
      /\ \A i \in 1 .. 3 : sec[i][1] # "text"
  BY SectionPieces
<1>3. m = IF start > 0 /\ end >= start THEN before \o sec \o after ELSE s \o sec
  BY DEF Merge, Pieces
<1>4. /\ start = 0 \/ (start \in 1 .. Len(s) /\ s[start] = StartMark /\ \A i \in 1 .. start - 1 : s[i] # StartMark)
      /\ start = 0 => \A i \in 1 .. Len(s) : s[i] # StartMark
      /\ end = 0 \/ (end \in 1 .. Len(s) /\ s[end] = EndMark /\ \A i \in 1 .. end - 1 : s[i] # EndMark)
  BY <1>1, PositionFirst
<1>5. StartMark # EndMark /\ StartMark[1] # "text" /\ EndMark[1] # "text"
  BY DEF StartMark, EndMark
<1> HIDE DEF s, m, sec, start, end
<1> SUFFICES m \in Seq(Piece) /\ WellMarked(m) /\ AllText(m) = AllText(s)
  <2>1. m \in Seq(Piece) /\ WellMarked(m) => m \in Marked
    BY DEF Marked
  <2>2. m \in Marked => m # Absent
    BY DEF FilesMarked
  <2>3. m \in Seq(Piece) /\ m # Absent => HumanText(m) = AllText(m)
    BY TextSteps DEF AllText
  <2>4. m \in Seq(Piece) /\ WellMarked(m) /\ AllText(m) = AllText(s) => m \in Marked /\ HumanText(m) = HumanText(content)
    BY <1>1, <2>1, <2>2, <2>3
  <2> QED BY <2>4 DEF m
<1>6. CASE ~(start > 0 /\ end >= start)
  <2>1. m = s \o sec
    BY <1>3, <1>6
  <2>2. /\ m \in Seq(Piece) /\ Len(m) = Len(s) + 3
        /\ \A i \in 1 .. Len(s) + 3 : m[i] = IF i <= Len(s) THEN s[i] ELSE sec[i - Len(s)]
    <3>1. /\ s \o sec \in Seq(Piece) /\ Len(s \o sec) = Len(s) + Len(sec)
          /\ \A i \in 1 .. Len(s) + Len(sec) : (s \o sec)[i] = IF i <= Len(s) THEN s[i] ELSE sec[i - Len(s)]
      BY <1>1, <1>2, ConcatProperties
    <3> QED BY <1>2, <2>1, <3>1
  <2>3. AllText(m) = AllText(s)
    <3>1. AllText(sec) = <<>>
      BY <1>2, NoText
    <3>2. AllText(s) \in Seq(Piece)
      <4>1. Len(s) \in 0 .. Len(s)
        BY <1>1
      <4> QED BY <1>1, <4>1, TextTyped DEF AllText
    <3> QED BY <1>1, <1>2, <2>1, <3>1, <3>2, TextJoined, ConcatEmptySeq
  <2>4. WellMarked(m)
    <3> SUFFICES ASSUME NEW i \in 1 .. Len(m), m[i][1] = "text", NEW j \in 1 .. i - 1, m[j] = StartMark
                 PROVE  \E k \in 1 .. i - 1 : m[k] = EndMark
      BY DEF WellMarked
    <3>1. i \in 1 .. Len(s)
      <4> SUFFICES ASSUME ~(i <= Len(s))
                   PROVE  FALSE
        BY <1>1, <2>2
      <4>1. i - Len(s) \in 1 .. 3 /\ m[i] = sec[i - Len(s)]
        BY <1>1, <2>2
      <4> QED BY <1>2, <4>1
    <3>2. \A k \in 1 .. i : m[k] = s[k]
      BY <1>1, <2>2, <3>1
    <3>3. s[i][1] = "text" /\ s[j] = StartMark
      BY <1>1, <3>1, <3>2
    <3>4. PICK k \in 1 .. i - 1 : s[k] = EndMark
      BY <1>1, <3>1, <3>3 DEF WellMarked
    <3> QED BY <1>1, <3>1, <3>2, <3>4
  <2> QED BY <2>2, <2>3, <2>4
<1>7. CASE start > 0 /\ end >= start
  <2> DEFINE middle == SubSeq(s, start, end)
             front == before \o sec
  <2>0. start \in 1 .. Len(s) /\ end \in 1 .. Len(s) /\ start <= end /\ m = front \o after
    <3> HIDE DEF before, after
    <3>1. m = front \o after
      BY <1>3, <1>7
    <3>2. start # 0 /\ end # 0
      BY <1>4, <1>7
    <3> QED BY <1>1, <1>4, <1>7, <3>1, <3>2
  <2>1. /\ before \in Seq(Piece) /\ Len(before) = start - 1 /\ \A i \in 1 .. start - 1 : before[i] = s[i]
        /\ middle \in Seq(Piece) /\ Len(middle) = end - start + 1
        /\ \A i \in 1 .. end - start + 1 : middle[i] = s[start + i - 1]
        /\ after \in Seq(Piece) /\ Len(after) = Len(s) - end
    <3>1. \A i \in 1 .. Len(s) : s[i] \in Piece
      BY <1>1
    <3>2. before \in Seq(Piece) /\ Len(before) = start - 1 /\ \A i \in 1 .. start - 1 : before[i] = s[i]
      <4>1. 1 \in Int /\ start - 1 \in Int /\ \A i \in 1 .. start - 1 : s[i] \in Piece /\ 1 + i - 1 = i
        BY <1>1, <2>0, <3>1
      <4>2. /\ before \in Seq(Piece) /\ Len(before) = IF 1 <= start - 1 THEN start - 1 - 1 + 1 ELSE 0
            /\ \A i \in 1 .. start - 1 - 1 + 1 : before[i] = s[1 + i - 1]
        BY <4>1, SubSeqProperties
      <4> HIDE DEF before
      <4>3. start - 1 - 1 + 1 = start - 1 /\ (1 <= start - 1 \/ start - 1 = 0)
        BY <1>1, <2>0
      <4> QED BY <4>1, <4>2, <4>3
    <3>3. /\ middle \in Seq(Piece) /\ Len(middle) = end - start + 1
          /\ \A i \in 1 .. end - start + 1 : middle[i] = s[start + i - 1]
      <4>1. start \in Int /\ end \in Int /\ \A i \in start .. end : s[i] \in Piece
        BY <1>1, <2>0, <3>1
      <4> QED BY <2>0, <4>1, SubSeqProperties
    <3>4. after \in Seq(Piece) /\ Len(after) = Len(s) - end
      <4>1. end + 1 \in Int /\ Len(s) \in Int /\ \A i \in end + 1 .. Len(s) : s[i] \in Piece
        BY <1>1, <2>0, <3>1
      <4>2. after \in Seq(Piece) /\ Len(after) = IF end + 1 <= Len(s) THEN Len(s) - (end + 1) + 1 ELSE 0
        BY <4>1, SubSeqProperties
      <4> HIDE DEF after
      <4>3. (IF end + 1 <= Len(s) THEN Len(s) - (end + 1) + 1 ELSE 0) = Len(s) - end
        BY <1>1, <2>0
      <4> QED BY <4>2, <4>3
    <3> QED BY <3>2, <3>3, <3>4
  <2>2. s = (before \o middle) \o after
    <3>1. 1 \in 1 .. Len(s) + 1 /\ start - 1 \in 1 - 1 .. Len(s) /\ end \in start - 1 .. Len(s) /\ start - 1 + 1 = start
      BY <1>1, <2>0
    <3>2. before \o middle = SubSeq(s, 1, end)
      BY <1>1, <3>1, ConcatAdjacentSubSeq
    <3>3. end \in 1 - 1 .. Len(s) /\ Len(s) \in end .. Len(s)
      BY <1>1, <2>0
    <3>4. SubSeq(s, 1, end) \o after = SubSeq(s, 1, Len(s))
      BY <1>1, <3>1, <3>3, ConcatAdjacentSubSeq
    <3>5. SubSeq(s, 1, Len(s)) = s
      BY <1>1, SubSeqFull
    <3> QED BY <3>2, <3>4, <3>5
  <2> HIDE DEF before, middle, after
  <2>3. \A i \in 1 .. Len(middle) : middle[i][1] # "text"
    <3> SUFFICES ASSUME NEW i \in 1 .. Len(middle), middle[i][1] = "text"
                 PROVE  FALSE
      OBVIOUS
    <3> DEFINE at == start + i - 1
    <3>1. at \in 1 .. Len(s) /\ start <= at /\ at <= end /\ s[at][1] = "text"
      BY <1>1, <2>0, <2>1
    <3> HIDE DEF at
    <3>2. at # start /\ at # end
      BY <1>4, <1>5, <2>0, <3>1
    <3>3. start \in 1 .. at - 1 /\ s[start] = StartMark
      BY <1>4, <2>0, <3>1, <3>2
    <3>4. PICK k \in 1 .. at - 1 : s[k] = EndMark
      BY <1>1, <3>1, <3>3 DEF WellMarked
    <3>5. k \in 1 .. end - 1
      BY <1>1, <2>0, <3>1, <3>4
    <3> QED BY <1>4, <2>0, <3>4, <3>5
  <2>4. front \in Seq(Piece) /\ before \o middle \in Seq(Piece) /\ m \in Seq(Piece)
    BY <1>2, <2>0, <2>1, ConcatProperties
  <2>5. AllText(m) = AllText(s)
    <3>1. AllText(sec) = <<>> /\ AllText(middle) = <<>>
      BY <1>2, <2>1, <2>3, NoText
    <3>2. AllText(front) = AllText(before) \o <<>> /\ AllText(before \o middle) = AllText(before) \o <<>>
      BY <1>2, <2>1, <3>1, TextJoined
    <3> HIDE DEF front
    <3>3. AllText(m) = AllText(front) \o AllText(after) /\ AllText(s) = AllText(before \o middle) \o AllText(after)
      BY <2>0, <2>1, <2>2, <2>4, TextJoined
    <3> QED BY <3>2, <3>3
  <2>6. WellMarked(m)
    <3>1. /\ Len(front) = start + 2 /\ \A i \in 1 .. start - 1 : front[i] = s[i]
          /\ \A i \in start .. start + 2 : front[i] = sec[i - (start - 1)]
      <4>1. \A i \in 1 .. Len(before) + Len(sec) : front[i] = IF i <= Len(before) THEN before[i] ELSE sec[i - Len(before)]
        BY <1>2, <2>1, ConcatProperties
      <4>2. Len(front) = Len(before) + Len(sec)
        BY <1>2, <2>1, ConcatProperties
      <4> HIDE DEF front
      <4>3. Len(before) = start - 1 /\ Len(sec) = 3 /\ start \in Nat /\ start > 0
        BY <1>1, <1>2, <2>0, <2>1
      <4>4. \A i \in 1 .. start - 1 : front[i] = before[i]
        BY <4>1, <4>3
      <4>5. \A i \in start .. start + 2 : front[i] = sec[i - (start - 1)]
        BY <4>1, <4>3
      <4> QED BY <2>1, <4>2, <4>3, <4>4, <4>5
    <3> HIDE DEF front
    <3>2. \A i \in 1 .. start + 2 : m[i] = front[i]
      <4>1. \A i \in 1 .. Len(front) + Len(after) : m[i] = IF i <= Len(front) THEN front[i] ELSE after[i - Len(front)]
        BY <2>0, <2>1, <2>4, ConcatProperties
      <4> QED BY <1>1, <2>0, <2>1, <3>1, <4>1
    <3> SUFFICES ASSUME NEW i \in 1 .. Len(m), m[i][1] = "text", NEW j \in 1 .. i - 1, m[j] = StartMark
                 PROVE  \E k \in 1 .. i - 1 : m[k] = EndMark
      BY DEF WellMarked
    <3>3. i \in Nat /\ j \in Nat
      OBVIOUS
    <3>4. CASE i <= start - 1
      <4>1. i \in 1 .. start - 1 /\ j \in 1 .. start - 1
        BY <2>0, <3>3, <3>4
      <4>2. m[j] = s[j]
        BY <2>0, <3>1, <3>2, <4>1
      <4> QED BY <1>4, <2>0, <4>1, <4>2
    <3>5. CASE start <= i /\ i <= start + 2
      <4>1. i - (start - 1) \in 1 .. 3 /\ m[i] = sec[i - (start - 1)]
        BY <2>0, <3>1, <3>2, <3>3, <3>5
      <4> QED BY <1>2, <4>1
    <3>6. CASE i > start + 2
      <4>1. start + 2 \in 1 .. i - 1 /\ m[start + 2] = sec[3]
        <5>1. start + 2 \in start .. start + 2 /\ start + 2 \in 1 .. start + 2 /\ (start + 2) - (start - 1) = 3
          BY <2>0
        <5> QED BY <2>0, <3>1, <3>2, <3>3, <3>6, <5>1
      <4> QED BY <1>2, <4>1
    <3> QED BY <2>0, <3>3, <3>4, <3>5, <3>6
  <2> QED BY <2>4, <2>5, <2>6
<1> QED BY <1>6, <1>7

\* Files have their marks, what is planned keeps them and the human text, and while a refresh
\* is at work a file that nobody edited has the text that was read of it.
OpKeeps(op) == op.after \in Marked /\ HumanText(op.after) = HumanText(op.before)
HumanKept ==
    /\ files \in [File -> Marked \cup {Absent}]
    /\ \A p \in DOMAIN contextPlan.ops : OpKeeps(contextPlan.ops[p])
    /\ \A p \in DOMAIN refresh.ops : OpKeeps(refresh.ops[p])
    /\ refresh.at # "idle" =>
          /\ refresh.seen \in [File -> Marked \cup {Absent}]
          /\ \A p \in File \ refresh.touched : HumanText(files[p]) = HumanText(refresh.seen[p])

\* What a step may do to the text of a file.
TextKept == \A p \in File :
    files'[p] # files[p] /\ p \notin refresh'.touched => HumanText(files'[p]) = HumanText(files[p])

LEMMA HumanKeptInit ==
  ASSUME FilesMarked, ContextInit
  PROVE  HumanKept
<1>1. files \in [File -> Marked \cup {Absent}]
  BY DEF FilesMarked, ContextInit
<1>2. contextPlan.ops = <<>> /\ refresh.ops = <<>> /\ refresh.at = "idle"
  BY DEF ContextInit, NoContextPlan, NoRefresh
<1>3. DOMAIN <<>> = {}
  OBVIOUS
<1> QED BY <1>1, <1>2, <1>3 DEF HumanKept

\* Steps that leave the files alone and what the refresh has read of them.
LEMMA SameHuman ==
  ASSUME HumanKept, files' = files, refresh'.ops = refresh.ops, refresh'.seen = refresh.seen,
         refresh'.touched = refresh.touched, refresh'.at # "idle" => refresh.at # "idle",
         \A p \in DOMAIN contextPlan'.ops : OpKeeps(contextPlan'.ops[p])
  PROVE  HumanKept' /\ TextKept
BY DEF HumanKept, TextKept, OpKeeps

\* A plan merges the section into what the files hold.
LEMMA PlanKeeps ==
  ASSUME FilesMarked, ContextTyped, HumanKept, NEW p \in File
  PROVE  OpKeeps(PlanFile(p))
<1>1. files[p] \in Marked \cup {Absent}
  BY DEF HumanKept
<1>2. project \in Projects
  BY DEF ContextTyped, Projects
<1>3. PlanFile(p).after = Merge(files[p], Section(project)) /\ PlanFile(p).before = files[p]
  BY DEF PlanFile
<1> QED BY <1>1, <1>2, <1>3, MergeKeeps DEF OpKeeps

LEMMA PlanContextKeeps ==
  ASSUME FilesMarked, ContextTyped, HumanKept, NEW agents \in SUBSET Agent, PlanContext(agents)
  PROVE  HumanKept' /\ TextKept
<1> DEFINE targets == IF agents = {} THEN Detected ELSE agents
           ops == [p \in {PathOf[a] : a \in targets} |-> PlanFile(p)]
<1>1. {PathOf[a] : a \in targets} \subseteq File
  BY ContextAssumption DEF Detected, File
<1>2. contextPlan'.ops = ops /\ files' = files /\ refresh' = refresh
  BY DEF PlanContext
<1>3. \A p \in DOMAIN ops : OpKeeps(ops[p])
  BY <1>1, PlanKeeps
<1> HIDE DEF ops
<1> QED BY <1>2, <1>3, SameHuman DEF HumanKept

\* What is written when its turn comes has the text of the file, unless an editor changed it.
LEMMA WrittenKeeps ==
  ASSUME ContextInv, HumanKept, NEW p \in File, refresh.at = "write", Head1(p)
  PROVE  /\ FileOp(p).after \in Marked
         /\ p \notin refresh.touched => HumanText(FileOp(p).after) = HumanText(files[p])
<1>1. p \in ToWrite(refresh.ops) /\ p \in DOMAIN refresh.ops
  BY DEF ContextInv, ContextOrder, Writing, Head1, ToWrite
<1>2. OpKeeps(FileOp(p))
  BY <1>1 DEF HumanKept, FileOp
<1>3. ASSUME p \notin refresh.touched
      PROVE  files[p] = FileOp(p).before
  <2>1. p \notin refresh.undo
    BY DEF ContextInv, ContextOrder, Head1
  <2>2. files[p] = refresh.seen[p]
    BY <1>3, <2>1 DEF ContextInv, ContextStillSeen, NotWritten
  <2>3. refresh.seen[p] = FileOp(p).before
    BY <1>1, <1>3 DEF ContextInv, ContextSeenReviewed, Reviewed, Writing
  <2> QED BY <2>2, <2>3
<1> QED BY <1>2, <1>3 DEF OpKeeps

\* A file is replaced, by the refresh or by an editor.
LEMMA ReplacedHuman ==
  ASSUME HumanKept, NEW p \in File, NEW content \in Marked \cup {Absent},
         files' = [files EXCEPT ![p] = content], contextPlan' = contextPlan,
         refresh'.ops = refresh.ops, refresh'.seen = refresh.seen,
         refresh.touched \subseteq refresh'.touched, refresh'.at # "idle" => refresh.at # "idle",
         p \notin refresh'.touched => HumanText(content) = HumanText(files[p])
  PROVE  HumanKept' /\ TextKept
<1>1. files' \in [File -> Marked \cup {Absent}] /\ files'[p] = content /\ \A q \in File \ {p} : files'[q] = files[q]
  BY DEF HumanKept
<1>2. HumanKept'
  BY <1>1 DEF HumanKept, OpKeeps
<1>3. TextKept
  BY <1>1 DEF TextKept
<1> QED BY <1>2, <1>3

LEMMA HumanStep ==
  ASSUME FilesMarked, ContextInv, HumanKept, [ContextNext]_contextVars
  PROVE  HumanKept' /\ TextKept
<1>0. ContextTyped
  BY DEF ContextInv
<1>1. ASSUME NEW agents \in SUBSET Agent, PlanContext(agents)
      PROVE  HumanKept' /\ TextKept
  BY <1>0, <1>1, PlanContextKeeps
<1>2. CASE ContextPlanLapses \/ \E f \in Fingerprint : EditProject(f)
  <2>1. contextPlan'.ops = contextPlan.ops /\ files' = files /\ refresh' = refresh
    BY <1>0, <1>2 DEF ContextPlanLapses, EditProject, ContextTyped
  <2> QED BY <2>1, SameHuman DEF HumanKept
<1>3. CASE ApplyContext
  <2>1. /\ refresh'.at = "scan" /\ refresh'.seen = files /\ refresh'.ops = contextPlan.ops /\ refresh'.touched = {}
        /\ files' = files /\ contextPlan' = contextPlan
    BY <1>3 DEF ApplyContext, NoRefresh
  <2> QED BY <2>1 DEF HumanKept, TextKept, OpKeeps
<1>4. CASE Rescan \/ ApplyRefuses \/ Captured \/ CopyFails \/ ContextCrash
  <2>1. /\ refresh.at # "idle" /\ refresh'.seen = refresh.seen /\ refresh'.ops = refresh.ops
        /\ refresh'.touched = refresh.touched /\ files' = files /\ contextPlan' = contextPlan
    BY <1>0, <1>4 DEF Rescan, ApplyRefuses, Captured, CopyFails, ContextCrash, RefreshFailed, ContextTyped
  <2> QED BY <2>1, SameHuman DEF HumanKept
<1>5. CASE FinishRefresh
  <2>1. /\ refresh'.at = "idle" /\ refresh'.seen = refresh.seen /\ refresh'.ops = refresh.ops
        /\ refresh'.touched = refresh.touched /\ files' = files
        /\ contextPlan' = contextPlan \/ contextPlan'.ops = <<>>
    BY <1>0, <1>5 DEF FinishRefresh, ContextTyped, NoContextPlan
  <2>2. DOMAIN <<>> = {}
    OBVIOUS
  <2>3. \A p \in DOMAIN contextPlan'.ops : OpKeeps(contextPlan'.ops[p])
    BY <2>1, <2>2 DEF HumanKept
  <2> QED BY <2>1, <2>3, SameHuman
<1>6. ASSUME NEW p \in File, FileStep(p)
      PROVE  HumanKept' /\ TextKept
  <2>1. CASE Capture(p)
    <3>1. /\ refresh.at = "capture" /\ refresh'.seen = [refresh.seen EXCEPT ![p] = files[p]]
          /\ refresh'.ops = refresh.ops /\ refresh'.at = refresh.at
          /\ refresh'.touched = refresh.touched /\ files' = files /\ contextPlan' = contextPlan
      BY <1>0, <2>1 DEF Capture, ContextTyped
    <3>2. /\ refresh.seen \in [File -> Marked \cup {Absent}] /\ files[p] \in Marked \cup {Absent}
      BY <3>1 DEF HumanKept
    <3>3. /\ refresh'.seen \in [File -> Marked \cup {Absent}] /\ refresh'.seen[p] = files[p]
          /\ \A q \in File \ {p} : refresh'.seen[q] = refresh.seen[q]
      BY <3>1, <3>2
    <3> QED BY <3>1, <3>3 DEF HumanKept, TextKept, OpKeeps
  <2>2. CASE SaveCopy(p) \/ VerifyContext(p)
    <3>1. /\ refresh.at # "idle" /\ refresh'.seen = refresh.seen /\ refresh'.ops = refresh.ops
          /\ refresh'.touched = refresh.touched /\ files' = files /\ contextPlan' = contextPlan
      BY <1>0, <2>2 DEF SaveCopy, VerifyContext, RefreshFailed, ContextTyped
    <3> QED BY <3>1, SameHuman DEF HumanKept
  <2>3. CASE WriteContext(p) \/ WriteReportsError(p)
    <3>1. /\ refresh.at = "write" /\ Head1(p) /\ contextPlan' = contextPlan
          /\ refresh'.seen = refresh.seen /\ refresh'.ops = refresh.ops /\ refresh'.touched = refresh.touched
          /\ files' = files \/ files' = [files EXCEPT ![p] = FileOp(p).after]
      BY <1>0, <2>3 DEF WriteContext, WriteReportsError, PutFile, RefreshFailed, ContextTyped
    <3>2. CASE files' = files
      BY <3>1, <3>2, SameHuman DEF HumanKept
    <3>3. CASE files' = [files EXCEPT ![p] = FileOp(p).after]
      BY <3>1, <3>3, WrittenKeeps, ReplacedHuman
    <3> QED BY <3>1, <3>2, <3>3
  <2>4. CASE WriteBack(p) \/ WriteBackFails(p)
    <3>1. /\ refresh.at = "rollback" /\ contextPlan' = contextPlan
          /\ refresh'.seen = refresh.seen /\ refresh'.ops = refresh.ops /\ refresh'.touched = refresh.touched
          /\ files' = files \/ files' = [files EXCEPT ![p] = refresh.seen[p]]
      BY <1>0, <2>4 DEF WriteBack, WriteBackFails, FileUndone, ContextTyped
    <3>2. CASE files' = files
      BY <3>1, <3>2, SameHuman DEF HumanKept
    <3>3. CASE files' = [files EXCEPT ![p] = refresh.seen[p]]
      <4>1. refresh.seen[p] \in Marked \cup {Absent}
        BY <3>1 DEF HumanKept
      <4>2. p \notin refresh.touched => HumanText(refresh.seen[p]) = HumanText(files[p])
        BY <3>1 DEF HumanKept
      <4> QED BY <3>1, <3>3, <4>1, <4>2, ReplacedHuman
    <3> QED BY <3>1, <3>2, <3>3
  <2>5. ASSUME NEW content \in EditorWrites, EditFile(p, content)
        PROVE  HumanKept' /\ TextKept
    <3>1. /\ files' = [files EXCEPT ![p] = content] /\ contextPlan' = contextPlan
          /\ refresh'.seen = refresh.seen /\ refresh'.ops = refresh.ops /\ refresh'.at = refresh.at
          /\ refresh'.touched = refresh.touched \cup {p}
      BY <1>0, <2>5 DEF EditFile, ContextTyped
    <3>2. content \in Marked \cup {Absent}
      BY DEF FilesMarked
    <3> QED BY <3>1, <3>2, ReplacedHuman
  <2> QED BY <1>6, <2>1, <2>2, <2>3, <2>4, <2>5 DEF FileStep
<1>7. CASE UNCHANGED contextVars
  BY <1>7, SameHuman DEF contextVars, HumanKept
<1> QED BY <1>1, <1>2, <1>3, <1>4, <1>5, <1>6, <1>7 DEF ContextNext

-----------------------------------------------------------------------------
(* All the parts.  Each is proved on its own; whatever part a behaviour is  *)
(* about, the invariants of all hold, since the others stay as they began.  *)

FabricInv ==
    /\ RoutineInv
    /\ LinkInv /\ WholeInv /\ LinkBounded
    /\ HubInv
    /\ ContextInv
    /\ PackTyped
    /\ ReplaceInv /\ ReplacementTypeOK
    /\ DeskInv

LEMMA FabricInvInit == FabricInit => FabricInv
<1> SUFFICES ASSUME FabricInit
             PROVE  FabricInv
  OBVIOUS
<1>1. Init /\ LinkInit /\ HubInit /\ ContextInit /\ PackInit /\ ReplacementInit /\ DeskInit
  BY DEF FabricInit
<1>2. RoutineInv /\ LinkInv /\ WholeInv /\ LinkBounded
  BY <1>1, RoutineInvInit, LinkInvInit, WholeInvInit, LinkBoundedInit
<1>3. HubInv /\ ContextInv /\ PackTyped
  BY <1>1, HubInvInit, ContextInvInit, PackTypedInit
<1>4. ReplaceInv /\ ReplacementTypeOK /\ DeskInv
  BY <1>1, ReplaceInvInit, ReplacementTypedInit, DeskInvInit
<1> QED BY <1>2, <1>3, <1>4 DEF FabricInv

\* A step of the fabric is a step of one part and leaves the others alone.
LEMMA FabricInvStep == FabricInv /\ [FabricNext]_fabricVars => FabricInv'
<1> SUFFICES ASSUME FabricInv, [FabricNext]_fabricVars
             PROVE  FabricInv'
  OBVIOUS
<1>1. /\ [Next]_vars /\ [LinkNext]_linkVars /\ [HubNext]_hubVars /\ [ContextNext]_contextVars
      /\ [PackNext]_packVars /\ [ReplacementNext]_replaceVars /\ [DeskNext]_deskVars
  BY DEF FabricNext, fabricVars
<1>2. RoutineInv' /\ LinkInv' /\ WholeInv' /\ LinkBounded'
  BY <1>1, RoutineInvStep, LinkInvStep, WholeInvStep, LinkBoundedStep DEF FabricInv
<1>3. HubInv' /\ ContextInv' /\ PackTyped'
  BY <1>1, HubInvStep, ContextInvStep, PackTypedStep DEF FabricInv
<1>4. ReplaceInv' /\ ReplacementTypeOK' /\ DeskInv'
  BY <1>1, ReplaceInvStep, ReplacementTypedStep, DeskInvStep DEF FabricInv
<1> QED BY <1>2, <1>3, <1>4 DEF FabricInv

\* The variables of every part have their types, whatever the bounds, and no error path of
\* the resource hub keeps its lock file.
THEOREM FabricTypeCorrect == FabricSpec => []FabricTypeOK
<1>1. FabricInv => FabricTypeOK
  <2> SUFFICES ASSUME FabricInv
               PROVE  FabricTypeOK
    OBVIOUS
  <2>1. TypeOK /\ LinkTypeOK /\ HubTypeOK /\ LocksReleased /\ ContextTypeOK
    BY RoutineTypes, LinkTypes, HubTypes, ContextTypes DEF FabricInv
  <2>2. PackTypeOK /\ ReplacementTypeOK /\ DeskTypeOK
    BY DEF FabricInv, PackTyped, DeskInv
  <2> QED BY <2>1, <2>2 DEF FabricTypeOK
<1> QED BY <1>1, FabricInvInit, FabricInvStep, PTL DEF FabricSpec

\* Apply of the client links, the jobs of the resource hub and the refresh of the generated
\* context change all that was reviewed or nothing, over what nobody else edits meanwhile.
THEOREM FabricTransactional == FabricSpec => []AllOrNothing
<1>1. FabricInv => AllOrNothing
  BY DEF FabricInv, WholeInv, HubInv, ContextInv, AllOrNothing
<1> QED BY <1>1, FabricInvInit, FabricInvStep, PTL DEF FabricSpec

\* Whatever fails or crashes, what a job of the hub, a refresh of the context or a
\* replacement of a file has found is still there, beside its place or among the backups.
THEOREM FabricNothingLost == FabricSpec => []NothingLost
<1>1. FabricInv => NothingLost
  BY DEF FabricInv, HubInv, ContextInv, ReplaceInv, NothingLost
<1> QED BY <1>1, FabricInvInit, FabricInvStep, PTL DEF FabricSpec

\* The operations of the manager page: whoever got a receipt can read the outcome until as many
\* operations as the store keeps have ended after it or still run, however many are accepted,
\* and the page is locked exactly while a worker or a request is at work.
THEOREM FabricOperationsAnswered == FabricSpec => []OperationsAnswered
<1>1. FabricInv => OperationsAnswered
  BY DEF FabricInv, DeskInv
<1> QED BY <1>1, FabricInvInit, FabricInvStep, PTL DEF FabricSpec

\* ApplySync and ApplyRefresh keep what is not AgentStack's: destinations that nothing manages,
\* and the human text of context files whose section has both its marks.
THEOREM FabricForeignKept ==
  ASSUME FilesMarked
  PROVE  FabricSpec => ForeignKept
<1>1. FabricInit => HumanKept
  BY HumanKeptInit DEF FabricInit
<1>2. FabricInv /\ HumanKept /\ [FabricNext]_fabricVars => HumanKept' /\ [TextKept]_contextVars
  <2> SUFFICES ASSUME FabricInv, HumanKept, [FabricNext]_fabricVars
               PROVE  HumanKept' /\ TextKept
    OBVIOUS
  <2>1. [ContextNext]_contextVars
    BY DEF FabricNext, fabricVars
  <2> QED BY <2>1, HumanStep DEF FabricInv
<1>3. FabricInv /\ [FabricNext]_fabricVars =>
        [\A r \in Resource :
            dest'[r] # dest[r] =>
                \/ r \in act'.touched \/ r \in act.undo
                \/ dest[r] \in {None, managed[r]}
                \/ act.job = "sync" /\ r \in DOMAIN act.ops /\ dest[r] = act.ops[r].recorded]_hubVars
  <2> SUFFICES ASSUME FabricInv, [FabricNext]_fabricVars
               PROVE  [\A r \in Resource :
            dest'[r] # dest[r] =>
                \/ r \in act'.touched \/ r \in act.undo
                \/ dest[r] \in {None, managed[r]}
                \/ act.job = "sync" /\ r \in DOMAIN act.ops /\ dest[r] = act.ops[r].recorded]_hubVars
    OBVIOUS
  <2>1. [HubNext]_hubVars
    BY DEF FabricNext, fabricVars
  <2> QED BY <2>1, ForeignDestinationStep DEF FabricInv
<1>4. FabricSpec => [][TextKept]_contextVars
  BY <1>1, <1>2, FabricInvInit, FabricInvStep, PTL DEF FabricSpec
<1>5. FabricSpec => ForeignDestinationsKept
  BY <1>3, FabricInvInit, FabricInvStep, PTL DEF FabricSpec, ForeignDestinationsKept
<1> QED BY <1>4, <1>5 DEF ForeignKept, HumanTextPreserved, TextKept
=============================================================================
