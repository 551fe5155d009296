------------------------ MODULE MutationLease_proofs -------------------------
(***************************************************************************)
(* Proofs about the mutation lease for any number of callers, processes    *)
(* and nonces.  Type correctness needs no assumption.  Mutual exclusion    *)
(* and what follows from it are proved for machines on which acquisitions  *)
(* overlap neither each other nor a heartbeat that has the record aside,   *)
(* and on which no live holder is suspended for longer than staleAfter;    *)
(* without any one of these hypotheses TLC finds it violated.              *)
(***************************************************************************)
EXTENDS MutationLease, TLAPS

\* The loop variable counts the iterations begun.
AttemptCount == \A o \in Op :
    /\ pc[o] = "idle" => attempt[o] = 0
    /\ pc[o] = "retry" => attempt[o] < MaxAttempts

\* A caller that has created the file knows the nonce it put there.
NonceKnown == \A o \in Op :
    pc[o] = "created" \/ Holding(o) => nonce[o] \in Nonce

TypeInv == TypeOK /\ AttemptCount /\ NonceKnown

\* Initially nobody has begun an attempt.
LEMMA TypeInvInit == Init => TypeInv
  BY LeaseAssumption
  DEF Init, TypeInv, TypeOK, AttemptCount, NonceKnown, Holding, PC, Replacing, MaxAttempts

\* Every step keeps the types, the count of attempts and the nonces known.
LEMMA TypeInvStep == TypeInv /\ [Next]_vars => TypeInv'
<1> SUFFICES ASSUME TypeInv, [Next]_vars
             PROVE  TypeInv'
  OBVIOUS
<1> USE LeaseAssumption DEF TypeInv, TypeOK, AttemptCount, NonceKnown, Holding, PC, Replacing, MaxAttempts, File
<1>1. ASSUME NEW o \in Op, AcquireStep(o)
      PROVE  TypeInv'
  <2>1. CASE OpenCreates(o)
    BY <2>1 DEF OpenCreates, StartAttempt, Goto
  <2>2. CASE OpenFindsFile(o)
    BY <2>2 DEF OpenFindsFile, StartAttempt, Goto
  <2>3. CASE WriteRecord(o)
    <3>1. lock' \in File \cup {NoFile}
      <4>1. CASE lock # NoFile /\ lock.nonce = nonce[o]
        BY <2>3, <4>1 DEF WriteRecord
      <4>2. CASE ~(lock # NoFile /\ lock.nonce = nonce[o])
        BY <2>3, <4>2 DEF WriteRecord
      <4> QED BY <4>1, <4>2
    <3> QED BY <2>3, <3>1 DEF WriteRecord, Goto
  <2>4. CASE WriteFails(o)
    BY <2>4 DEF WriteFails, Leave, Goto
  <2>5. CASE InspectStale(o) \/ InspectBusy(o)
    BY <2>5 DEF InspectStale, InspectBusy, Leave, Goto
  <2>6. CASE StealRenames(o)
    BY <2>6 DEF StealRenames, Leave, Goto
  <2>7. CASE StealFindsNothing(o) \/ StealFails(o)
    BY <2>7 DEF StealFindsNothing, StealFails, Leave, Goto
  <2> QED BY <1>1, <2>1, <2>2, <2>3, <2>4, <2>5, <2>6, <2>7 DEF AcquireStep
<1>2. ASSUME NEW o \in Op, HolderStep(o)
      PROVE  TypeInv'
  <2>1. CASE TouchRead(o) \/ TouchCheck(o) \/ TouchStages(o) \/ TouchPlaceFails(o)
             \/ TouchRestoreFails(o) \/ TouchFails(o) \/ BeginClose(o)
    BY <2>1 DEF TouchRead, TouchCheck, TouchStages, TouchPlaceFails, TouchRestoreFails,
                TouchFails, BeginClose, Goto
  <2>2. CASE TouchReplace(o) \/ TouchPlaces(o)
    <3>1. Renewed(o) \in File
      BY <2>2 DEF TouchReplace, TouchPlaces, Renewed
    <3> QED BY <2>2, <3>1 DEF TouchReplace, TouchPlaces, Goto
  <2>3. CASE TouchSetsAside(o)
    BY <2>3 DEF TouchSetsAside, Goto
  <2>4. CASE TouchUndoes(o) \/ TouchRestores(o)
    BY <2>4 DEF TouchUndoes, TouchRestores, Goto
  <2>5. CASE CloseRead(o) \/ CloseRemove(o) \/ CloseFails(o)
    BY <2>5 DEF CloseRead, CloseRemove, CloseFails, Leave, Goto
  <2> QED BY <1>2, <2>1, <2>2, <2>3, <2>4, <2>5 DEF HolderStep, TouchStep, CloseStep
<1>3. ASSUME NEW p \in Pid, Crash(p) \/ StartProcess(p)
      PROVE  TypeInv'
  BY <1>3 DEF Crash, StartProcess
<1>4. CASE Age
  BY <1>4 DEF Age, Readable
<1>5. CASE UNCHANGED vars
  BY <1>5 DEF vars
<1> QED BY <1>1, <1>2, <1>3, <1>4, <1>5 DEF Next

\* Every state the lease can be in is well typed; in particular AcquireLease
\* never begins a third iteration.
THEOREM TypeCorrect == Spec => []TypeOK
<1>1. TypeInv => TypeOK
  BY DEF TypeInv
<1> QED BY <1>1, TypeInvInit, TypeInvStep, PTL DEF Spec

-----------------------------------------------------------------------------
(***************************************************************************)
(* Mutual exclusion is not inductive: it needs the fact that ties each     *)
(* caller's control point to what is at the lock path or has been renamed  *)
(* aside by the holder.  The heart of it is StealSafe: once a record has   *)
(* been judged abandoned, no caller holds a lease until the judge itself   *)
(* has moved the record aside and created its own.  Overlapping            *)
(* acquisitions break exactly this conjunct; acquisitions that look at the *)
(* path while the record is aside break Apart.                             *)
(***************************************************************************)

\* A caller inside the lease code runs in a live process.
Running == \A o \in Op : pc[o] # "idle" => PidOf[o] \in alive

\* Acquisitions do not overlap.
OneAcquirer == \A o, q \in Op : Acquiring(o) /\ Acquiring(q) => o = q

\* A created file that has no text yet is at the path.
CreatedOwns == \A o \in Op :
    pc[o] = "created" =>
        /\ lock # NoFile /\ ~lock.written /\ lock.fresh
        /\ lock.nonce = nonce[o] /\ lock.pid = PidOf[o]

\* A file is a young record of the caller, with its text.
RecordOf(o, file) ==
    /\ file # NoFile /\ file.written /\ file.fresh
    /\ file.nonce = nonce[o] /\ file.pid = PidOf[o]

\* A holder's record is at the path, or aside; then nobody else's is at the path.
HolderOwns == \A o \in Op : Holding(o) =>
    \/ RecordOf(o, lock)
    \/ lock = NoFile /\ RecordOf(o, aside[o])

\* What is aside is the record of a holder, and no acquisition is under way.
Apart == \A o \in Op : Away(o) =>
    /\ Holding(o) /\ RecordOf(o, aside[o])
    /\ \A q \in Op : ~Acquiring(q)

\* Between the two renames, and until the old record is back, it is aside.
AsideKnown == \A o \in Op : pc[o] \in {"placing", "undoing", "restoring"} => Away(o)

\* Nonces in use are distinct.
NonceDistinct == \A o, q \in Op :
    nonce[o] = nonce[q] /\ nonce[o] \in Nonce => o = q

\* A record judged abandoned has no holder.
StealSafe == \A o, q \in Op :
    pc[o] \in {"stealing", "retry"} => ~Holding(q)

LeaseInv ==
    /\ TypeInv
    /\ Running
    /\ OneAcquirer
    /\ CreatedOwns
    /\ HolderOwns
    /\ Apart
    /\ AsideKnown
    /\ NonceDistinct
    /\ StealSafe
    /\ SecondAttemptCreates
    /\ MutualExclusion

\* Initially nobody is inside the lease code.
LEMMA LeaseInvInit == Init => LeaseInv
  BY LeaseAssumption
  DEF Init, LeaseInv, TypeInv, TypeOK, AttemptCount, NonceKnown, PC, Replacing, MaxAttempts,
      Running, OneAcquirer, CreatedOwns, HolderOwns, Apart, AsideKnown, NonceDistinct, StealSafe,
      SecondAttemptCreates, MutualExclusion, Acquiring, Holding, Away

\* A caller that begins an iteration is the only one that acquires, and no record is aside.
LEMMA StartsAlone ==
    ASSUME Overlap = {}, LeaseInv, NEW o \in Op, StartAttempt(o)
    PROVE  /\ \A q \in Op : Acquiring(q) => q = o
           /\ \A q \in Op : ~Away(q)
<1>1. CASE pc[o] = "retry"
  <2>1. Acquiring(o)
    BY <1>1 DEF Acquiring
  <2> QED BY <2>1 DEF LeaseInv, OneAcquirer, Apart
<1>2. CASE pc[o] = "idle"
  BY <1>2 DEF StartAttempt, NoneAcquiring
<1> QED BY <1>1, <1>2 DEF StartAttempt

\* While an acquisition is under way every holder's record is at the path.
LEMMA HolderAtPath ==
    ASSUME LeaseInv, NEW o \in Op, Acquiring(o)
    PROVE  \A q \in Op : ~Away(q) /\ (Holding(q) => RecordOf(q, lock))
<1>1. \A q \in Op : ~Away(q)
  BY DEF LeaseInv, Apart
<1> QED BY <1>1 DEF LeaseInv, HolderOwns, Away, RecordOf

\* The record a holder has renewed in its temporary file is its record.
LEMMA RenewedIsRecord ==
    ASSUME LeaseInv, NEW o \in Op, Holding(o)
    PROVE  Renewed(o) \in File /\ RecordOf(o, Renewed(o))
<1>1. nonce[o] \in Nonce /\ PidOf[o] \in Pid
  BY LeaseAssumption DEF LeaseInv, TypeInv, NonceKnown
<1>2. Renewed(o) \in File
  BY <1>1 DEF Renewed, File
<1>3. Renewed(o) # NoFile
  BY <1>2, LeaseAssumption
<1> QED BY <1>2, <1>3 DEF Renewed, RecordOf

\* The file at the path, or else the file aside, is the caller's own record.
HolderPlaced(o) ==
    /\ RecordOf(o, lock) \/ (lock = NoFile /\ RecordOf(o, aside[o]))
    /\ Away(o) => RecordOf(o, aside[o])
    /\ pc[o] \in {"placing", "undoing", "restoring"} => Away(o)

\* If the caller's record is aside after the step, no acquisition was under way before it.
Undisturbed(o) == aside'[o] # NoFile => \A q \in Op : ~Acquiring(q)

\* While somebody holds the lease nobody else does, nobody has created a file,
\* and nobody has judged one to be stale.
LEMMA BesideHolder ==
    ASSUME LeaseInv, NEW o \in Op, Holding(o)
    PROVE  \A q \in Op : pc[q] \notin {"created", "stealing", "retry"} /\ (Holding(q) => q = o)
<1>1. \A q \in Op : pc[q] \notin {"stealing", "retry"} /\ (Holding(q) => q = o)
  BY DEF LeaseInv, StealSafe, MutualExclusion
<1>2. \A q \in Op : pc[q] # "created"
  BY HolderAtPath DEF LeaseInv, CreatedOwns, RecordOf, Acquiring
<1> QED BY <1>1, <1>2

\* A step of a holder that stays one keeps the invariant when it leaves its own
\* record at the path or aside.
LEMMA HolderMoves ==
    ASSUME LeaseInv, NEW o \in Op, Holding(o), Holding(o)', TypeInv', UNCHANGED <<alive, nonce>>,
           \A q \in Op \ {o} : pc'[q] = pc[q] /\ aside'[q] = aside[q],
           HolderPlaced(o)', Undisturbed(o)
    PROVE  LeaseInv'
<1>1. \A q \in Op : pc[q] \notin {"created", "stealing", "retry"} /\ (Holding(q) => q = o)
  BY BesideHolder
<1>2. \A q \in Op : /\ (Holding(q) => q = o)'
                     /\ (Acquiring(q)' => Acquiring(q) /\ q # o)
                     /\ pc'[q] \notin {"created", "stealing", "retry"}
  BY <1>1 DEF Holding, Acquiring, Replacing
<1>3. \A q \in Op \ {o} : ~Away(q)'
  <2> SUFFICES ASSUME NEW q \in Op, q # o, Away(q) PROVE FALSE
    BY DEF Away
  <2> QED BY <1>1 DEF LeaseInv, Apart
<1>4. Running' /\ NonceDistinct' /\ OneAcquirer'
  BY <1>2 DEF LeaseInv, Running, NonceDistinct, OneAcquirer, Holding, Replacing
<1>5. CreatedOwns' /\ StealSafe' /\ SecondAttemptCreates' /\ MutualExclusion'
  BY <1>2 DEF CreatedOwns, StealSafe, SecondAttemptCreates, MutualExclusion
<1>6. HolderOwns'
  BY <1>2 DEF HolderOwns, HolderPlaced
<1>7. Apart'
  BY <1>2, <1>3 DEF Apart, HolderPlaced, Undisturbed, Away
<1>8. AsideKnown'
  <2>1. \A q \in Op \ {o} : pc'[q] \notin {"placing", "undoing", "restoring"}
    BY <1>2 DEF Holding, Replacing
  <2> QED BY <2>1 DEF AsideKnown, HolderPlaced
<1> QED BY <1>4, <1>5, <1>6, <1>7, <1>8 DEF LeaseInv

\* Every step keeps the lease invariant when acquisitions overlap nothing and no
\* live holder looks stale.
LEMMA LeaseInvStep ==
    ASSUME Overlap = {}, ~Suspend, LeaseInv, [Next]_vars
    PROVE  LeaseInv'
<1>1. TypeInv'
  BY TypeInvStep DEF LeaseInv
<1>2. TypeOK
  BY DEF LeaseInv, TypeInv
<1> USE LeaseAssumption
    DEF LeaseInv, TypeOK, Running, OneAcquirer, CreatedOwns, HolderOwns, Apart, AsideKnown,
        NonceDistinct, StealSafe, SecondAttemptCreates, MutualExclusion,
        RecordOf, Away, Acquiring, Holding, Replacing, HolderPlaced, Undisturbed
<1>3. ASSUME NEW o \in Op, OpenCreates(o)
      PROVE  LeaseInv'
  <2>1. PICK n \in Nonce :
          /\ FreshNonce(n)
          /\ nonce' = [nonce EXCEPT ![o] = n]
          /\ lock' = [nonce |-> n, pid |-> PidOf[o], written |-> FALSE, fresh |-> TRUE]
    BY <1>3 DEF OpenCreates
  <2>2. /\ PidOf[o] \in alive
        /\ pc' = [pc EXCEPT ![o] = "created"]
        /\ lock = NoFile
        /\ UNCHANGED <<alive, aside>>
    BY <1>3 DEF OpenCreates, StartAttempt, Goto
  <2>3. /\ \A q \in Op : Acquiring(q) => q = o
        /\ \A q \in Op : ~Away(q)
    BY <1>3, StartsAlone DEF OpenCreates
  <2>4. lock' \in File /\ lock' # NoFile
    <3>1. PidOf[o] \in Pid
      OBVIOUS
    <3>2. lock' \in File
      BY <2>1, <3>1 DEF File
    <3> QED BY <3>2
  <2>5. \A q \in Op : ~Holding(q)
    BY <2>2, <2>3
  <2>6. \A q \in Op : ~Holding(q)' /\ ~Away(q)'
    BY <1>2, <2>2, <2>3, <2>5
  <2>7. Running' /\ OneAcquirer' /\ StealSafe' /\ SecondAttemptCreates'
    BY <1>2, <2>2, <2>3, <2>6
  <2>8. CreatedOwns'
    BY <1>2, <2>1, <2>2, <2>3, <2>4
  <2>9. HolderOwns' /\ Apart' /\ MutualExclusion'
    BY <2>6
  <2>10. AsideKnown'
    BY <2>6
  <2>11. NonceDistinct'
    BY <1>2, <2>1 DEF FreshNonce
  <2> QED BY <1>1, <2>7, <2>8, <2>9, <2>10, <2>11
<1>4. ASSUME NEW o \in Op, OpenFindsFile(o)
      PROVE  LeaseInv'
  <2>1. /\ PidOf[o] \in alive
        /\ pc' = [pc EXCEPT ![o] = "exists"]
        /\ lock # NoFile
        /\ UNCHANGED <<lock, alive, nonce, aside>>
    BY <1>4 DEF OpenFindsFile, StartAttempt, Goto
  <2>2. /\ \A q \in Op : Acquiring(q) => q = o
        /\ \A q \in Op : ~Away(q)
    BY <1>4, StartsAlone DEF OpenFindsFile
  <2>3. pc[o] \in {"idle", "retry"}
    BY <1>4 DEF OpenFindsFile, StartAttempt
  <2>4. \A q \in Op : q # o => pc'[q] = pc[q]
    BY <1>2, <2>1
  <2>5. pc'[o] = "exists"
    BY <1>2, <2>1
  <2> QED BY <1>1, <2>1, <2>2, <2>3, <2>4, <2>5
<1>5. ASSUME NEW o \in Op, WriteRecord(o)
      PROVE  LeaseInv'
  <2>1. /\ lock # NoFile /\ lock.nonce = nonce[o] /\ lock.pid = PidOf[o] /\ ~lock.written
        /\ lock.fresh /\ pc[o] = "created" /\ Acquiring(o)
    BY <1>5 DEF WriteRecord
  <2>2. lock' = [lock EXCEPT !.written = TRUE]
    BY <1>5, <2>1 DEF WriteRecord
  <2>3. pc' = [pc EXCEPT ![o] = "held"] /\ UNCHANGED <<alive, nonce, aside>>
    BY <1>5 DEF WriteRecord, Goto
  <2>4. \A q \in Op : ~Away(q) /\ ~Holding(q) /\ (Acquiring(q) => q = o)
    BY <2>1, HolderAtPath
  <2>5. lock' \in File /\ RecordOf(o, lock')
    <3>1. lock \in File
      BY <1>2, <2>1
    <3>2. lock' \in File
      BY <2>2, <3>1 DEF File
    <3>3. lock'.written /\ lock'.fresh /\ lock'.nonce = lock.nonce /\ lock'.pid = lock.pid
      BY <2>1, <2>2, <3>1 DEF File
    <3> QED BY <2>1, <3>2, <3>3
  <2>6. pc'[o] = "held" /\ \A q \in Op : q # o => pc'[q] = pc[q]
    BY <1>2, <2>3
  <2>7. \A q \in Op : ~Acquiring(q)' /\ ~Away(q)' /\ (Holding(q)' => q = o)
    BY <2>3, <2>4, <2>6
  <2>8. HolderOwns'
    BY <2>3, <2>5, <2>7
  <2>9. CreatedOwns' /\ Apart' /\ StealSafe' /\ SecondAttemptCreates' /\ OneAcquirer' /\ MutualExclusion'
    BY <2>7
  <2>10. AsideKnown'
    BY <2>4, <2>6
  <2>11. Running' /\ NonceDistinct'
    BY <2>1, <2>3, <2>6
  <2> QED BY <1>1, <2>8, <2>9, <2>10, <2>11
<1>6. ASSUME NEW o \in Op, WriteFails(o)
      PROVE  LeaseInv'
  <2>1. /\ pc[o] = "created" /\ Acquiring(o) /\ ~lock.written
        /\ lock' \in {NoFile, lock} /\ Leave(o) /\ UNCHANGED alive
    BY <1>6 DEF WriteFails
  <2>2. \A q \in Op : ~Away(q) /\ ~Holding(q) /\ (Acquiring(q) => q = o)
    BY <2>1, HolderAtPath
  <2>3. pc'[o] = "idle" /\ nonce'[o] = NoNonce /\ aside'[o] = NoFile
    BY <1>2, <2>1 DEF Leave, Goto
  <2>4. \A q \in Op : q # o => pc'[q] = pc[q] /\ nonce'[q] = nonce[q] /\ aside'[q] = aside[q]
    BY <1>2, <2>1 DEF Leave, Goto
  <2>5. \A q \in Op : ~Acquiring(q)' /\ ~Away(q)' /\ ~Holding(q)'
    BY <2>2, <2>3, <2>4
  <2>6. NonceDistinct'
    BY <2>3, <2>4
  <2>7. Running'
    BY <2>1, <2>3, <2>4
  <2> QED BY <1>1, <2>5, <2>6, <2>7
<1>7. ASSUME NEW o \in Op, InspectStale(o)
      PROVE  LeaseInv'
  <2>1. /\ pc[o] = "exists" /\ Acquiring(o) /\ ~JudgedLive
        /\ UNCHANGED <<lock, alive, nonce, aside>>
    BY <1>7 DEF InspectStale
  <2>2. \A q \in Op : ~Holding(q)
    BY <2>1, HolderAtPath DEF JudgedLive, Readable
  <2>3. pc'[o] = "stealing" /\ \A q \in Op : q # o => pc'[q] = pc[q]
    BY <1>2, <1>7 DEF InspectStale, Goto
  <2> QED BY <1>1, <2>1, <2>2, <2>3
<1>8. ASSUME NEW o \in Op, InspectBusy(o) \/ StealFindsNothing(o) \/ StealFails(o)
      PROVE  LeaseInv'
  <2>1. /\ pc[o] \in {"exists", "stealing"} /\ Acquiring(o)
        /\ Leave(o) /\ UNCHANGED <<lock, alive>>
    BY <1>8 DEF InspectBusy, StealFindsNothing, StealFails
  <2>2. pc'[o] = "idle" /\ nonce'[o] = NoNonce /\ aside'[o] = NoFile
    BY <1>2, <2>1 DEF Leave, Goto
  <2>3. \A q \in Op : q # o => pc'[q] = pc[q] /\ nonce'[q] = nonce[q] /\ aside'[q] = aside[q]
    BY <1>2, <2>1 DEF Leave, Goto
  <2> QED BY <1>1, <2>1, <2>2, <2>3
<1>9. ASSUME NEW o \in Op, StealRenames(o)
      PROVE  LeaseInv'
  <2>1. /\ pc[o] = "stealing" /\ Acquiring(o) /\ lock' = NoFile /\ UNCHANGED alive
        /\ \/ pc' = [pc EXCEPT ![o] = "retry"] /\ UNCHANGED <<nonce, aside>>
           \/ Leave(o)
    BY <1>9 DEF StealRenames, Goto
  <2>2. \A q \in Op : ~Away(q) /\ ~Holding(q) /\ (Acquiring(q) => q = o)
    BY <2>1, HolderAtPath
  <2>3. /\ pc'[o] \in {"retry", "idle"} /\ nonce'[o] \in {nonce[o], NoNonce}
        /\ aside'[o] \in {aside[o], NoFile}
    BY <1>2, <2>1 DEF Leave, Goto
  <2>4. \A q \in Op : q # o => pc'[q] = pc[q] /\ nonce'[q] = nonce[q] /\ aside'[q] = aside[q]
    BY <1>2, <2>1 DEF Leave, Goto
  <2>5. \A q \in Op : ~Away(q)' /\ ~Holding(q)' /\ (Acquiring(q)' => q = o) /\ pc'[q] # "created"
    BY <2>1, <2>2, <2>3, <2>4
  <2> QED BY <1>1, <2>1, <2>3, <2>4, <2>5
<1>10. ASSUME NEW o \in Op,
              TouchRead(o) \/ TouchCheck(o) \/ TouchStages(o) \/ TouchPlaceFails(o)
              \/ TouchRestoreFails(o) \/ TouchFails(o) \/ BeginClose(o) \/ (CloseRead(o) /\ Mine(o))
       PROVE  LeaseInv'
  <2>1. UNCHANGED <<lock, alive, nonce, aside>> /\ Holding(o)
    BY <1>10 DEF TouchRead, TouchCheck, TouchStages, TouchPlaceFails, TouchRestoreFails,
                 TouchFails, BeginClose, CloseRead
  <2>2. /\ Holding(o)' /\ \A q \in Op \ {o} : pc'[q] = pc[q]
        /\ pc'[o] \in {"placing", "undoing", "restoring"} => pc[o] = "placing"
    BY <1>2, <1>10
    DEF TouchRead, TouchCheck, TouchStages, TouchPlaceFails, TouchRestoreFails,
        TouchFails, BeginClose, CloseRead, Goto
  <2>3. HolderPlaced(o)' /\ Undisturbed(o)
    BY <2>1, <2>2
  <2> QED BY <1>1, <2>1, <2>2, <2>3, HolderMoves
<1>11. ASSUME NEW o \in Op, TouchReplace(o) \/ TouchPlaces(o)
       PROVE  LeaseInv'
  <2>1. /\ lock' = Renewed(o) /\ UNCHANGED <<alive, nonce>> /\ Holding(o)
        /\ pc[o] = "placing" \/ (UNCHANGED aside /\ pc'[o] \in {"held", "closing"})
    BY <1>2, <1>11 DEF TouchReplace, TouchPlaces, Goto
  <2>2. /\ pc'[o] \in {"held", "closing", "undoing"}
        /\ \A q \in Op \ {o} : pc'[q] = pc[q] /\ aside'[q] = aside[q]
        /\ aside'[o] = NoFile \/ aside'[o] = aside[o]
        /\ pc'[o] = "undoing" => aside'[o] = aside[o] /\ pc[o] = "placing"
    BY <1>2, <1>11 DEF TouchReplace, TouchPlaces, Goto
  <2>3. RecordOf(o, lock)'
    BY <2>1, RenewedIsRecord
  <2>4. HolderPlaced(o)' /\ Undisturbed(o)
    BY <2>1, <2>2, <2>3
  <2> QED BY <1>1, <2>1, <2>2, <2>4, HolderMoves
<1>12. ASSUME NEW o \in Op, TouchSetsAside(o)
       PROVE  LeaseInv'
  <2>1. /\ lock # NoFile /\ lock' = NoFile /\ UNCHANGED <<alive, nonce>> /\ Holding(o)
        /\ \A q \in Op : ~Acquiring(q)
    BY <1>12 DEF TouchSetsAside, NoneAcquiring
  <2>2. /\ pc'[o] = "placing" /\ aside'[o] = lock
        /\ \A q \in Op \ {o} : pc'[q] = pc[q] /\ aside'[q] = aside[q]
    BY <1>2, <1>12 DEF TouchSetsAside, Goto
  <2>3. RecordOf(o, lock)
    BY <2>1
  <2>4. HolderPlaced(o)' /\ Undisturbed(o)
    BY <2>1, <2>2, <2>3
  <2> QED BY <1>1, <2>1, <2>2, <2>4, HolderMoves
<1>13. ASSUME NEW o \in Op, TouchUndoes(o) \/ TouchRestores(o)
       PROVE  LeaseInv'
  <2>1. /\ pc[o] \in {"undoing", "restoring"} /\ Holding(o) /\ UNCHANGED <<alive, nonce>>
        /\ Away(o) /\ RecordOf(o, aside[o]) /\ \A q \in Op : ~Acquiring(q)
    BY <1>13 DEF TouchUndoes, TouchRestores
  <2>2. /\ \/ pc'[o] = "restoring" /\ aside'[o] = aside[o] /\ lock' \in {NoFile, lock}
           \/ pc'[o] = "closing" /\ aside'[o] = NoFile /\ lock' = aside[o]
        /\ \A q \in Op \ {o} : pc'[q] = pc[q] /\ aside'[q] = aside[q]
    BY <1>2, <1>13 DEF TouchUndoes, TouchRestores, Goto
  <2>3. HolderPlaced(o)' /\ Undisturbed(o)
    BY <2>1, <2>2
  <2> QED BY <1>1, <2>1, <2>2, <2>3, HolderMoves
<1>14. ASSUME NEW o \in Op, (CloseRead(o) /\ ~Mine(o)) \/ CloseRemove(o) \/ CloseFails(o)
       PROVE  LeaseInv'
  <2>1. /\ Holding(o) /\ Leave(o) /\ lock' \in {NoFile, lock} /\ UNCHANGED alive
    BY <1>14 DEF CloseRead, CloseRemove, CloseFails
  <2>2. pc'[o] = "idle" /\ nonce'[o] = NoNonce /\ aside'[o] = NoFile
    BY <1>2, <2>1 DEF Leave, Goto
  <2>3. \A q \in Op : q # o => pc'[q] = pc[q] /\ nonce'[q] = nonce[q] /\ aside'[q] = aside[q]
    BY <1>2, <2>1 DEF Leave, Goto
  <2>4. \A q \in Op : pc[q] \notin {"created", "stealing", "retry"} /\ (Holding(q) => q = o)
    BY <2>1, BesideHolder
  <2>5. \A q \in Op : ~Holding(q)' /\ ~Away(q)' /\ pc'[q] \notin {"created", "stealing", "retry"}
    BY <2>2, <2>3, <2>4
  <2> QED BY <1>1, <2>1, <2>2, <2>3, <2>5
<1>15. ASSUME NEW p \in Pid, Crash(p)
       PROVE  LeaseInv'
  <2>1. \A q \in Op : /\ PidOf[q] = p => pc'[q] = "idle" /\ nonce'[q] = NoNonce /\ aside'[q] = NoFile
                      /\ PidOf[q] # p => pc'[q] = pc[q] /\ nonce'[q] = nonce[q] /\ aside'[q] = aside[q]
    BY <1>15 DEF Crash
  <2>2. lock' = lock /\ alive' = alive \ {p}
    BY <1>15 DEF Crash
  <2> QED BY <1>1, <2>1, <2>2
<1>16. ASSUME NEW p \in Pid, StartProcess(p)
       PROVE  LeaseInv'
  <2>1. alive' = alive \cup {p} /\ UNCHANGED <<lock, pc, nonce, aside>>
    BY <1>16 DEF StartProcess
  <2> QED BY <1>1, <2>1
<1>17. CASE Age
  <2>1. /\ lock # NoFile /\ lock' = [lock EXCEPT !.fresh = FALSE]
        /\ \A q \in Op : nonce[q] # lock.nonce
        /\ UNCHANGED <<alive, pc, nonce, aside>>
    BY <1>17 DEF Age, Readable
  <2>2. \A q \in Op : ~RecordOf(q, lock) /\ pc[q] # "created"
    BY <2>1
  <2> QED BY <1>1, <2>1, <2>2
<1>18. CASE UNCHANGED vars
  BY <1>1, <1>18 DEF vars
<1> QED
  BY <1>3, <1>4, <1>5, <1>6, <1>7, <1>8, <1>9, <1>10, <1>11, <1>12, <1>13,
     <1>14, <1>15, <1>16, <1>17, <1>18 DEF Next, AcquireStep, HolderStep, TouchStep, CloseStep, Mine

\* The lease invariant holds throughout.
LEMMA LeaseInvariant ==
    ASSUME Overlap = {}, ~Suspend
    PROVE  Spec => []LeaseInv
<1>1. LeaseInv /\ [Next]_vars => LeaseInv'
  BY LeaseInvStep
<1> QED BY LeaseInvInit, <1>1, PTL DEF Spec

\* The lease invariant excludes two holders, and places the holder's record.
LEMMA LeaseInvExcludes == LeaseInv => MutualExclusion /\ HolderOnRecord
<1> SUFFICES ASSUME LeaseInv PROVE MutualExclusion /\ HolderOnRecord
  OBVIOUS
<1>1. MutualExclusion
  BY DEF LeaseInv
<1>2. HolderOnRecord
  <2> SUFFICES ASSUME NEW o \in Op, Holding(o)
               PROVE  \/ Mine(o) /\ lock.pid \in alive
                      \/ lock = NoFile /\ Away(o) /\ aside[o].nonce = nonce[o]
    BY DEF HolderOnRecord
  <2>1. PidOf[o] \in alive
    BY DEF LeaseInv, Running, Holding, Replacing
  <2> QED BY <2>1 DEF LeaseInv, HolderOwns, RecordOf, Mine, Readable, Away
<1> QED BY <1>1, <1>2

\* At most one caller holds the mutation lease, and the holder's own record is
\* the one at the lock path, whatever crashes, restarts and reused PIDs occur.
THEOREM LeaseMutualExclusion ==
    ASSUME Overlap = {}, ~Suspend
    PROVE  Spec => []MutualExclusion /\ []HolderOnRecord
BY LeaseInvariant, LeaseInvExcludes, PTL

\* After moving a stale record aside AcquireLease creates its own at once.
THEOREM LeaseSecondAttempt ==
    ASSUME Overlap = {}, ~Suspend
    PROVE  Spec => []SecondAttemptCreates
<1>1. LeaseInv => SecondAttemptCreates
  BY DEF LeaseInv
<1> QED BY <1>1, LeaseInvariant, PTL

\* Whatever Close, Touch, its replacement of the file and a failed acquisition
\* remove or overwrite at the path is the caller's own record, although the
\* nonce was compared before and not at the removal or the rename.
THEOREM LeaseRemovesOwn ==
    ASSUME Overlap = {}, ~Suspend
    PROVE  Spec => RemovesOnlyOwnRecord
<1>1. LeaseInv /\ [Next]_vars =>
        [\A o \in Op : (HolderStep(o) \/ WriteFails(o)) /\ lock # NoFile /\ lock' # lock
                          => lock.nonce = nonce[o]]_vars
  <2> SUFFICES ASSUME LeaseInv, NEW o \in Op, HolderStep(o) \/ WriteFails(o), lock # NoFile
               PROVE  lock.nonce = nonce[o]
    OBVIOUS
  <2>1. CASE HolderStep(o)
    <3>1. Holding(o)
      BY <2>1
      DEF HolderStep, TouchStep, CloseStep, TouchRead, TouchCheck, TouchReplace, TouchStages,
          TouchSetsAside, TouchPlaces, TouchPlaceFails, TouchUndoes, TouchRestores,
          TouchRestoreFails, TouchFails, BeginClose, CloseRead, CloseRemove, CloseFails,
          Holding, Replacing
    <3> QED BY <3>1 DEF LeaseInv, HolderOwns, RecordOf
  <2>2. CASE WriteFails(o)
    BY <2>2 DEF LeaseInv, CreatedOwns, WriteFails
  <2> QED BY <2>1, <2>2
<1> QED BY <1>1, LeaseInvariant, PTL DEF Spec, RemovesOnlyOwnRecord

\* The rename that moves a stale record aside never takes a live holder's.
THEOREM LeaseStealsAbandoned ==
    ASSUME Overlap = {}, ~Suspend
    PROVE  Spec => StealsOnlyAbandoned
<1>1. LeaseInv /\ [Next]_vars =>
        [\A o \in Op : StealRenames(o) => \A q \in Op : ~Holding(q)]_vars
  BY DEF LeaseInv, StealSafe, StealRenames
<1> QED BY <1>1, LeaseInvariant, PTL DEF Spec, StealsOnlyAbandoned

-----------------------------------------------------------------------------
(***************************************************************************)
(* The refinement: the set of holders changes only by an abstract Acquire, *)
(* in WriteRecord, or by an abstract Release, when a holder leaves Close   *)
(* or its process ends.                                                    *)
(***************************************************************************)

\* The initial states have no abstract holder.
LEMMA RefinesInit == Init => Abstract!Init
  BY DEF Init, Abstract!Init, Holders, Holding, Replacing

\* Every step is an acquisition, a release or nothing for the abstract lease.
LEMMA RefinesStep ==
    ASSUME LeaseInv, [Next]_vars
    PROVE  [Abstract!Next]_Holders
<1> USE DEF Holders, Holding, Replacing
<1>0. pc \in [Op -> PC]
  BY DEF LeaseInv, TypeInv, TypeOK
<1>1. ASSUME NEW o \in Op, WriteRecord(o)
      PROVE  Abstract!Acquire(o)
  <2>1. Holders = {}
    BY <1>1, HolderAtPath DEF LeaseInv, CreatedOwns, RecordOf, Acquiring, WriteRecord
  <2>2. Holders' = {o}
    BY <1>0, <1>1, <2>1 DEF WriteRecord, Goto
  <2> QED BY <2>1, <2>2 DEF Abstract!Acquire
<1>2. ASSUME NEW o \in Op, Holding(o), Leave(o)
      PROVE  Abstract!Release({o})
  BY <1>0, <1>2 DEF Leave, Goto, Abstract!Release
<1>3. ASSUME NEW p \in Pid, Crash(p)
      PROVE  Abstract!Next \/ UNCHANGED Holders
  <2> DEFINE S == {o \in Op : PidOf[o] = p}
  <2>1. Holders' = Holders \ S
    BY <1>0, <1>3 DEF Crash
  <2>2. CASE S \cap Holders # {}
    <3>1. Abstract!Release(S)
      BY <2>1, <2>2 DEF Abstract!Release
    <3> QED BY <3>1 DEF Abstract!Next
  <2>3. CASE S \cap Holders = {}
    BY <2>1, <2>3
  <2> QED BY <2>2, <2>3
<1>4. ASSUME NEW o \in Op, AcquireStep(o), ~WriteRecord(o)
      PROVE  UNCHANGED Holders
  BY <1>0, <1>4
  DEF AcquireStep, OpenCreates, OpenFindsFile, StartAttempt, WriteFails, InspectStale,
      InspectBusy, StealRenames, StealFindsNothing, StealFails, Leave, Goto
<1>5. ASSUME NEW o \in Op, HolderStep(o)
      PROVE  UNCHANGED Holders \/ (Holding(o) /\ Leave(o))
  <2>1. CASE TouchRead(o) \/ TouchStep(o) \/ BeginClose(o)
    <3>1. \A q \in Op : Holding(q)' <=> Holding(q)
      BY <1>0, <2>1
      DEF TouchStep, TouchRead, TouchCheck, TouchReplace, TouchStages, TouchSetsAside,
          TouchPlaces, TouchPlaceFails, TouchUndoes, TouchRestores, TouchRestoreFails,
          TouchFails, BeginClose, Goto
    <3> QED BY <3>1
  <2>2. CASE CloseRead(o) /\ Mine(o)
    <3>1. \A q \in Op : Holding(q)' <=> Holding(q)
      BY <1>0, <2>2 DEF CloseRead, Goto
    <3> QED BY <3>1
  <2>3. CASE (CloseRead(o) /\ ~Mine(o)) \/ CloseRemove(o) \/ CloseFails(o)
    BY <2>3 DEF CloseRead, CloseRemove, CloseFails
  <2> QED BY <1>5, <2>1, <2>2, <2>3 DEF HolderStep, CloseStep
<1>6. CASE \E p \in Pid : StartProcess(p)
  BY <1>6 DEF StartProcess
<1>7. CASE Age \/ UNCHANGED vars
  BY <1>7 DEF Age, vars
<1> QED
  BY <1>1, <1>2, <1>3, <1>4, <1>5, <1>6, <1>7 DEF Next, Abstract!Next

\* The file protocol implements the exclusive lease its users are written for.
THEOREM LeaseImplementsExclusive ==
    ASSUME Overlap = {}, ~Suspend
    PROVE  Spec => ImplementsExclusiveLease
<1>1. LeaseInv /\ [Next]_vars => [Abstract!Next]_Holders
  BY RefinesStep
<1> QED
  BY <1>1, RefinesInit, LeaseInvariant, PTL
  DEF Spec, ImplementsExclusiveLease, Abstract!Spec
=============================================================================
