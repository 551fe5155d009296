---------------------------- MODULE MutationLease ----------------------------
(***************************************************************************)
(* The cross-process mutation lease of internal/state/lease.go: one JSON   *)
(* file at locks/<name>.lock under the data root.  AcquireLease, Touch and *)
(* Close are sequences of file-system calls of which only each single call *)
(* is atomic, so every call at the lock path is an action here and the     *)
(* calls of different operations interleave freely.  This includes the     *)
(* calls of safefile.Replace, by which Touch installs its new record: one  *)
(* rename where a rename replaces the file that is there, and where it     *)
(* fails (on Windows, while a reader has the file open) two renames with   *)
(* nothing at the path in between.                                         *)
(*                                                                         *)
(* Data is abstracted to what tells outcomes apart: a record is the nonce  *)
(* of the attempt that created the file, the PID stored in it, whether its *)
(* text has been written yet (an O_EXCL create leaves an empty file), and  *)
(* whether its heartbeat is younger than staleAfter.                       *)
(***************************************************************************)
EXTENDS Naturals, FiniteSets

CONSTANTS
    Op,        \* callers of AcquireLease: commands, startups, UI handlers
    Pid,       \* operating-system process identifiers
    PidOf,     \* the process each caller runs in
    Nonce,     \* values of the 16 random bytes
    NoNonce,   \* "this caller has no attempt under way"
    NoFile,    \* "nothing at the lock path"
    Posix,     \* may a file be renamed while another process writes it?
    Overlap,   \* what an acquisition may overlap with: another "acquisition", and
               \* a heartbeat's "replacement" that has the record aside
    Suspend    \* may the heartbeat of a live holder grow older than staleAfter?

\* A file at the lock path, as a reader finds it.
File == [nonce : Nonce, pid : Pid, written : BOOLEAN, fresh : BOOLEAN]

ASSUME LeaseAssumption ==
    /\ PidOf \in [Op -> Pid]
    /\ NoNonce \notin Nonce
    /\ NoFile \notin File
    /\ Posix \in BOOLEAN /\ Suspend \in BOOLEAN
    /\ Overlap \subseteq {"acquisition", "replacement"}

VARIABLES
    lock,      \* what is at the lock path: NoFile or a File
    alive,     \* the PIDs processctl.IsAlive answers TRUE for
    pc,        \* where each caller is in AcquireLease, Touch or Close
    nonce,     \* the nonce each caller generated for its attempt or lease
    attempt,   \* the loop variable of AcquireLease, counted from 1
    aside      \* the file each caller's Replace has renamed to its backup path

vars == <<lock, alive, pc, nonce, attempt, aside>>

MaxAttempts == 2

\* Where a holder is inside safefile.Replace.
Replacing == {"replacing", "staging", "placing", "undoing", "restoring"}

PC == {"idle", "created", "exists", "stealing", "retry", "held",
       "touching", "closing", "removing"} \cup Replacing

\* Between the first open and the return of AcquireLease.
Acquiring(o) == pc[o] \in {"created", "exists", "stealing", "retry"}

\* AcquireLease returned a *Lease whose Close has not returned yet.
Holding(o) == pc[o] \in {"held", "touching", "closing", "removing"} \cup Replacing

\* The caller's Touch has renamed the file aside and has not put one back for it.
Away(o) == aside[o] # NoFile

TypeOK ==
    /\ lock \in File \cup {NoFile}
    /\ alive \in SUBSET Pid
    /\ pc \in [Op -> PC]
    /\ nonce \in [Op -> Nonce \cup {NoNonce}]
    /\ attempt \in [Op -> 0 .. MaxAttempts]
    /\ aside \in [Op -> File \cup {NoFile}]

Init ==
    /\ lock = NoFile
    /\ alive \in SUBSET Pid
    /\ pc = [o \in Op |-> "idle"]
    /\ nonce = [o \in Op |-> NoNonce]
    /\ attempt = [o \in Op |-> 0]
    /\ aside = [o \in Op |-> NoFile]

Goto(o, label) == pc' = [pc EXCEPT ![o] = label]

\* Sixteen random bytes differ from every nonce still in use.
FreshNonce(n) ==
    /\ n \in Nonce
    /\ \A q \in Op : nonce[q] # n
    /\ \A file \in {lock} \cup {aside[q] : q \in Op} : file # NoFile => file.nonce # n

\* Mutant of Leave: the attempt counter outlives the call.
LeaveCounting(o) ==
    /\ Goto(o, "idle")
    /\ nonce' = [nonce EXCEPT ![o] = NoNonce]
    /\ aside' = [aside EXCEPT ![o] = NoFile]
    /\ UNCHANGED attempt

\* The caller is out of the lease code: it holds nothing and tries nothing.
Leave(o) ==
    /\ Goto(o, "idle")
    /\ nonce' = [nonce EXCEPT ![o] = NoNonce]
    /\ attempt' = [attempt EXCEPT ![o] = 0]
    /\ aside' = [aside EXCEPT ![o] = NoFile]

\* A rename can take the file at the path, or replace it: on Windows it cannot
\* while the file's creator has it open.
Movable == lock # NoFile => lock.written \/ Posix

\* readLeaseRecord succeeds: the file exists and its text is there.
Readable == lock # NoFile /\ lock.written
Mine(o) == Readable /\ lock.nonce = nonce[o]

-----------------------------------------------------------------------------
(* AcquireLease *)

\* No acquisition is under way that another one, or a heartbeat that is about to
\* rename the record aside, would overlap with.
NoneAcquiring(what) == what \in Overlap \/ \A q \in Op : ~Acquiring(q)

\* The next iteration of the loop may run, or the first one may start.
StartAttempt(o) ==
    /\ PidOf[o] \in alive
    /\ \/ pc[o] = "retry"
       \/ /\ pc[o] = "idle"
          /\ NoneAcquiring("acquisition")
          /\ "replacement" \in Overlap \/ \A q \in Op : ~Away(q)
    /\ attempt' = [attempt EXCEPT ![o] = @ + 1]
    /\ UNCHANGED <<alive, aside>>

\* Mutant of OpenCreates: the file is opened without O_EXCL.
OpenTruncates(o) ==
    /\ StartAttempt(o)
    /\ \E n \in Nonce :
         /\ FreshNonce(n)
         /\ nonce' = [nonce EXCEPT ![o] = n]
         /\ lock' = [nonce |-> n, pid |-> PidOf[o], written |-> FALSE, fresh |-> TRUE]
    /\ Goto(o, "created")

\* OpenFile(O_CREATE|O_EXCL) created the file; it is empty.
OpenCreates(o) ==
    /\ StartAttempt(o)
    /\ lock = NoFile
    /\ \E n \in Nonce :
         /\ FreshNonce(n)
         /\ nonce' = [nonce EXCEPT ![o] = n]
         /\ lock' = [nonce |-> n, pid |-> PidOf[o], written |-> FALSE, fresh |-> TRUE]
    /\ Goto(o, "created")

\* OpenFile answered ErrExist.
OpenFindsFile(o) ==
    /\ StartAttempt(o)
    /\ lock # NoFile
    /\ Goto(o, "exists")
    /\ UNCHANGED <<lock, nonce>>

\* Write, Sync and Close of the new file.  The handle follows the file, not
\* the path: when another caller has renamed the file aside meanwhile, the
\* record lands in the renamed file and AcquireLease succeeds all the same.
WriteRecord(o) ==
    /\ pc[o] = "created"
    /\ lock' = IF lock # NoFile /\ lock.nonce = nonce[o]
               THEN [lock EXCEPT !.written = TRUE]
               ELSE lock
    /\ Goto(o, "held")
    /\ attempt' = [attempt EXCEPT ![o] = 0]
    /\ UNCHANGED <<alive, nonce, aside>>

\* Writing failed (a full disk): os.Remove(path), whatever is there; that it may
\* fail as well is ignored.
WriteFails(o) ==
    /\ pc[o] = "created"
    /\ lock' \in {NoFile, lock}
    /\ Leave(o)
    /\ UNCHANGED alive

\* readLeaseRecord and its judgement.  A record that cannot be read (missing and
\* empty count), is stale or was written by a process that is gone is not live.
\* JudgedBackwards is a mutant: the comparison with staleAfter the wrong way round.
JudgedBackwards == Readable /\ ~lock.fresh /\ lock.pid \in alive
JudgedLive == Readable /\ lock.fresh /\ lock.pid \in alive

InspectStale(o) ==
    /\ pc[o] = "exists"
    /\ ~JudgedLive
    /\ Goto(o, "stealing")
    /\ UNCHANGED <<lock, alive, nonce, attempt, aside>>

\* Mutant of InspectBusy: the caller waits for the lease instead of giving up.
InspectWaits(o) ==
    /\ pc[o] = "exists"
    /\ JudgedLive
    /\ Goto(o, "retry")
    /\ attempt' = [attempt EXCEPT ![o] = 0]
    /\ UNCHANGED <<lock, alive, nonce, aside>>

\* ErrMutationBusy.
InspectBusy(o) ==
    /\ pc[o] = "exists"
    /\ JudgedLive
    /\ Leave(o)
    /\ UNCHANGED <<lock, alive>>

\* Mutant of StealRenames: the record is kept aside but stays at the path.
StealCopies(o) ==
    /\ pc[o] = "stealing"
    /\ lock # NoFile
    /\ IF attempt[o] < MaxAttempts
       THEN Goto(o, "retry") /\ UNCHANGED <<nonce, attempt, aside>>
       ELSE Leave(o)
    /\ UNCHANGED <<lock, alive>>

\* os.Rename(path, stalePath) moves aside whatever is at the path by now; then
\* the next iteration, or ErrMutationBusy after the last one.
StealRenames(o) ==
    /\ pc[o] = "stealing"
    /\ lock # NoFile
    /\ Movable
    /\ lock' = NoFile
    /\ IF attempt[o] < MaxAttempts
       THEN Goto(o, "retry") /\ UNCHANGED <<nonce, attempt, aside>>
       ELSE Leave(o)
    /\ UNCHANGED alive

\* The rename fails because nothing is at the path any more: the error is
\* "recover stale mutation lease", not ErrMutationBusy.
StealFindsNothing(o) ==
    /\ pc[o] = "stealing"
    /\ lock = NoFile
    /\ Leave(o)
    /\ UNCHANGED <<lock, alive>>

\* The rename fails on a file that is there (on Windows: its writer has it open).
StealFails(o) ==
    /\ pc[o] = "stealing"
    /\ lock # NoFile
    /\ Leave(o)
    /\ UNCHANGED <<lock, alive>>

-----------------------------------------------------------------------------
(* Touch *)

TouchRead(o) ==
    /\ pc[o] = "held"
    /\ Goto(o, IF Mine(o) THEN "touching" ELSE "closing")
    /\ UNCHANGED <<lock, alive, nonce, attempt, aside>>

\* The new record is in a temporary file; the path is read a second time.
TouchCheck(o) ==
    /\ pc[o] = "touching"
    /\ Goto(o, IF Mine(o) THEN "replacing" ELSE "closing")
    /\ UNCHANGED <<lock, alive, nonce, attempt, aside>>

\* The record Touch has written to its temporary file.
Renewed(o) == [nonce |-> nonce[o], pid |-> PidOf[o], written |-> TRUE, fresh |-> TRUE]

\* safefile.Replace renames the temporary file over the path; an error after that
\* means that the file's permissions could not be verified.
TouchReplace(o) ==
    /\ pc[o] = "replacing"
    /\ Movable
    /\ lock' = Renewed(o)
    /\ \E label \in {"held", "closing"} : Goto(o, label)
    /\ UNCHANGED <<alive, nonce, attempt, aside>>

\* That rename fails on a file that is there, and a backup path is reserved.
TouchStages(o) ==
    /\ pc[o] = "replacing"
    /\ lock # NoFile
    /\ Goto(o, "staging")
    /\ UNCHANGED <<lock, alive, nonce, attempt, aside>>

\* os.Rename(destination, backup): from here on nothing is at the path.
TouchSetsAside(o) ==
    /\ pc[o] = "staging"
    /\ lock # NoFile
    /\ Movable
    /\ NoneAcquiring("replacement")
    /\ aside' = [aside EXCEPT ![o] = lock]
    /\ lock' = NoFile
    /\ Goto(o, "placing")
    /\ UNCHANGED <<alive, nonce, attempt>>

\* os.Rename(source, destination), over whatever is there by now.  The backup is
\* removed, or an error tells that it was left behind; or the permissions
\* cannot be verified and the new record has to go again.
TouchPlaces(o) ==
    /\ pc[o] = "placing"
    /\ Movable
    /\ lock' = Renewed(o)
    /\ \/ /\ \E label \in {"held", "closing"} : Goto(o, label)
          /\ aside' = [aside EXCEPT ![o] = NoFile]
       \/ Goto(o, "undoing") /\ UNCHANGED aside
    /\ UNCHANGED <<alive, nonce, attempt>>

\* The second rename fails as well.
TouchPlaceFails(o) ==
    /\ pc[o] = "placing"
    /\ Goto(o, "restoring")
    /\ UNCHANGED <<lock, alive, nonce, attempt, aside>>

\* os.Remove(destination) of the record that could not be verified, or its failure.
TouchUndoes(o) ==
    /\ pc[o] = "undoing"
    /\ lock' \in {NoFile, lock}
    /\ Goto(o, "restoring")
    /\ UNCHANGED <<alive, nonce, attempt, aside>>

\* os.Rename(backup, destination), over whatever is there by now.
TouchRestores(o) ==
    /\ pc[o] = "restoring"
    /\ Movable
    /\ lock' = aside[o]
    /\ aside' = [aside EXCEPT ![o] = NoFile]
    /\ Goto(o, "closing")
    /\ UNCHANGED <<alive, nonce, attempt>>

\* "rollback failed; previous file remains at" the backup path.
TouchRestoreFails(o) ==
    /\ pc[o] = "restoring"
    /\ Goto(o, "closing")
    /\ UNCHANGED <<lock, alive, nonce, attempt, aside>>

\* Any other I/O error on the way makes the caller give up and run its deferred
\* Close, with the record untouched.
TouchFails(o) ==
    /\ pc[o] \in {"touching", "replacing", "staging"}
    /\ Goto(o, "closing")
    /\ UNCHANGED <<lock, alive, nonce, attempt, aside>>

-----------------------------------------------------------------------------
(* Close *)

BeginClose(o) ==
    /\ pc[o] = "held"
    /\ Goto(o, "closing")
    /\ UNCHANGED <<lock, alive, nonce, attempt, aside>>

CloseRead(o) ==
    /\ pc[o] = "closing"
    /\ IF Mine(o) THEN Goto(o, "removing") /\ UNCHANGED <<nonce, attempt, aside>>
                  ELSE Leave(o)
    /\ UNCHANGED <<lock, alive>>

\* os.Remove(path): the path, not the file whose nonce was compared.
CloseRemove(o) ==
    /\ pc[o] = "removing"
    /\ lock' = NoFile
    /\ Leave(o)
    /\ UNCHANGED alive

\* The record cannot be read or removed: Close returns an error and the record
\* stays, under the PID of a process that may go on.
CloseFails(o) ==
    /\ pc[o] \in {"closing", "removing"}
    /\ Leave(o)
    /\ UNCHANGED <<lock, alive>>

-----------------------------------------------------------------------------
(* The machine: clocks, crashes, and PIDs that name a live process again *)

Age ==
    /\ Readable /\ lock.fresh
    /\ Suspend \/ \A o \in Op : nonce[o] # lock.nonce
    /\ lock' = [lock EXCEPT !.fresh = FALSE]
    /\ UNCHANGED <<alive, pc, nonce, attempt, aside>>

Crash(p) ==
    /\ p \in alive
    /\ alive' = alive \ {p}
    /\ pc' = [o \in Op |-> IF PidOf[o] = p THEN "idle" ELSE pc[o]]
    /\ nonce' = [o \in Op |-> IF PidOf[o] = p THEN NoNonce ELSE nonce[o]]
    /\ attempt' = [o \in Op |-> IF PidOf[o] = p THEN 0 ELSE attempt[o]]
    /\ aside' = [o \in Op |-> IF PidOf[o] = p THEN NoFile ELSE aside[o]]
    /\ UNCHANGED lock

StartProcess(p) ==
    /\ p \notin alive
    /\ alive' = alive \cup {p}
    /\ UNCHANGED <<lock, pc, nonce, attempt, aside>>

-----------------------------------------------------------------------------
AcquireStep(o) ==
    \/ OpenCreates(o) \/ OpenFindsFile(o)
    \/ WriteRecord(o) \/ WriteFails(o)
    \/ InspectStale(o) \/ InspectBusy(o)
    \/ StealRenames(o) \/ StealFindsNothing(o) \/ StealFails(o)

\* What Touch and Close do once they have read the record.
TouchStep(o) ==
    \/ TouchCheck(o) \/ TouchReplace(o) \/ TouchStages(o) \/ TouchSetsAside(o)
    \/ TouchPlaces(o) \/ TouchPlaceFails(o) \/ TouchUndoes(o)
    \/ TouchRestores(o) \/ TouchRestoreFails(o) \/ TouchFails(o)
CloseStep(o) == CloseRead(o) \/ CloseRemove(o) \/ CloseFails(o)

HolderStep(o) == TouchRead(o) \/ TouchStep(o) \/ BeginClose(o) \/ CloseStep(o)

Next ==
    \/ \E o \in Op : AcquireStep(o) \/ HolderStep(o)
    \/ \E p \in Pid : Crash(p) \/ StartProcess(p)
    \/ Age

\* A caller inside AcquireLease, Touch or Close is running code: it goes on.
Progress(o) == (Acquiring(o) /\ AcquireStep(o)) \/ TouchStep(o) \/ CloseStep(o)
Fairness == \A o \in Op : WF_vars(Progress(o))

Spec == Init /\ [][Next]_vars /\ Fairness

-----------------------------------------------------------------------------
(* Properties *)

\* "One mutation lease is allowed per user data root": no two callers hold a
\* lease that has not been closed (docs/OPERATIONS.md, Concurrent operation).
MutualExclusion == \A o, q \in Op : Holding(o) /\ Holding(q) => o = q

\* The lease a live caller holds is the one recorded at the path, so its Touch
\* and its Close never find that "ownership changed"; or the record is aside,
\* and then no other one is at the path.
HolderOnRecord == \A o \in Op : Holding(o) =>
    \/ Mine(o) /\ lock.pid \in alive
    \/ lock = NoFile /\ Away(o) /\ aside[o].nonce = nonce[o]

\* Two iterations are enough: an acquisition that moved a stale record aside
\* finds the path free when it tries again.
SecondAttemptCreates == \A o \in Op : pc[o] = "retry" => lock = NoFile

\* Close, the clean-up of a failed acquisition and every call of a heartbeat's
\* replacement take away or overwrite no record but the caller's own ("refusing
\* to release mutation lease owned by another process").
RemovesOnlyOwnRecord ==
    [][\A o \in Op : (HolderStep(o) \/ WriteFails(o)) /\ lock # NoFile /\ lock' # lock
                        => lock.nonce = nonce[o]]_vars

\* A record moved aside as stale is never that of a caller that still holds it.
StealsOnlyAbandoned ==
    [][\A o \in Op : StealRenames(o) => \A q \in Op : ~Holding(q)]_vars

\* The lease as its users see it: at most one holder (ExclusiveLease).
Holders == {o \in Op : Holding(o)}
Abstract == INSTANCE ExclusiveLease WITH holders <- Holders
ImplementsExclusiveLease == Abstract!Spec

\* AcquireLease returns, and so does Close.
AcquireReturns == \A o \in Op : Acquiring(o) ~> ~Acquiring(o)
=============================================================================
