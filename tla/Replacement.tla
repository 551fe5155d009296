----------------------------- MODULE Replacement ----------------------------
(***************************************************************************)
(* safefile.Replace, as selfinstall.InstallFrom uses it: a staged file     *)
(* takes the place of another one and its permissions.  Every step may     *)
(* fail, and the process may crash between two steps.  Contents are        *)
(* numbered releases; 0 says that there is no file.                        *)
(***************************************************************************)
EXTENDS Naturals

CONSTANTS
    Release,        \* the contents that are installed
    MaxInstalls     \* bound: installations in one behaviour

ASSUME ReplacementAssumption == 0 \notin Release /\ MaxInstalls \in Nat

VARIABLES
    file,       \* [destination, staged]: the contents of the two paths
    asides,     \* the contents of the backup files that exist
    install,    \* [at, offered, before]: where the installation is, what it installs, and what
                \* the destination held when it began
    answer,     \* what the last installation returned
    installs    \* installations that may still begin

replaceVars == <<file, asides, install, answer, installs>>

NoInstall == [at |-> "idle", offered |-> 0, before |-> 0]
Answers == {"none", "ok", "unchanged", "installed", "aside"}
InstallPlaces == {"idle", "copy", "replace", "installed", "vacate", "place", "verify", "cleanup"}

ReplacementInit ==
    /\ \E release \in Release \cup {0} : file = [destination |-> release, staged |-> 0]
    /\ asides = {} /\ install = NoInstall /\ answer = "none" /\ installs = MaxInstalls

InstallAt(place) == install.at = place
Proceed(place) == install' = [install EXCEPT !.at = place] /\ UNCHANGED <<answer, installs>>

\* The deferred removal of the staged file, and the answer.
Return(result, destination) ==
    /\ answer' = result
    /\ install' = [install EXCEPT !.at = "idle"]
    /\ file' = [destination |-> destination, staged |-> 0]
    /\ UNCHANGED installs

SameFileContent(release) == file.destination = release

\* InstallFrom: equal contents are left alone.
Begin(release) ==
    /\ InstallAt("idle") /\ installs > 0
    /\ installs' = installs - 1
    /\ install' = [at |-> IF SameFileContent(release) THEN "idle" ELSE "copy",
                   offered |-> release, before |-> file.destination]
    /\ answer' = IF SameFileContent(release) THEN "ok" ELSE "none"
    /\ UNCHANGED <<file, asides>>

\* copyExecutable: the copy is written and synced, or given up.
Stage ==
    /\ InstallAt("copy")
    /\ UNCHANGED asides
    /\ \/ file' = [file EXCEPT !.staged = install.offered] /\ Proceed("replace")
       \/ Return("unchanged", file.destination)

\* The rename over the destination.  Where it fails and there is a destination, that is
\* set aside; an error before the rename leaves everything as it was.
Replace ==
    /\ InstallAt("replace")
    /\ UNCHANGED asides
    /\ \/ /\ file' = [destination |-> file.staged, staged |-> 0]
          /\ Proceed("installed")
       \/ file.destination # 0 /\ UNCHANGED file /\ Proceed("vacate")
       \/ Return("unchanged", file.destination)

\* The permissions of what was renamed over the destination are looked at once more.
Verified ==
    /\ InstallAt("installed")
    /\ \E result \in (IF install.before = 0 THEN {"ok"} ELSE {"ok", "installed"}) :
         Return(result, file.destination)
    /\ UNCHANGED asides

Vacate ==
    /\ InstallAt("vacate")
    /\ \/ /\ asides' = asides \cup {file.destination}
          /\ file' = [file EXCEPT !.destination = 0]
          /\ Proceed("place")
       \/ Return("unchanged", file.destination) /\ UNCHANGED asides

\* What was set aside goes back, or stays where the error says.
PutAsideBack ==
    \/ Return("unchanged", install.before) /\ asides' = asides \ {install.before}
    \/ \E destination \in {0, file.destination} : Return("aside", destination) /\ UNCHANGED asides

Place ==
    /\ InstallAt("place")
    /\ \/ /\ file' = [destination |-> file.staged, staged |-> 0]
          /\ Proceed("verify") /\ UNCHANGED asides
       \/ PutAsideBack

\* Mutant of VerifyPlaced: the backup is removed before the permissions are looked at.
VerifyAfterCleanup ==
    /\ InstallAt("verify")
    /\ asides' = asides \ {install.before}
    /\ \/ UNCHANGED file /\ Proceed("cleanup")
       \/ Return("unchanged", 0)

VerifyPlaced ==
    /\ InstallAt("verify")
    /\ \/ UNCHANGED <<file, asides>> /\ Proceed("cleanup")
       \/ PutAsideBack

CleanUp ==
    /\ InstallAt("cleanup")
    /\ \/ Return("ok", file.destination) /\ asides' = asides \ {install.before}
       \/ Return("installed", file.destination) /\ UNCHANGED asides

ReplaceCrash ==
    /\ ~InstallAt("idle")
    /\ install' = [install EXCEPT !.at = "idle"]
    /\ answer' = "none"
    /\ UNCHANGED <<file, asides, installs>>

ReplacementNext ==
    \/ \E release \in Release : Begin(release)
    \/ Stage \/ Replace \/ Verified \/ Vacate \/ Place \/ VerifyPlaced \/ CleanUp \/ ReplaceCrash

ReplacementSpec == ReplacementInit /\ [][ReplacementNext]_replaceVars

-----------------------------------------------------------------------------
ReplacementTypeOK ==
    /\ file \in [destination : Release \cup {0}, staged : Release \cup {0}]
    /\ asides \subseteq Release
    /\ install \in [at : InstallPlaces, offered : Release \cup {0}, before : Release \cup {0}]
    /\ answer \in Answers /\ installs \in 0 .. MaxInstalls

\* The file that was there is at its place or beside it until the new one is, in spite of a
\* crash between the two renames; and the answer tells where it is.
PreviousRecoverable ==
    /\ install.before # 0 /\ file.destination # install.offered =>
           install.before \in {file.destination} \cup asides
    /\ answer \in {"ok", "installed"} => file.destination = install.offered
    /\ answer = "unchanged" => file.destination = install.before
    /\ answer = "aside" => install.before \in asides
=============================================================================
