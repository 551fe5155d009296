------------------------------ MODULE MCFabric ------------------------------
(***************************************************************************)
(* Small instances of the parts of the fabric.  The parts a behaviour is   *)
(* not about start in one initial state.                                   *)
(***************************************************************************)
EXTENDS Fabric, MCRoutines

\* Three clients, the second one changed by commands.
LinkConfig(entry, rest) == [entry |-> entry, rest |-> rest]
MCInitialConfigs == {
    <<LinkConfig("none", "absent"), LinkConfig("stale", "kept"), LinkConfig("stale", "long")>>,
    <<LinkConfig("current", "long"), LinkConfig("none", "kept"), LinkConfig("none", "empty")>>,
    <<LinkConfig("foreign", "kept"), LinkConfig("extended", "kept"), LinkConfig("stale", "kept")>>}
MCLinkEdited == {LinkConfig("foreign", "edited"), LinkConfig("stale", "kept"), LinkConfig("extended", "kept"),
                 LinkConfig("none", "absent"), LinkConfig("broken", "kept")}

\* A first sync, a sync in link mode, and two jobs after an update of a source.
HubStart(links, digest, src, destinations, records, jobs, edited) ==
    [links |-> links, digest |-> digest, source |-> src, dest |-> destinations, managed |-> records,
     backups |-> {}, jobs |-> jobs, edits |-> edited, plans |-> 1]
MCHubs == {HubStart(FALSE, <<0, 1>>, <<1, 2>>, <<2, 2>>, <<0, 2>>, 1, 1),
           HubStart(TRUE, <<1, 2>>, <<2, 2>>, <<-1, 0>>, <<-1, 0>>, 1, 1),
           HubStart(FALSE, <<1, 2>>, <<2, 0>>, <<1, 0>>, <<1, 0>>, 2, 0)}

\* Two agents that share a file, and one with a file in a directory of its own.
MCPathOf == [codex |-> 1, opencode |-> 1, copilot |-> 2]
MCDirectoryOf == <<"root", "github">>
OldSection == <<<<"start">>, <<"generated", "f0", {}>>, <<"end">>>>
MCContextFiles == {<<<<Text("a")>> \o OldSection \o <<Text("b")>>, Absent>>, <<<<Text("a")>>, <<Text("b")>>>>}
MCEditorWrites == {Absent, OldSection \o <<Text("e")>>}

ASSUME MCFilesMarked == FilesMarked

-----------------------------------------------------------------------------
SomeMeeting == CHOOSE met \in Meetings : TRUE
SomeHub == CHOOSE hub \in InitialHubs : TRUE

\* The one initial state of every part the behaviour is not about.
Pinned ==
    /\ plane # "routines" => store = NoFile /\ pc = [c \in Call |-> IF c \in SomeMeeting THEN "idle" ELSE "done"]
    /\ plane # "links" => configs = CHOOSE c \in InitialConfigs : TRUE
    /\ plane # "hub" => dest = SomeHub.dest /\ source = SomeHub.source
    /\ plane # "context" => files = CHOOSE f \in InitialFiles : TRUE
    /\ plane # "pack" => directory = [d \in Directories |-> "absent"]
    /\ plane # "file" => file.destination = 0

MCFabricInit == FabricInit /\ Pinned

MCFabricSpec == MCFabricInit /\ [][FabricNext]_fabricVars
=============================================================================
