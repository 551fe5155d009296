----------------------------- MODULE MCContextTorn ---------------------------
(***************************************************************************)
(* A context file whose end marker is gone, with text below the start: the *)
(* first refresh appends a section, the second one, after a change of the  *)
(* project, replaces all from the old start marker to the new end marker.  *)
(***************************************************************************)
EXTENDS ContextRefresh

TornAgents == {"codex", "copilot"}
TornPathOf == [codex |-> 1, copilot |-> 2]
TornDirectoryOf == <<"root", "github">>
TornFiles == {<< <<Text("a"), <<"start">>, Text("b")>>, Absent >>}
=============================================================================
