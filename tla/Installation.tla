---------------------------- MODULE Installation ----------------------------
(***************************************************************************)
(* Two views of setting up components, each in behaviours of its own:      *)
(*  - "apply": how operations that apply one plan meet (ReviewedExecution);*)
(*  - "setup": what inventories, plans and completed operations make of    *)
(*    catalogs and machines (Setup).                                       *)
(***************************************************************************)
EXTENDS ReviewedExecution, Setup

VARIABLE plane

InstallationInit ==
    /\ plane \in {"apply", "setup"}
    /\ Init
    /\ SetupInit

InstallationNext ==
    \/ plane = "apply" /\ Next /\ UNCHANGED <<plane, setupVars>>
    \/ plane = "setup" /\ Operate /\ UNCHANGED <<plane, vars>>

installationVars == <<plane, vars, setupVars>>
InstallationSpec == InstallationInit /\ [][InstallationNext]_installationVars

-----------------------------------------------------------------------------
\* The variables of both views have their types.
ViewsTypeOK == TypeOK /\ SetupTypeOK
=============================================================================
