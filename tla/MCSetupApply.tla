----------------------------- MODULE MCSetupApply ----------------------------
(***************************************************************************)
(* Small instances of both views: the meetings of MCReviewedExecution and  *)
(* the catalogs of MCSetups.  The view a behaviour is not about starts in  *)
(* one initial state.                                                      *)
(***************************************************************************)
EXTENDS Installation, MCReviewedExecution

MCInitialSetups == Catalogs!Graphs \cup Catalogs!Providers \cup Catalogs!CommandLines \cup Catalogs!Judged
                      \cup {Catalogs!Installing, Catalogs!Routing}
MCOffered == {Catalogs!Of(1), Catalogs!Of(2), Catalogs!Of(3)}

OthersPinned ==
    /\ plane # "apply" => \A o \in Op : pc[o] = "new" <=> o \in CHOOSE met \in Meetings : TRUE
    /\ plane # "setup" => setup = Catalogs!Installing

SetupApplyInit == InstallationInit /\ OthersPinned

SetupApplySpec == SetupApplyInit /\ [][InstallationNext]_installationVars
=============================================================================
