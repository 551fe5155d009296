----------------------------- MODULE MCSetupRepair ---------------------------
(***************************************************************************)
(* A router entry that is deactivated, and the repair that is planned.     *)
(***************************************************************************)
EXTENDS Setup

Catalogs == INSTANCE MCSetups
RepairSetups == {Catalogs!Repairing}
Releases == {Catalogs!Of(1), Catalogs!Of(2)}
=============================================================================
