-------------------------------- MODULE Fabric -------------------------------
(***************************************************************************)
(* The parts of the fabric that share nothing but the mutation lease, each *)
(* in behaviours of its own: routines, client links, the resource hub, the *)
(* generated context, the directories of a skill pack, the replacement of  *)
(* the program's file, and the operations of the manager page.  plane says *)
(* which part a behaviour is about; the others stay in an initial state.   *)
(***************************************************************************)
EXTENDS Routines, ClientLink, ResourceHub, ContextRefresh, SkillPack, Replacement, Desk

VARIABLE plane

fabricVars == <<plane, vars, linkVars, hubVars, contextVars, packVars, replaceVars, deskVars>>

Planes == {"routines", "links", "hub", "context", "pack", "file", "desk"}

FabricInit ==
    /\ plane \in Planes
    /\ Init /\ LinkInit /\ HubInit /\ ContextInit
    /\ PackInit /\ ReplacementInit /\ DeskInit

FabricNext ==
    /\ UNCHANGED plane
    /\ \/ /\ plane = "routines" /\ Next
          /\ UNCHANGED <<linkVars, hubVars, contextVars, packVars, replaceVars, deskVars>>
       \/ /\ plane = "links" /\ LinkNext
          /\ UNCHANGED <<vars, hubVars, contextVars, packVars, replaceVars, deskVars>>
       \/ /\ plane = "hub" /\ HubNext
          /\ UNCHANGED <<vars, linkVars, contextVars, packVars, replaceVars, deskVars>>
       \/ /\ plane = "context" /\ ContextNext
          /\ UNCHANGED <<vars, linkVars, hubVars, packVars, replaceVars, deskVars>>
       \/ /\ plane = "pack" /\ PackNext
          /\ UNCHANGED <<vars, linkVars, hubVars, contextVars, replaceVars, deskVars>>
       \/ /\ plane = "file" /\ ReplacementNext
          /\ UNCHANGED <<vars, linkVars, hubVars, contextVars, packVars, deskVars>>
       \/ /\ plane = "desk" /\ DeskNext
          /\ UNCHANGED <<vars, linkVars, hubVars, contextVars, packVars, replaceVars>>

FabricSpec == FabricInit /\ [][FabricNext]_fabricVars

-----------------------------------------------------------------------------
\* Each part's variables have their types, and no error path keeps a lease or a lock file.
FabricTypeOK ==
    /\ plane = "routines" => TypeOK
    /\ plane = "links" => LinkTypeOK
    /\ plane = "hub" => HubTypeOK /\ LocksReleased
    /\ plane = "context" => ContextTypeOK
    /\ plane = "pack" => PackTypeOK
    /\ plane = "file" => ReplacementTypeOK
    /\ plane = "desk" => DeskTypeOK

\* A linking of clients, a sync, a refresh of resources and one of the context are
\* transactional over what nobody else changed meanwhile, in spite of errors and rollbacks
\* anywhere: see LinkAllOrNothing, HubAllOrNothing and ContextAllOrNothing.
AllOrNothing ==
    /\ plane = "links" => LinkAllOrNothing
    /\ plane = "hub" => HubAllOrNothing
    /\ plane = "context" => ContextAllOrNothing

\* Whatever fails or crashes, what a job found is at its place, beside it or among the
\* backups: trees of the hub, context files, and the file that is replaced.
NothingLost ==
    /\ plane = "hub" => TreesKept
    /\ plane = "context" => ContextKept
    /\ plane = "file" => PreviousRecoverable

\* What AgentStack does not own stays as it is: destinations that nothing manages, and human
\* text in context files whose section has both its marks; client entries and skill
\* directories have properties of their own.
ForeignKept == ForeignDestinationsKept /\ HumanTextPreserved
=============================================================================
