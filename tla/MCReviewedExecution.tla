------------------------- MODULE MCReviewedExecution -------------------------
(***************************************************************************)
(* The runs of ReviewedExecution around the plan that Planner makes for    *)
(* node, a tool that needs node, a skill pack that needs the tool, and a   *)
(* router entry.                                                           *)
(***************************************************************************)
EXTENDS ReviewedExecution, TLC

CONSTANTS planA, planB, applyA, applyB, start, remover, viewer, init

Catalogs == INSTANCE MCSetups
MCReviewedPlan == Catalogs!ReviewedPlan
MCActions == [i \in 1 .. Len(MCReviewedPlan.actions) |-> MCReviewedPlan.actions[i].id]
MCComponent == {"node", "tool", "skill", "router"}
MCDependsOn == Catalogs!Dependencies(Catalogs!CatalogOf(Catalogs!Reviewed))

MCOp == {planA, planB, applyA, applyB, start, remover, viewer, init}
MCKindOf == [o \in Op |->
    CASE o \in {planA, planB} -> "plan"
      [] o \in {applyA, applyB} -> "apply"
      [] o = start -> "startup"
      [] o = remover -> "remove"
      [] o = viewer -> "inventory"
      [] o = init -> "mcpinit"]

\* One plan applied twice around a start-up; two plans; an apply that meets an
\* MCP initialisation, a removal and then a start-up, or a view of the inventory.
AllMeetings == {
    {planA, applyA, applyB, start},
    {planA, planB, applyA, applyB},
    {planA, applyA, init},
    {planA, applyA, remover, start},
    {planA, applyA, viewer}}

\* The smallest meeting that shows a disagreement with the documents.
ViewMeeting == {{planA, applyA, viewer}}
=============================================================================
