------------------------------ MODULE MCAccess ------------------------------
(***************************************************************************)
(* Two names that are one identifier in a script; a user whose role goes   *)
(* by id, one whose role goes by username, and one without a role.         *)
(***************************************************************************)
EXTENDS Access

CONSTANTS
    my_flow, myFlow, workflowMyFlow, output, search, cron, ls, task, researcher, admin, viewer,
    ann, bob, cid, bobby

MCIdentifier ==
    [t \in ToolNames |->
        IF t \in WorkflowTools(Names) THEN workflowMyFlow
        ELSE IF t \in Names THEN myFlow ELSE t]

Only(axis, ns) == [NoGrant EXCEPT ![axis] = ns]
MCGrants ==
    {Only("workflows", {Star}), Only("workflows", {my_flow}), Only("tools", {task}),
     Only("subagents", {researcher})}

Sub(shape, report, ts) == [type |-> researcher, shape |-> shape, output |-> report, tools |-> ts]
MCSpecs ==
    {Sub("graph", "main_agent", {}), Sub("dict", "main_agent", {my_flow}),
     Sub("declared", "main_agent", None), Sub("declared", "main_agent", {}),
     Sub("declared", "main_agent", {search}),
     Sub("declared", "channel", {}), Sub("declared", "channel", {my_flow})}

MCSelections == {None, [names |-> {search}, own |-> {}], [names |-> {my_flow}, own |-> {}]}

MCBases ==
    {[enabled |-> FALSE, default |-> viewer, roles |-> << >>],
     [enabled |-> TRUE, default |-> viewer,
      roles |-> [r \in {admin} |-> [NoGrant EXCEPT !["tools"] = {Star}]]]}
MCScripts == {[on |-> FALSE, allow |-> {}], [on |-> TRUE, allow |-> {Star}]}

MCIdRole == [u \in {ann} |-> admin]
MCNameRole == [n \in {bobby} |-> admin]
MCUserName == [u \in Users |-> IF u = bob THEN bobby ELSE None]
=============================================================================
