SPECIFICATION Spec
CONSTANTS
    my_flow = my_flow
    myFlow = myFlow
    search = search
    cron = cron
    ls = ls
    task = task
    researcher = researcher
    admin = admin
    viewer = viewer
    ann = ann
    bob = bob
    cid = cid
    bobby = bobby
    workflowMyFlow = workflowMyFlow
    output = output
    Star = Star
    None = None
    Default = Default
    Sinks = {output}
    Names = {my_flow, myFlow}
    Builtin = {search, cron}
    Injected = {ls, task}
    Task = task
    Readonly = {search, ls, task}
    Subagents = {researcher}
    Roles = {admin, viewer}
    Identifier <- MCIdentifier
    Reserved = {}
    Specs <- MCSpecs
    Selections <- MCSelections
    Grants <- MCGrants
    MaxCalls = 2
    Bases <- MCBases
    Scripts <- MCScripts
    Cron = cron
    Viewer = viewer
    Users = {ann, bob, cid}
    IdRole <- MCIdRole
    NameRole <- MCNameRole
    UserName <- MCUserName
    MaxStarts = 2
INVARIANT
    EntryPointsAgree
