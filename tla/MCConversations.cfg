SPECIFICATION FairSpec
CONSTANTS
    ada = ada
    bob = bob
    chat = chat
    coder = coder
    main = main
    daily = daily
    weekly = weekly
    digest = digest
    None = None
    source = source
    Texts = {source}
    Nothing = Nothing
    Code = Code
    Users = {ada, bob}
    Homes = {chat}
    Agents = {coder}
    Default = main
    Jobs = {daily, weekly}
    Names = {digest}
    InCode = {}
    Barred = {}
    Deploys <- MCDeploys
    MaxEdits = 2
    MaxOpen = 1
    MaxMessages = 1
    MaxCommands = 1
    MaxFaults = 1
    Persistent = TRUE
INVARIANTS
    TypeOK
    JobsKeepTheirOwner
PROPERTIES
    OneConversation
    JobsStay
    DanglingDisarmed
