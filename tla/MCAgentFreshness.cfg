SPECIFICATION MCSpec
CONSTANTS
    report = report
    digest = digest
    search = search
    main = main
    coder = coder
    old = old
    new = new
    Texts = {old, new}
    Nothing = Nothing
    Code = Code
    Unknown = Unknown
    Names = {report, digest, search}
    InCode = {report}
    Barred = {search}
    Agents = {main, coder}
    Default = main
    MaxEdits = 3
    MaxFailures = 1
INVARIANTS
    TypeOK
    NothingMissed
    CodeWins
PROPERTIES
    TurnIsCurrent
