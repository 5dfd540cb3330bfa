SPECIFICATION FairSpec
CONSTANTS
    phone = phone
    laptop = laptop
    disk = disk
    mail = mail
    Conditions = {disk, mail}
    Clients = {phone, laptop}
    Turns <- MCTurns
    Others = {"telegram"}
    MaxMessages = 2
    Chunks = 1
    Instances <- MCInstances
INVARIANTS
    TypeOK
    Accounted
    Nested
    WholeOrApology
PROPERTIES
    ShutdownCompletes
    TickChecksAll
