SPECIFICATION Spec
CONSTANTS
    m1 = m1
    m2 = m2
    note = note
    chat = chat
    Turns <- MCTurns
    Direct = {note}
    Chats = {chat}
    Chat <- MCChat
    Configs <- MCConfigs
    MaxTurns = 2
    MaxPieces = 2
    MaxTools = 1
    MaxFailures = 1
PROPERTIES
    KeepsPromise
INVARIANTS
    TypeOK
    ShownOnce
    PiecesAccounted
    StreamComplete
    ReplyIsOwn
    TypingMeansWork
SYMMETRY TurnSymmetry
