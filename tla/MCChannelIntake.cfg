SPECIFICATION Spec
CONSTANTS
    ann = ann
    bob = bob
    eve = eve
    bot = bot
    dm = dm
    group = group
    Users = {ann, bob, eve}
    Self = bot
    Chats = {dm, group}
    MaxPosts = 2
    BootTime = 2
    Instances <- MCInstances
INVARIANTS
    TakenOnce
    MeantIsTaken
    ReactionSettles
CHECK_DEADLOCK FALSE
