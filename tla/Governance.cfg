SPECIFICATION Spec
CONSTANTS
    Nil = Nil
    Blank = Blank
    Slugs = {new1, new2, old1, old2}
    Actors = {p, q}
    MaxNumber = 3
    Legacy = {old1, old2}
    Hint <- Hints
    Anchored = {2}
    Landed = {old1, old2}
    VerbSets <- Families
    Hooks = {p, q}
    Verbs = {v}
    Rotations = {r}
    Crowds <- Crowded
    Emissions = 1
    Mishaps = 2
    Sessions = {a, b}
    Subagents = {b}
    MaxRetries = 2
    Blocking = TRUE
    Verifiable = TRUE
    Counts = 3
    Observers = {p, q}
    Extractors = {1, 2}
    Chats = {a}
    Kinds = {"start", "failure"}
    Retention = 0
    Horizon = 2
    Deaths = 1
    Servers = {a, b}
    Guards = {1, 2, 3}
    Lifetime = 1
    Base = 2
    Longest = 3
    FailOpen = FALSE
    LastHour = 3
SYMMETRY Symmetry
CONSTRAINTS FewStarted MigrationApart InOrder TwoAtOnce
INVARIANTS OneNumberPerSpec CleanupSettles ChainForksOnlyUnlocked BlocksWithinBudget CountedOnce VerdictsFollowTheServer
PROPERTIES ClearedOnceArchived
CHECK_DEADLOCK FALSE
