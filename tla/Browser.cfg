SPECIFICATION Spec
CONSTANTS
    Contents = {c1, c2}
    FormKeys = {k1, k2, k3}
    Drafts = {d1}
    FormCalls = {s1, s2}
    MaxMounts = 3
    MaxIntents = 3
    Null = Null
    PageAccounts = {a1, a2}
    Cutoffs = {today}
    Balances = {b1, b2}
    PageEntries = {e1}
    MaxAsked = 3
    Nothing = Nothing
    Times = {1, 2}
    EventIds = {1, 2, 3, 4}
    Limit = 1
    PageCalls = {p1, p2}
    NoCursor = NoCursor
SYMMETRY Symmetry
CONSTRAINT LastIsIdle
INVARIANTS
    RetriedMovementPostsOnce
    ShownIsCurrent
    CompletedIsTrue
    NoEventSkipped
CHECK_DEADLOCK FALSE
