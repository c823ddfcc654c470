SPECIFICATION Spec
CONSTANTS
    Null = Null
    Dates = {1, 2}
    Keep = 1
    Workers = {w1, w2}
    Operators = {p1}
    Destinations = {x1}
SYMMETRY Symmetry
INVARIANTS DeclaredCopiesThere RestoredIsDeclared StatusNeverOverclaims OutcomesAudited
PROPERTIES RestoredStays DailyCopiesSpec
CONSTRAINT Apart
