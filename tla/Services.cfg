\* The rows of the catalogue borrow the model values of the sessions: the two
\* services never share a behaviour, and one symmetry serves both.
SPECIFICATION Spec
CONSTANTS
    Names = {n1, n2}
    Passwords = {w1, w2}
    Tokens = {t1, t2}
    Callers = {p1, p2}
    Ids = {t1, t2}
    FirstStarter = m1
    SecondStarter = m2
    RowNames = {m1, m2}
    Changers = {p1, p2}
    Null = Null
    None = None
SYMMETRY Symmetry
INVARIANTS HeldSessionsAudited CsrfFitsCookie SignedOutIsOver
PROPERTIES OnlyOvertakenLoginsOutliveReset FinishedChangesStay
