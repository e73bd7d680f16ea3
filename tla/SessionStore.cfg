SPECIFICATION Spec
CONSTANTS
    Request = {r1, r2}
    Token = {t1, t2, t3, t4}
    Lifetimes = {0, 1}
    MaxSessions = 2
    MaxTime = 2
SYMMETRY Symmetry
INVARIANTS SameSessions BoundedStore LoggedOutIsGone StaysSignedIn
CHECK_DEADLOCK FALSE
