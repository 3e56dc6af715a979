CONSTANTS
    Me = Me
    Comments = {c1, c2}
    Contents = {t1, t2}
    NoUser = NoUser
    NoContent = NoContent
    MaxCalls = 3
SPECIFICATION Spec
SYMMETRY Symmetry
INVARIANTS EditShows
