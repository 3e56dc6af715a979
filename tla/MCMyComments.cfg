CONSTANTS
    Me = Me
    Comments = {c1}
    Contents = {t1, t2}
    NoUser = NoUser
    NoContent = NoContent
    MaxCalls = 4
SPECIFICATION FairSpec
INVARIANTS TypeOK CurrentUnlessExcused
PROPERTIES CatchesUp
