CONSTANTS
    Users = {u1, u2}
    Boards = {b1, b2}
    Workers = {w1}
    NoUser = NoUser
    MaxLikes = 2
    MaxLost = 1
    Ops = {"create", "detail", "edit", "remove", "like", "unlike"}
SPECIFICATION DriftSpec
INVARIANTS NumLikeIsLikeCount
PROPERTIES ImplementsLedger
