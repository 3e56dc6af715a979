CONSTANTS
    Users = {u1, u2}
    Boards = {b1}
    Workers = {w1, w2}
    NoUser = NoUser
    MaxLikes = 2
    Ops = {"create", "like", "unlike"}
SPECIFICATION Spec
SYMMETRY Symmetry
INVARIANTS NumLikeIsLikeCount
