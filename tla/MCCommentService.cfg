CONSTANTS
    Users = {u1, u2}
    Boards = {b1}
    Workers = {w1, w2}
    Comments = {c1, c2}
    Contents = {t1, t2}
    Ops = {"create", "update", "delete", "like"}
    NoBoard = NoBoard
    NoComment = NoComment
    NoUser = NoUser
    MaxLikes = 2
SPECIFICATION Spec
SYMMETRY Symmetry
INVARIANTS TypeOK CountersExactUnlessDrifted ReferentialIntegrity
PROPERTIES ImplementsBook
