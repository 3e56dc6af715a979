CONSTANTS
    Users = {u1, u2}
    Boards = {b1, b2}
    Workers = {w1, w2}
    Comments = {c1}
    Contents = {t1}
    Ops = {"create", "update", "delete", "like", "unlike"}
    NoBoard = NoBoard
    NoComment = NoComment
    NoUser = NoUser
    MaxLikes = 2
SPECIFICATION FairSpec
INVARIANTS CountersExactUnlessDrifted
PROPERTIES LikeOnce LikesOfTheirUsers EveryRequestAnswered
