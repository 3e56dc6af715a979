CONSTANTS
    Users = {u1, u2}
    Boards = {b1}
    Workers = {w1, w2}
    NoUser = NoUser
    MaxLikes = 2
    MaxLost = 3
    Ops = {"create", "detail", "edit", "remove", "like", "unlike"}
SPECIFICATION FairDriftSpec
INVARIANTS TypeOK InFlightConsistent CounterExactUnlessDrifted CounterWithinLost ReadsWithinMissed
PROPERTIES LikeOnce RowsImplementLedger EveryRequestAnswered
