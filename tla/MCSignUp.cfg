CONSTANTS
    Emails = {"kim@a", "kim@mail"}
    Passwords = {p1}
    Workers = {w1, w2}
    Fold <- MCFold
    Registrable = {"kim@a"}
    Ids = {i1}
    AccessLife = 1
    RefreshLife = 1
    NoForm = NoForm
    LastDay = 0
    Calls = {k1, k2}
    NoCall = NoCall
SPECIFICATION FairAppSpec
INVARIANTS AppTypeOK SuccessMeansTaken EnteredAsOneself
PROPERTIES EveryTapTold TapUntilTold
