CONSTANTS
    Emails = {"kim@a"}
    Passwords = {p1, p2}
    Workers = {w1, w2}
    Fold <- MCFold
    Registrable = {"kim@a"}
    Ids = {i1}
    AccessLife = 1
    RefreshLife = 1
    NoForm = NoForm
    LastDay = 0
    Calls = {k1, k2}
    NoCall = NoCall
SPECIFICATION AppSpec
INVARIANTS SuccessMeansAccount
