CONSTANTS
    Emails = {"kim@a", "Kim@a", "kim@mail"}
    Passwords = {p1, p2}
    Workers = {w1, w2}
    Fold <- MCFold
    Registrable = {"kim@a", "Kim@a"}
    Ids = {i1, i2}
    AccessLife = 2
    RefreshLife = 2
    NoForm = NoForm
    LastDay = 4
SPECIFICATION Spec
SYMMETRY Symmetry
INVARIANTS TypeOK OneAccountPerEmail ToldCanLogIn LoginWearsOff
PROPERTIES ImplementsRegistry
