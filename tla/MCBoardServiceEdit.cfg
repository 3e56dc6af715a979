CONSTANTS
    Users = {u1, u2}
    Boards = {b1}
    Workers = {w1}
    NoUser = NoUser
    MaxLikes = 2
    Ops = {"create", "edit", "remove"}
SPECIFICATION Spec
PROPERTIES AuthorCanEdit
