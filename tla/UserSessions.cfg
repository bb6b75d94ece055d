\* Two browsers manage two accounts; requests may be lost.
SPECIFICATION Spec
CONSTANTS
    Browsers = {b1, b2}
    Users = {u1, u2}
    Roles = {"ADMIN", "OWNER"}
    Passwords = {p1, p2}
    Tokens = {t1, t2}
    None = None
    RequestsMayFail = TRUE
SYMMETRY Symmetry
INVARIANTS
    TypeOK
    AdministratorRemains
    DeletedActNoMore

