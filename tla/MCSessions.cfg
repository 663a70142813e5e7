CONSTANTS
    Users = {u1, u2}
    Admins = {}
    Tokens = {t1, t2, t3}
    Requests = {r1, r2}
    AccessTTL = 2
    NoUser = NoUser
    NoToken = NoToken
SPECIFICATION Spec
SYMMETRY Symmetry
INVARIANTS
    TypeOK
    DeletedUserLosesAccess
    OneCarrierPerLogin
PROPERTIES
    ChainSpec
    LeaseSpec
