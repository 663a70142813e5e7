CONSTANTS
    Users = {admin, student}
    Admins = {admin}
    AccessTTL = 2
    Owner = student
    Subjects = {student}
    Calls = {c1, c2}
    NoUser = NoUser
    a = a
    b = b
    A = A
    Keywords <- MCKeywords
    Lower <- MCLower
    NoKeyword = NoKeyword
    Cap = 1
    Adders = {r1, r2, r3}
SPECIFICATION Spec
SYMMETRY Symmetry
INVARIANTS
    TypeOK
    SuspensionTraceable
    OvershootBounded
    ListedOnce
PROPERTIES
    DeletedOwnerDrains
    ModerationDrains
