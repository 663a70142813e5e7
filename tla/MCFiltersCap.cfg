CONSTANTS
    a = a
    b = b
    c = c
    d = d
    A = A
    B = B
    C = C
    D = D
    Keywords <- MCKeywords
    Lower <- MCLower
    NoKeyword = NoKeyword
    Cap = 2
    Adders = {r1, r2}
SPECIFICATION Spec
SYMMETRY Symmetry
INVARIANT
    CapHeld
