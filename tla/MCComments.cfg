CONSTANTS
    LowerCase <- MCLowerCase
    Texts <- MCTexts
    Keywords <- MCKeywords
    Lower <- MCLower
    NoText = NoText
    NoKeyword = NoKeyword
    Cap = 1
    Adders = {a1}
    Togglers = {t1, t2}
    Authors = {u1, u2}
    Viewers = {v1}
    Limit = 1
    MaxComments = 2
SPECIFICATION Spec
CHECK_DEADLOCK FALSE
SYMMETRY Symmetry
INVARIANTS
    TypeOK
    AnswerIsTimely
    PlainKeywordsHide
    PageIsFull
PROPERTIES
    UndisturbedToggleFlips
    ClosedSectionDrains
