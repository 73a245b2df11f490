\* All maps over five labels and two values, in every order of Puts.
SPECIFICATION TreeSpec
CONSTANTS
    Label <- MCLabel
    BadLabel <- MCBadLabel
    LabelLen = 3
    Val = {v1, v2}
    NoVal = NoVal
INVARIANTS
    DigestIsIdeal
    ProofsDecide
PROPERTY ImplementsMap
