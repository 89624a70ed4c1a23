CONSTANTS
    Clerks = {c1, c2}
    Keys = {k}
    Values = {v1, v2}
    Empty = Empty
    MaxVersion = 2
SPECIFICATION Spec
SYMMETRY Symmetry
INVARIANTS TypeOK PutAnswersAreTrue
PROPERTIES ImplementsStore
