SPECIFICATION Spec
CONSTANTS
    Null = Null
    Dates = {1, 2}
    Keep = 1
    Workers = {w1, w2}
    Operators = {}
    Destinations = {x1}
SYMMETRY Symmetry
PROPERTIES RefusedOnlyWhileUnderWay
