CONSTANTS
    a = a
    b = b
    c = c
    d = d
    e = e
    f = f
    Elems = {a, b, c, d, e, f}
    Values = {1, 2, 3, 4}
    NoElem = NoElem
SYMMETRY MCSymmetry
SPECIFICATION Spec
INVARIANTS HeapOrder
