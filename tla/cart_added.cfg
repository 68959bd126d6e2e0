CONSTANTS
    w1 = w1
    w2 = w2
    w3 = w3
    tanktop = tanktop
    watch = watch
    None = None
    Worker = {w1, w2, w3}
    Product = {tanktop, watch}
    Slots = 3
    Requests <- MCRequests
SPECIFICATION Spec
SYMMETRY MCSymmetry
PROPERTY AddedIsStored
\* The service may crash.
CHECK_DEADLOCK FALSE
