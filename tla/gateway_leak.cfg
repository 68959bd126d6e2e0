CONSTANTS
    o2 = o2
    o3 = o3
    o4 = o4
    r1 = r1
    r2 = r2
    r3 = r3
    None = None
    Free = Free
    Lost = Lost
    Object = {1, o2, o3, o4}
    Fn = {1, 2}
    Request = {r1, r2, r3}
    RouteOf <- MCRouteOf
    Route <- MCRoute
    Known <- MCAllKnown
    Limited = FALSE
    NThreads <- MCOneThread
    PipeSize = 1
    Mortal = {}
    Fd = {1, 2}
    Probe = {}
    Flaky = {}
SPECIFICATION Spec
SYMMETRY MCSymmetry
INVARIANT AnsweredIsReturned
CHECK_DEADLOCK FALSE
