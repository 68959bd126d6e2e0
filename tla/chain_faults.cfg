CONSTANTS
    o2 = o2
    o3 = o3
    o4 = o4
    r1 = r1
    r2 = r2
    r3 = r3
    None = None
    Free = Free
    Lost = Lost
    Object = {1, o2}
    Fn = {1, 2, 3, 4}
    Request = {r1, r2, r3}
    RouteOf <- MCFaultyRouteOf
    Route <- MCFaultyRoute
    Known <- MCCollided
    Limited = TRUE
    NThreads <- MCOneThread
    PipeSize = 1
    Mortal = {2}
    Fd = {1, 2}
    Probe = {r3}
    Flaky = {r1}
SPECIFICATION Spec
INVARIANTS OneHolder OwnConnection AnsweredOnce AtItsHop BatchIsFresh ObjectsBounded
PROPERTY ExchangeSpec
CHECK_DEADLOCK FALSE
