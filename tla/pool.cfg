CONSTANTS
    N = 4
    Limit = 3
SPECIFICATION Spec
INVARIANTS TypeOK ExclusiveUse NoneLost NoSlotRace NeverFull RefusedWhenOut
PROPERTY PoolSpec
\* The allocating thread ends when it is refused, and the gateway stops for good.
CHECK_DEADLOCK FALSE
