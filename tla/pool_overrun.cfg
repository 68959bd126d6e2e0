CONSTANTS N = 4 Limit = 4
SPECIFICATION Spec
INVARIANT EmptyIsSeen
CHECK_DEADLOCK FALSE
