CONSTANTS
    o1 = o1
    o2 = o2
    tanktop = tanktop
    watch = watch
    lamp = lamp
    None = None
    Object = {o1, o2}
    Catalogue = {tanktop, watch}
    Unknown = {lamp}
    Listed = watch
    Slots = 3
    MaxRequests = 3
    Requests <- MCRequests
SPECIFICATION Spec
INVARIANT HomePrices
\* The requests are finite, and the cart service may crash.
CHECK_DEADLOCK FALSE
