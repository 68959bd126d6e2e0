CONSTANTS
    None = None
    Object = {0, 1}
    NFn = 3
    HashSize = 5
    PidsOf <- MCPidsOf
SPECIFICATION Spec
INVARIANTS TypeOK TablesAgree NothingAstray
PROPERTY Assembled
\* A rendezvous that was disturbed may never end.
CHECK_DEADLOCK FALSE
