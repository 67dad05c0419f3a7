SPECIFICATION Spec
CONSTANTS
    OutCap = 1
    ErrCap = 5
    MaxChunks = 2
INVARIANTS TypeOK Delivered
PROPERTIES Flows
