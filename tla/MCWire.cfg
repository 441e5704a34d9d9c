SPECIFICATION Spec
CONSTANTS
    Quarter = 1
    SizeMax <- MCSizeMax
    KeySize = 2
    DigestSize = 2
    Strings <- MCStrings
    Written <- MCWritten
    MaxLength = 6
INVARIANTS
    TypeOK
    ReEncodes
    Canonical
    Framed
CHECK_DEADLOCK FALSE
