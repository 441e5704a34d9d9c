SPECIFICATION Spec
CONSTANTS
    Words <- MCWords
    Offers <- MCShared
    MaxOffers = 3
    Decoded <- MCDecoded
    SegmentBound = 64
    Bodies <- MCBodies
    OtherAuthorizations <- MCOtherAuthorizations
INVARIANTS
    UnknownIgnored
CHECK_DEADLOCK FALSE
