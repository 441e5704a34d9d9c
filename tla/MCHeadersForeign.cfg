SPECIFICATION Spec
CONSTANTS
    Words <- MCWords
    Offers <- MCForeign
    MaxOffers = 3
    Decoded <- MCDecoded
    SegmentBound = 64
    Bodies <- MCBodies
    OtherAuthorizations <- MCOtherAuthorizations
INVARIANTS
    ForeignSkipped
CHECK_DEADLOCK FALSE
