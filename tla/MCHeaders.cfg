SPECIFICATION Spec
CONSTANTS
    Words <- MCWords
    Offers <- MCOffers
    MaxOffers = 3
    Decoded <- MCDecoded
    SegmentBound = 1
    Bodies <- MCBodies
    OtherAuthorizations <- MCOtherAuthorizations
INVARIANTS
    TypeOK
    FoundAsOffered
    RealmKept
    PairPreferred
    AnswerUnderstood
CHECK_DEADLOCK FALSE
