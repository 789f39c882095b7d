CONSTANTS
    None = None
    Int64Limit = 5
    RangeSpecs <- MCRangeSpecs
    MaxRanges = 2
SPECIFICATION Spec
INVARIANTS TypeOK OffersCandidates TotalIsReachable OffersOnce
PROPERTY SearchEnds
