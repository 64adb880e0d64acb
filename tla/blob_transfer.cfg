SPECIFICATION FairSpec
CONSTANTS
    N = 5
    Digests <- MCDigests
    DigestOf <- MCDigestOf
    None = None
INVARIANTS TypeOK PublishedWhole NoIndexLost FailureStops
PROPERTY Returns
CHECK_DEADLOCK FALSE
