\* Anchors at every height up to 1040; GetMissing requests as handleOrphan
\* builds them, on every consistent store of the six blocks.
CONSTANTS
    Nil = Nil
    Word = 65536
    G = G
    A1 = A1
    A2 = A2
    B1 = B1
    B2 = B2
    B3 = B3
    MaxLatest = 1040
    Honest = TRUE
    Word32 = 256
    MaxFetch = 3
    Base = 4
    BlockNo <- MCBlockNo
SPECIFICATION Spec
INVARIANTS
    TypeOK
    AnchorsAsSpecified
    NoPanic
    MissingAsSpecified
    HeadersAsSpecified
    GetBlockAsSpecified
