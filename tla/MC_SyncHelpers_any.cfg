\* GetMissing requests with any stop hash and candidates a peer can send, and
\* GetBlock values of any length up to 8 bytes from an RPC client.
CONSTANTS
    Nil = Nil
    Word = 65536
    G = G
    A1 = A1
    A2 = A2
    B1 = B1
    B2 = B2
    B3 = B3
    MaxLatest = 1040
    Honest = FALSE
    Word32 = 256
    MaxFetch = 3
    Base = 4
    BlockNo <- MCBlockNo
SPECIFICATION Spec
INVARIANTS
    NoPanic
