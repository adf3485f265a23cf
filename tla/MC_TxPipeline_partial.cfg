\* A CommitTX whose second put times out: does the first chunk, already
\* in the mempool, stay there while the call returns an error?
CONSTANTS
    Accounts = {"a"}
    CommitLists <- MCCommitLists
    SendBodies <- MCSendBodies
    Clients = {"c1"}
    Chunk = 1
    MaxBlockBodySize = 2
    Outcomes = {"ok", "timeout", "error"}
    MaxBlocks = 2
    Nil = Nil
SPECIFICATION Spec
INVARIANT
    CommitAtomic
