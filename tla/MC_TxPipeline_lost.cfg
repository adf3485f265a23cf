\* Three ready transactions against a body limit of two, txOp always
\* succeeding: GatherTXs returns the one over the limit in the body
\* (tx.go:121) without executing it, the chain adds the block without
\* executing it either, and MemPoolDel removes it. Is it lost?
CONSTANTS
    Accounts = {"a"}
    CommitLists <- MCCommitLists
    SendBodies <- MCSendBodies
    Clients = {"c1"}
    Chunk = 1
    MaxBlockBodySize = 2
    Outcomes = {"ok"}
    MaxBlocks = 2
    Nil = Nil
SPECIFICATION Spec
INVARIANT
    TxNeverLost
