\* RPC clients, the mempool, the block factory and the chain service
\* together: CommitTX chunking, the ordering of MemPoolDel before the next
\* MemPoolGet, and what GatherTXs hands the factory.
CONSTANTS
    Accounts = {"a"}
    CommitLists <- MCCommitLists
    SendBodies <- MCSendBodies
    Clients = {"c1"}
    Chunk = 1
    MaxBlockBodySize = 2
    Outcomes = {"ok", "timeout", "error"}
    MaxBlocks = 2
    Nil = Nil
SPECIFICATION Spec
INVARIANTS
    TypeOK
    StateWithinBody
    CommitResultsAligned
    NoDoubleExecution
