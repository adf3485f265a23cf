\* Block ingestion with every error path of the handler: store failures
\* after the state db applied a block, a contract call that fails (B3, on
\* the main chain or on a branch a reorganisation must execute), a block
\* the verifier rejects that also carries a wrong number (X), and a
\* redelivered block.
CONSTANTS
    acctA = acctA
    acctB = acctB
    acctC = acctC
    G = G
    A1 = A1
    A2 = A2
    B1 = B1
    B2 = B2
    B3 = B3
    X = X
    Nil = Nil
    Accounts <- MCAccounts
    Genesis <- G
    Parent <- MCParentX
    BlockNo <- MCBlockNoX
    Txs <- MCTxsCallFails
    GenesisAlloc <- MCGenesisAlloc
    Invalid = {X}
    Faults = {"store"}
    Sent <- MCSent
SPECIFICATION Spec
INVARIANTS
    MainChainLinked
    StateReplaysChain
    TrieMatchesAccounts
    StateDbAtStoreTip
    HaltsOnlyOnBadBranch
