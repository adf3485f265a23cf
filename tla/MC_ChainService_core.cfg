\* Block ingestion without store failures: every delivery order of the
\* blocks, A1 delivered twice.
CONSTANTS
    acctA = acctA
    acctB = acctB
    acctC = acctC
    G = G
    A1 = A1
    A2 = A2
    B1 = B1
    B2 = B2
    B3 = B3
    X = X
    Nil = Nil
    Accounts <- MCAccounts
    Genesis <- G
    Parent <- MCParent
    BlockNo <- MCBlockNo
    Txs <- MCTxs
    GenesisAlloc <- MCGenesisAlloc
    Invalid = {}
    Faults = {}
    Sent <- MCSent
SPECIFICATION Spec
INVARIANTS
    TypeOK
    MainChainLinked
    StateReplaysChain
    TrieMatchesAccounts
    HeaviestIsMain
PROPERTIES
    Converges
    ImplementsCanonicalChain
