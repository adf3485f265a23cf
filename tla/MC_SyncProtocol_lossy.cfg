\* Sync of the chain G -> B1 -> B2 -> B3 from a peer, one message lost; does a parked orphan get its parent?.
CONSTANTS
    acctA = acctA
    acctB = acctB
    acctC = acctC
    G = G
    A1 = A1
    A2 = A2
    B1 = B1
    B2 = B2
    B3 = B3
    X = X
    Nil = Nil
    Accounts <- MCAccounts
    Genesis <- G
    Parent <- MCParent
    BlockNo <- MCBlockNo
    Txs <- MCTxs
    GenesisAlloc <- MCGenesisAlloc
    Invalid = {}
    Faults = {}
    Sent <- NoneSent
    PeerChain <- MCPeerChain
    Word = 65536
    MaxInbox = 2
    MaxLoss = 1
SPECIFICATION SyncSpec
PROPERTIES
    OrphansResolved
