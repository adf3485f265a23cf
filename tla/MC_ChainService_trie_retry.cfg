\* The trie update of apply fails after the accounts were merged (statedb.go
\* 222-235): is the state db still the replay of the chain its latest names?
CONSTANTS
    acctA = acctA
    acctB = acctB
    acctC = acctC
    G = G
    A1 = A1
    A2 = A2
    B1 = B1
    B2 = B2
    B3 = B3
    X = X
    Nil = Nil
    Accounts <- MCAccounts
    Genesis <- G
    Parent <- MCParent
    BlockNo <- MCBlockNo
    Txs <- MCTxs
    GenesisAlloc <- MCGenesisAlloc
    Invalid = {}
    Faults = {}
    Sent <- MCSent
SPECIFICATION TrieFaultSpec
INVARIANT
    StateReplaysChain
