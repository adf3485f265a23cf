\* An error inside addBlock's loop (B3 rejected by the verifier): is the
\* store transaction opened at line 108 released?
CONSTANTS
    acctA = acctA
    acctB = acctB
    acctC = acctC
    G = G
    A1 = A1
    A2 = A2
    B1 = B1
    B2 = B2
    B3 = B3
    X = X
    Nil = Nil
    Accounts <- MCAccounts
    Genesis <- G
    Parent <- MCParent
    BlockNo <- MCBlockNo
    Txs <- MCTxs
    GenesisAlloc <- MCGenesisAlloc
    Invalid = {B3}
    Faults = {}
    Sent <- MCSent
SPECIFICATION Spec
INVARIANT
    NoLeakedStoreTx
