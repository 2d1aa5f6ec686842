SPECIFICATION OrderedSpec
CONSTANTS
    w1 = w1  w2 = w2  w3 = w3  k1 = k1
    Wallets = {w1, w2, w3}
    Keys = {k1}
    NoKey = NoKey
    Txs = {1, 2, 3}
    Bodies <- MCBodies
    Clean = Clean
CHECK_DEADLOCK FALSE
INVARIANTS
    TypeOK
    DeadlockOnlyInRings
PROPERTIES
    ImplementsCommits
    EveryTransactionEnds
