\* Expected violation: the refresh at line 417 drops transactions flushed from the pool at Start.
CONSTANTS
    t1 = t1
    t2 = t2
    Txs <- MCTxs
    MaxBlocks <- MCMaxBlocks
    MaxRounds <- MCMaxRounds
SPECIFICATION Spec
SYMMETRY TxSymmetry
INVARIANT NoTxLost
CHECK_DEADLOCK FALSE
