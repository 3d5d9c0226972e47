\* Expected violation: Stop leaves the mining session running.
CONSTANTS
    t1 = t1
    t2 = t2
    Txs <- MCTxs
    MaxBlocks <- MCMaxBlocks
    MaxRounds <- MCMaxRounds
SPECIFICATION Spec
SYMMETRY TxSymmetry
INVARIANT StopCancelsMining
CHECK_DEADLOCK FALSE
