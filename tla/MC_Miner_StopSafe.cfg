\* Expected violation: Stop before Start dereferences a nil subscription.
CONSTANTS
    t1 = t1
    t2 = t2
    Txs <- MCTxs
    MaxBlocks <- MCMaxBlocks
    MaxRounds <- MCMaxRounds
SPECIFICATION Spec
SYMMETRY TxSymmetry
INVARIANT StopIsHarmless
CHECK_DEADLOCK FALSE
