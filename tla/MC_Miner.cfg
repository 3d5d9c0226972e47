\* Safety of the Miner as written.  Behaviours end when the listener blocks in
\* stopMining and the posters wait on it, or when the bounds are reached.
CONSTANTS
    t1 = t1
    t2 = t2
    Txs <- MCTxs
    MaxBlocks <- MCMaxBlocks
    MaxRounds <- MCMaxRounds
SPECIFICATION Spec
SYMMETRY TxSymmetry
INVARIANT TypeOK
INVARIANT AtMostOneSession
INVARIANT FailedTxsStayOut
\* The inductive invariant the proofs of MinerProofs use.
INVARIANT IInv
CHECK_DEADLOCK FALSE
