\* Expected violation: stopMining never returns, so the listener never finishes an event.
CONSTANTS
    t1 = t1
    t2 = t2
    Txs <- MCTxs
    MaxBlocks <- MCMaxBlocks
    MaxRounds <- MCMaxRounds
SPECIFICATION FairSpec
PROPERTY EventHandled
CHECK_DEADLOCK FALSE
