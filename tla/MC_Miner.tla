------------------------------ MODULE MC_Miner ------------------------------
(* The Miner on a small instance: two transactions, a chain that grows by   *)
(* at most two blocks, at most four mining sessions.                        *)
EXTENDS Miner, TLC

CONSTANTS t1, t2

MCTxs == {t1, t2}
MCMaxBlocks == 2
MCMaxRounds == 4

\* The transactions are interchangeable: no property names one of them.
TxSymmetry == Permutations(MCTxs)
=============================================================================
