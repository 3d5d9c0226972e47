-------------------------- MODULE MC_EthService --------------------------
(* Two handler goroutines, two solc paths and two calls each: enough for   *)
(* one handler to be inside Solc while the other runs SetSolc to the end.  *)
EXTENDS EthService, TLC

CONSTANTS g1, g2, p1, p2

MCCallers  == {g1, g2}
MCPaths    == {p1, p2}
MCMaxCalls == 2
=============================================================================
