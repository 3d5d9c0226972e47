------------------------- MODULE MC_DownloaderAPI -------------------------
(* Three clients and three sync events: a subscription can die before its  *)
(* insert, another between two passes, and a third stay live, while the    *)
(* run loop makes enough passes for each to be pruned or notified.         *)
EXTENDS DownloaderAPI, TLC

CONSTANTS c1, c2, c3

MCClients   == {c1, c2, c3}
MCMaxEvents == 3
ClientSymmetry == Permutations(MCClients)
=============================================================================
