--------------------------- MODULE MC_DbUpgrade ---------------------------
(* A chain of up to three blocks (heights 0..2) and up to two halts: enough *)
(* for a halt inside the migration of a non-head block, a restart, a second *)
(* halt inside the head's migration or the bloom loop, and a block inserted *)
(* by the running node after the upgrade.                                   *)
EXTENDS DbUpgrade

MCMaxHeight == 2
MCMaxHalts  == 2
=============================================================================
