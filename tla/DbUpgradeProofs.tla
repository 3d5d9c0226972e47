-------------------------- MODULE DbUpgradeProofs --------------------------
(***************************************************************************)
(* Proofs about the start-up database upgrades, for every chain height and *)
(* every number of halts.                                                  *)
(*                                                                         *)
(* None of NoBlockLost, RunningOnSplitFormat and VersionImpliesBins is     *)
(* inductive alone: the deletion at 874 is safe only because the block in  *)
(* hand already has all its parts, the upgrade is complete only because    *)
(* every block the iterator has passed is converted, and the marker is     *)
(* written only because the loop covered 0..LastBlock and the chain is     *)
(* exactly 0..LastBlock.  DbIInv (in DbUpgrade) records these facts.       *)
(***************************************************************************)
EXTENDS DbUpgrade, TLAPS

USE DbConstAssumption

(* At the start of New, DbIInv reduces to its unconditional conjuncts. *)
LEMMA AtCheck ==
    ASSUME upc = "chk", TypeOK, chain = 0..lastBlock, NoBlockLost,
           VersionImpliesBins, lastBlock \notin old => MigratedOutside({})
    PROVE  DbIInv
  BY DEF DbIInv, Migrating, Writing, HeadWriting, Upgraded

(* DbIInv holds in every database a node can open. *)
LEMMA InitDbIInv == Init => DbIInv
<1> SUFFICES ASSUME Init PROVE DbIInv
  OBVIOUS
<1>0. /\ upc = "chk" /\ todo = {} /\ cur = NoHash /\ latest = NoHash /\ i = 0
      /\ headDone = {} /\ halts = 0
  BY DEF Init
<1>1. /\ upc \in PCs /\ todo \subseteq Heights
      /\ cur \in Heights \cup {NoHash} /\ latest \in Heights \cup {NoHash}
      /\ i \in 0..(MaxHeight + 1) /\ headDone \subseteq Heights
      /\ halts \in 0..MaxHalts
  BY <1>0 DEF PCs
<1>2. CASE CleanDb
  <2>1. 0..lastBlock = {}
    BY <1>2 DEF CleanDb, NoHash
  <2>2. canon \in [Heights -> Heights \cup {NoHash}]
    BY <1>2 DEF CleanDb, Canon
  <2>3. TypeOK
    BY <1>1, <1>2, <2>2 DEF CleanDb, TypeOK, Heights, NoHash
  <2>4. QED
    BY <1>0, <1>2, <2>1, <2>3, AtCheck DEF CleanDb, NoBlockLost,
       VersionImpliesBins, MigratedOutside
<1>3. CASE \E k \in Heights, gap \in Heights \cup {NoHash} :
              OldDb(k, gap) \/ SplitDb(k, gap, FALSE)
  <2>1. PICK k \in Heights, gap \in Heights \cup {NoHash} :
              OldDb(k, gap) \/ SplitDb(k, gap, FALSE)
    BY <1>3
  <2>2. canon \in [Heights -> Heights \cup {NoHash}]
    BY <2>1 DEF OldDb, SplitDb, Canon, Heights
  <2>3. 0..k \subseteq Heights
    BY DEF Heights
  <2>4. TypeOK
    <3>1. CASE OldDb(k, gap)
      BY <1>1, <2>2, <2>3, <3>1 DEF OldDb, TypeOK
    <3>2. CASE SplitDb(k, gap, FALSE)
      BY <1>1, <2>2, <2>3, <3>2 DEF SplitDb, TypeOK
    <3>3. QED
      BY <2>1, <3>1, <3>2
  <2>5. chain = 0..lastBlock /\ VersionImpliesBins
    BY <2>1 DEF OldDb, SplitDb, VersionImpliesBins
  <2>6. NoBlockLost /\ (lastBlock \notin old => MigratedOutside({}))
    <3>1. CASE OldDb(k, gap)
      BY <3>1, DbConstAssumption DEF OldDb, NoBlockLost, Heights
    <3>2. CASE SplitDb(k, gap, FALSE)
      BY <3>2 DEF SplitDb, NoBlockLost, MigratedOutside, Split
    <3>3. QED
      BY <2>1, <3>1, <3>2
  <2>7. QED
    BY <1>0, <2>4, <2>5, <2>6, AtCheck
<1>4. CASE \E k \in Heights : SplitDb(k, NoHash, TRUE)
  <2>1. PICK k \in Heights : SplitDb(k, NoHash, TRUE)
    BY <1>4
  <2>2. canon \in [Heights -> Heights \cup {NoHash}]
    BY <2>1 DEF SplitDb, Canon, Heights
  <2>3. TypeOK
    BY <1>1, <2>1, <2>2 DEF SplitDb, TypeOK, Heights
  <2>4. QED
    BY <1>0, <2>1, <2>3, AtCheck DEF SplitDb, NoBlockLost, Split,
       VersionImpliesBins, MigratedOutside
<1>5. QED
  BY <1>2, <1>3, <1>4 DEF Init

(* Every step of the node keeps DbIInv. *)
LEMMA NextDbIInv == DbIInv /\ [Next]_vars => DbIInv'
<1> SUFFICES ASSUME DbIInv, [Next]_vars PROVE DbIInv'
  OBVIOUS
<1>1. CASE UpgradeCheck
  <2>1. CASE lastBlock = NoHash \/ lastBlock \notin old
    <3>1. upc' = "mipchk"
          /\ UNCHANGED <<dbVars, todo, cur, latest, i, chain, headDone, halts>>
      BY <1>1, <2>1 DEF UpgradeCheck
    <3>2. MigratedOutside({})
      BY <2>1 DEF DbIInv, MigratedOutside, NoHash
    <3>3. QED
      BY <3>1, <3>2 DEF DbIInv, TypeOK, NoBlockLost, MigratedOutside, Split,
         VersionImpliesBins, Migrating, Writing, HeadWriting, Upgraded,
         dbVars, PCs
  <2>2. CASE ~(lastBlock = NoHash \/ lastBlock \notin old)
    <3>1. upc' = "scan" /\ todo' = old
          /\ UNCHANGED <<dbVars, cur, latest, i, chain, headDone, halts>>
      BY <1>1, <2>2 DEF UpgradeCheck
    <3>2. lastBlock \in Heights
      BY <2>2 DEF DbIInv, TypeOK
    <3>3. MigratedOutside(old \cup {lastBlock})
      BY DEF DbIInv, NoBlockLost, MigratedOutside
    <3>4. QED
      BY <3>1, <3>2, <3>3 DEF DbIInv, TypeOK, NoBlockLost, MigratedOutside,
         Split, VersionImpliesBins, Migrating, Writing, HeadWriting,
         Upgraded, dbVars, PCs
  <2>3. QED
    BY <2>1, <2>2
<1>2. CASE ScanSkipHead
  BY <1>2 DEF ScanSkipHead, DbIInv, TypeOK, NoBlockLost, MigratedOutside,
     Split, VersionImpliesBins, Migrating, Writing, HeadWriting, Upgraded,
     dbVars, PCs
<1>3. CASE ScanPick
  BY <1>3 DEF ScanPick, DbIInv, TypeOK, NoBlockLost, MigratedOutside,
     Split, VersionImpliesBins, Migrating, Writing, HeadWriting, Upgraded,
     dbVars, PCs
<1>4. CASE ScanDone
  BY <1>4 DEF ScanDone, DbIInv, TypeOK, NoBlockLost, MigratedOutside,
     Split, VersionImpliesBins, Migrating, Writing, HeadWriting, Upgraded,
     dbVars, PCs, Heights, NoHash
<1>5. CASE WriteTd
  BY <1>5 DEF WriteTd, DbIInv, TypeOK, NoBlockLost, MigratedOutside,
     Split, VersionImpliesBins, Migrating, Writing, HeadWriting, Upgraded, PCs
<1>6. CASE WriteBody
  BY <1>6 DEF WriteBody, DbIInv, TypeOK, NoBlockLost, MigratedOutside,
     Split, VersionImpliesBins, Migrating, Writing, HeadWriting, Upgraded, PCs
<1>7. CASE WriteHeader
  BY <1>7 DEF WriteHeader, DbIInv, TypeOK, NoBlockLost, MigratedOutside,
     Split, VersionImpliesBins, Migrating, Writing, HeadWriting, Upgraded, PCs
<1>8. CASE DeleteOld
  BY <1>8 DEF DeleteOld, DbIInv, TypeOK, NoBlockLost, MigratedOutside,
     Split, VersionImpliesBins, Migrating, Writing, HeadWriting, Upgraded, PCs
<1>9. CASE MipCheck
  BY <1>9 DEF MipCheck, DbIInv, TypeOK, NoBlockLost, MigratedOutside,
     Split, VersionImpliesBins, Migrating, Writing, HeadWriting, Upgraded,
     dbVars, PCs, Heights, NoHash
<1>10. CASE MipStep
  <2>1. /\ upc = "miploop" /\ i <= latest
        /\ latest = lastBlock /\ latest \in Heights /\ i \in Heights
        /\ 0..(i - 1) \subseteq bins
    BY <1>10 DEF MipStep, DbIInv, TypeOK, Heights
  <2>2. CASE canon[i] = NoHash
    <3>1. upc' = "down" /\ UNCHANGED <<dbVars, todo, cur, latest, i, chain,
                                       headDone, halts>>
      BY <1>10, <2>2 DEF MipStep, dbVars
    <3>2. QED
      BY <3>1 DEF DbIInv, TypeOK, NoBlockLost, MigratedOutside, Split,
         VersionImpliesBins, Migrating, Writing, HeadWriting, Upgraded,
         dbVars, PCs
  <2>3. CASE canon[i] # NoHash
    <3>1. /\ bins' = bins \cup {i} /\ i' = i + 1 /\ upc' = "miploop"
          /\ UNCHANGED <<lastBlock, old, td, body, header, canon, version,
                         todo, cur, latest, chain, headDone, halts>>
      BY <1>10, <2>1, <2>3 DEF MipStep
    <3>2. /\ i' <= latest' + 1 /\ 0..(i' - 1) \subseteq bins'
          /\ i' \in 0..(MaxHeight + 1) /\ bins' \subseteq Heights
      BY <2>1, <3>1 DEF DbIInv, TypeOK, Heights
    <3>3. QED
      BY <2>1, <3>1, <3>2 DEF DbIInv, TypeOK, NoBlockLost, MigratedOutside,
         Split, VersionImpliesBins, Migrating, Writing, HeadWriting,
         Upgraded, PCs
  <2>4. QED
    BY <2>2, <2>3
<1>11. CASE MipDone
  BY <1>11 DEF MipDone, DbIInv, TypeOK, NoBlockLost, MigratedOutside,
     Split, VersionImpliesBins, Migrating, Writing, HeadWriting, Upgraded,
     dbVars, PCs
<1>12. CASE WriteVersion
  BY <1>12 DEF WriteVersion, DbIInv, TypeOK, NoBlockLost, MigratedOutside,
     Split, VersionImpliesBins, Migrating, Writing, HeadWriting, Upgraded, PCs
<1>13. CASE Halt
  BY <1>13 DEF Halt, DbIInv, TypeOK, NoBlockLost, MigratedOutside,
     Split, VersionImpliesBins, Migrating, Writing, HeadWriting, Upgraded,
     dbVars, PCs, NoHash
<1>14. CASE Boot
  BY <1>14 DEF Boot, DbIInv, TypeOK, NoBlockLost, MigratedOutside,
     Split, VersionImpliesBins, Migrating, Writing, HeadWriting, Upgraded,
     dbVars, PCs
<1>15. CASE InsertBlock
  BY <1>15 DEF InsertBlock, DbIInv, TypeOK, NoBlockLost, MigratedOutside,
     Split, VersionImpliesBins, Migrating, Writing, HeadWriting, Upgraded,
     procVars, PCs, Heights, NoHash
<1>16. CASE UNCHANGED vars
  BY <1>16 DEF vars, dbVars, procVars, DbIInv, TypeOK, NoBlockLost,
     MigratedOutside, Split, VersionImpliesBins
<1>17. QED
  BY <1>1, <1>2, <1>3, <1>4, <1>5, <1>6, <1>7, <1>8, <1>9, <1>10, <1>11,
     <1>12, <1>13, <1>14, <1>15, <1>16 DEF Next, Startup

----------------------------------------------------------------------------
(* Every variable keeps its type across halts and restarts. *)
THEOREM DbTypeCorrect == Spec => []TypeOK
<1>1. DbIInv => TypeOK
  BY DEF DbIInv
<1>2. QED
  BY InitDbIInv, NextDbIInv, <1>1, PTL DEF Spec

(* Crash safety of upgradeChainDatabase for every chain length and any     *)
(* number of halts: no block is ever unreadable in both formats, because   *)
(* the combined entry is deleted (874) only after td, body and header.     *)
THEOREM CrashSafe == Spec => []NoBlockLost
<1>1. DbIInv => NoBlockLost
  BY DEF DbIInv
<1>2. QED
  BY InitDbIInv, NextDbIInv, <1>1, PTL DEF Spec

(* Whenever New returns and the node runs, the whole chain is in the split *)
(* format, whatever halts interrupted earlier starts: an interrupted       *)
(* migration leaves the head's combined entry, so the check at 845 runs it *)
(* again.                                                                  *)
THEOREM UpgradeComplete == Spec => []RunningOnSplitFormat
<1>1. DbIInv => RunningOnSplitFormat
  BY DEF DbIInv, RunningOnSplitFormat, Upgraded, MigratedOutside
<1>2. QED
  BY InitDbIInv, NextDbIInv, <1>1, PTL DEF Spec

(* The mipmap version marker (written by the defer at 908-917) is present  *)
(* only when every stored block has its bloom bin: the loop covers         *)
(* 0..LastBlock, which is the whole chain, and an error skips the write.   *)
THEOREM BloomMarkerSound == Spec => []VersionImpliesBins
<1>1. DbIInv => VersionImpliesBins
  BY DEF DbIInv
<1>2. QED
  BY InitDbIInv, NextDbIInv, <1>1, PTL DEF Spec

(* DbIInv holds in every reachable state, for every chain length and any   *)
(* number of halts: the migration's program point, the block in hand and   *)
(* the parts written so far always agree with the database.                *)
THEOREM DbInvariant == Spec => []DbIInv
  BY InitDbIInv, NextDbIInv, PTL DEF Spec

=============================================================================
