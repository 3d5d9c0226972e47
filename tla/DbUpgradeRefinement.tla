------------------------ MODULE DbUpgradeRefinement ------------------------
(***************************************************************************)
(* Proof that the start-up upgrades implement DbStore (StoreRefined), for  *)
(* every chain height and every number of halts.  The mapping reads the    *)
(* blocks a reader finds (Stored) and the blocks in the split format       *)
(* (Converted) off the database; DbIInv alone does not pin them down, so   *)
(* StoreIInv adds that no entry exists outside the chain and that the      *)
(* parts of a block are written td, body, header in that order: then      *)
(* Stored is the chain and Converted is the set of headers, and every      *)
(* write of the upgrades but a header leaves both alone.                   *)
(***************************************************************************)
EXTENDS DbUpgradeProofs

\* DbIInv, and: every entry belongs to a stored block; a header is written
\* only after the body and a body only after the td (865-871, and the same
\* order at 881-887); the keys the iterator has left, and the block in hand,
\* are stored blocks.
StoreIInv ==
    /\ DbIInv
    /\ old \subseteq chain /\ td \subseteq chain /\ bins \subseteq chain
    /\ header \subseteq body /\ body \subseteq td
    /\ upc \in Migrating => todo \subseteq chain
    /\ upc \in Writing => cur \in chain

(* In every database a node can open, the entries are those of the chain  *)
(* and every block has all its parts or none.                             *)
LEMMA InitStoreIInv == Init => StoreIInv
<1> SUFFICES ASSUME Init PROVE StoreIInv
  OBVIOUS
<1>1. DbIInv
  BY InitDbIInv
<1>2. upc = "chk"
  BY DEF Init
<1>3. CASE CleanDb
  BY <1>1, <1>2, <1>3 DEF StoreIInv, CleanDb, Migrating, Writing
<1>4. CASE \E k \in Heights, gap \in Heights \cup {NoHash} :
              OldDb(k, gap) \/ SplitDb(k, gap, FALSE)
  BY <1>1, <1>2, <1>4 DEF StoreIInv, OldDb, SplitDb, Migrating, Writing
<1>5. CASE \E k \in Heights : SplitDb(k, NoHash, TRUE)
  BY <1>1, <1>2, <1>5 DEF StoreIInv, SplitDb, Migrating, Writing
<1>6. QED
  BY <1>3, <1>4, <1>5 DEF Init

(* Every step keeps StoreIInv: the migration only writes parts of the     *)
(* block in hand, in order; the bloom loop only writes bins up to the     *)
(* head; the running node stores a whole block at a time.                 *)
LEMMA NextStoreIInv == StoreIInv /\ [Next]_vars => StoreIInv'
<1> SUFFICES ASSUME StoreIInv, [Next]_vars PROVE StoreIInv'
  OBVIOUS
<1>0. DbIInv'
  BY NextDbIInv DEF StoreIInv
<1> USE <1>0 DEF StoreIInv, Migrating, Writing, dbVars
<1>1. CASE UpgradeCheck
  BY <1>1 DEF UpgradeCheck
<1>2. CASE ScanSkipHead
  BY <1>2 DEF ScanSkipHead
<1>3. CASE ScanPick
  BY <1>3 DEF ScanPick
<1>4. CASE ScanDone
  BY <1>4 DEF ScanDone, DbIInv, Heights
<1>5. CASE WriteTd
  BY <1>5 DEF WriteTd
<1>6. CASE WriteBody
  BY <1>6 DEF WriteBody, DbIInv
<1>7. CASE WriteHeader
  BY <1>7 DEF WriteHeader, DbIInv
<1>8. CASE DeleteOld
  BY <1>8 DEF DeleteOld
<1>9. CASE MipCheck
  <2>1. /\ UNCHANGED <<dbVars, todo, cur, chain>>
        /\ upc' \in {"running", "mipver", "miploop"}
    BY <1>9, Zenon DEF MipCheck
  <2>2. QED
    BY <2>1
<1>10. CASE MipStep
  <2>1. upc = "miploop" /\ i <= latest /\ latest = lastBlock /\ i \in Nat
    BY <1>10 DEF MipStep, DbIInv, TypeOK
  <2>2. i \in chain
    BY <2>1 DEF DbIInv
  <2>3. QED
    BY <1>10, <2>2 DEF MipStep
<1>11. CASE MipDone
  BY <1>11 DEF MipDone
<1>12. CASE WriteVersion
  BY <1>12 DEF WriteVersion
<1>13. CASE Halt
  BY <1>13 DEF Halt
<1>14. CASE Boot
  BY <1>14 DEF Boot
<1>15. CASE InsertBlock
  BY <1>15 DEF InsertBlock, procVars
<1>16. CASE UNCHANGED vars
  BY <1>16 DEF vars, dbVars, procVars
<1>17. QED
  BY <1>1, <1>2, <1>3, <1>4, <1>5, <1>6, <1>7, <1>8, <1>9, <1>10, <1>11,
     <1>12, <1>13, <1>14, <1>15, <1>16 DEF Next, Startup


(* Under StoreIInv the blocks a reader finds are the chain, and the blocks *)
(* in the split format are those with a header.                            *)
LEMMA StoredIsChain ==
    StoreIInv => Stored = chain /\ Converted = header
  BY DEF StoreIInv, DbIInv, TypeOK, NoBlockLost, Stored, Converted, Split

LEMMA StoredIsChainNext ==
    StoreIInv' => Stored' = chain' /\ Converted' = header'
  BY DEF StoreIInv, DbIInv, TypeOK, NoBlockLost, Stored, Converted, Split

(* Every database a node can open is a state DbStore starts in. *)
LEMMA InitStoreRefined == Init => Store!Init
<1> SUFFICES ASSUME Init PROVE Store!Init
  OBVIOUS
<1>1. StoreIInv
  BY InitStoreIInv
<1>2. Stored = chain /\ Converted = header
  BY <1>1, StoredIsChain
<1>3. Phase = "starting"
  BY DEF Init, Phase
<1>4. QED
  BY <1>1, <1>2, <1>3 DEF Store!Init, StoreIInv, DbIInv, TypeOK,
     VersionImpliesBins

(* Every step of the upgrades, of a halt, a restart or an insertion is a   *)
(* DbStore step or a stutter: a header write is Convert, a bin write is    *)
(* Bloom, New's return is Ready, a halt or a corrupted canonical mapping   *)
(* is Down, a restart is Restart, a new block is Insert; the td, body and  *)
(* delete writes, the scan and the checks change nothing a reader sees.    *)
LEMMA NextStoreRefined ==
    StoreIInv /\ StoreIInv' /\ [Next]_vars => [Store!Next]_Store!vars
<1> SUFFICES ASSUME StoreIInv, StoreIInv', [Next]_vars
             PROVE  [Store!Next]_Store!vars
  OBVIOUS
<1>1. Stored = chain /\ Converted = header
  BY StoredIsChain
<1>2. Stored' = chain' /\ Converted' = header'
  BY StoredIsChainNext
<1> USE <1>1, <1>2 DEF Store!vars, Store!Next
\* The steps no reader sees: the store is unchanged and New still runs.
<1>0. ASSUME UNCHANGED <<chain, header, bins, version>>,
             upc \notin {"running", "down"}, upc' \notin {"running", "down"}
      PROVE  UNCHANGED Store!vars
  BY <1>0 DEF Phase
<1>3. CASE UpgradeCheck \/ ScanSkipHead \/ ScanPick \/ ScanDone
           \/ WriteTd \/ WriteBody \/ DeleteOld \/ MipDone
  BY <1>0, <1>3 DEF UpgradeCheck, ScanSkipHead, ScanPick, ScanDone, WriteTd,
     WriteBody, DeleteOld, MipDone, dbVars
<1>4. CASE WriteHeader
  <2>1. cur \in chain /\ upc \in {"header", "hheader"}
    BY <1>4 DEF WriteHeader, StoreIInv, Writing, Migrating
  <2>2. Store!Convert(cur)
    BY <1>4, <2>1 DEF WriteHeader, Store!Convert, Phase, DbIInv, TypeOK
  <2>3. QED
    BY <2>1, <2>2 DEF StoreIInv, DbIInv, TypeOK
<1>5. CASE MipCheck
  <2>1. upc = "mipchk" /\ UNCHANGED <<dbVars, chain>>
    BY <1>5 DEF MipCheck
  <2>2. CASE version
    <3>1. upc' = "running"
      BY <1>5, <2>2 DEF MipCheck
    <3>2. chain \subseteq header /\ chain \subseteq bins
      BY <2>1, <2>2 DEF StoreIInv, DbIInv, Upgraded, MigratedOutside, Split,
         VersionImpliesBins
    <3>3. Store!Ready
      BY <2>1, <2>2, <3>1, <3>2 DEF Store!Ready, Phase, dbVars
    <3>4. QED
      BY <3>3
  <2>3. CASE ~version
    <3>1. upc' \in {"mipver", "miploop"}
      BY <1>5, <2>3 DEF MipCheck
    <3>2. QED
      BY <1>0, <2>1, <3>1 DEF dbVars
  <2>4. QED
    BY <2>2, <2>3
<1>6. CASE MipStep
  <2>1. upc = "miploop" /\ i <= latest /\ latest = lastBlock /\ i \in Nat
    BY <1>6 DEF MipStep, StoreIInv, DbIInv, TypeOK
  <2>2. i \in chain
    BY <2>1 DEF StoreIInv, DbIInv
  <2>3. CASE canon[i] = NoHash
    <3>1. Store!Down
      BY <1>6, <2>1, <2>3 DEF MipStep, Store!Down, Phase
    <3>2. QED
      BY <3>1
  <2>4. CASE canon[i] # NoHash
    <3>1. Store!Bloom(i)
      BY <1>6, <2>1, <2>2, <2>4 DEF MipStep, Store!Bloom, Phase
    <3>2. QED
      BY <2>2, <3>1 DEF StoreIInv, DbIInv, TypeOK
  <2>5. QED
    BY <2>3, <2>4
<1>7. CASE WriteVersion
  <2>1. chain \subseteq header /\ chain \subseteq bins
    BY <1>7 DEF WriteVersion, StoreIInv, DbIInv, Upgraded, MigratedOutside,
       Split
  <2>2. Store!Ready
    BY <1>7, <2>1 DEF WriteVersion, Store!Ready, Phase
  <2>3. QED
    BY <2>2
<1>8. CASE Halt
  <2>1. Store!Down
    BY <1>8 DEF Halt, Store!Down, Phase, dbVars
  <2>2. QED
    BY <2>1
<1>9. CASE Boot
  <2>1. Store!Restart
    BY <1>9 DEF Boot, Store!Restart, Phase, dbVars
  <2>2. QED
    BY <2>1
<1>10. CASE InsertBlock
  <2>1. /\ upc = "running" /\ lastBlock + 1 \in Heights
        /\ lastBlock + 1 \notin chain
    BY <1>10 DEF InsertBlock, StoreIInv, DbIInv, TypeOK, Heights, NoHash
  <2>2. Store!Insert(lastBlock + 1)
    BY <1>10, <2>1 DEF InsertBlock, Store!Insert, Phase, procVars
  <2>3. QED
    BY <2>1, <2>2
<1>11. CASE UNCHANGED vars
  BY <1>11 DEF vars, dbVars, procVars, Phase
<1>12. QED
  BY <1>3, <1>4, <1>5, <1>6, <1>7, <1>8, <1>9, <1>10, <1>11 DEF Next, Startup

(* The start-up upgrades implement DbStore, for every chain height and     *)
(* every number of halts: no database write of upgradeChainDatabase or     *)
(* addMipmapBloomBins changes the blocks a reader finds, and New returns   *)
(* only once every block is converted and bloomed.                         *)
THEOREM StoreImplemented == Spec => StoreRefined
<1>1. Spec => []StoreIInv
  BY InitStoreIInv, NextStoreIInv, PTL DEF Spec
<1>2. QED
  BY <1>1, InitStoreRefined, NextStoreRefined, PTL
     DEF Spec, StoreRefined, Store!Spec

=============================================================================
