---------------------------- MODULE DbUpgrade ----------------------------
(***************************************************************************)
(* The database upgrades that eth.New runs before anything else opens the  *)
(* chain database (src/eth/bind.go 537-548):                               *)
(*   upgradeChainDatabase (837-892) splits every old combined              *)
(*   "block-hash-<h>" entry into td, body and header entries, the head     *)
(*   block last;                                                           *)
(*   addMipmapBloomBins (894-937) writes a log-bloom bin for every         *)
(*   canonical block and then, from a defer, the "setting-mipmap-version"  *)
(*   marker.                                                               *)
(* Each database write is one step, and the node may halt (crash, kill or  *)
(* an error returned from New) between any two of them; a later start runs *)
(* New again from the top.  Blocks form one chain: the block of height n   *)
(* has hash n, so GetCanonicalHash(n) is n unless the mapping is missing   *)
(* (the "chain db corrupted" case of line 928).                            *)
(***************************************************************************)
EXTENDS Integers, FiniteSets

CONSTANTS
    MaxHeight,    \* the highest block height the chain may reach
    MaxHalts      \* bound on halts of the node

ASSUME DbConstAssumption == MaxHeight \in Nat /\ MaxHalts \in Nat

Heights == 0..MaxHeight
NoHash  == -1               \* an absent key, or the zero hash

VARIABLES
    \* the database
    lastBlock,   \* the "LastBlock" key: the head hash, or NoHash
    old,         \* hashes with an old combined "block-hash-" entry
    td,          \* hashes with a total-difficulty entry
    body,        \* hashes with a body entry
    header,      \* hashes with a header entry
    canon,       \* canonical number -> hash mapping
    bins,        \* heights whose mipmap bloom bin is written
    version,     \* "setting-mipmap-version" holds mipmapVersion (2)
    \* the goroutine running New
    upc,         \* its program counter
    todo,        \* keys the database iterator has still to visit
    cur,         \* the block being migrated
    latest,      \* latestBlock.NumberU64() in addMipmapBloomBins
    i,           \* the loop index of addMipmapBloomBins
    \* history
    chain,       \* the heights of all blocks ever stored
    headDone,    \* heads whose migration (878-889) completed
    halts        \* halts so far

dbVars   == <<lastBlock, old, td, body, header, canon, bins, version>>
procVars == <<upc, todo, cur, latest, i>>
vars     == <<dbVars, procVars, chain, headDone, halts>>

PCs == {"down", "chk", "scan", "td", "body", "header", "delete",
        "htd", "hbody", "hheader", "mipchk", "miploop", "mipver", "running"}

\* GetBlock (new format) finds the block: both header and body are there.
Split(h) == h \in header /\ h \in body

TypeOK ==
    /\ lastBlock \in Heights \cup {NoHash}
    /\ old \subseteq Heights /\ td \subseteq Heights
    /\ body \subseteq Heights /\ header \subseteq Heights
    /\ canon \in [Heights -> Heights \cup {NoHash}]
    /\ bins \subseteq Heights /\ version \in BOOLEAN
    /\ upc \in PCs /\ todo \subseteq Heights
    /\ cur \in Heights \cup {NoHash} /\ latest \in Heights \cup {NoHash}
    /\ i \in 0..(MaxHeight + 1)
    /\ chain \subseteq Heights /\ headDone \subseteq Heights
    /\ halts \in 0..MaxHalts

(***************************************************************************)
(* The databases a node can open: an empty one, one written by a release   *)
(* that stored combined blocks, or one already in the split format (with   *)
(* or without the mipmap bins).  The canonical mapping of one height may   *)
(* be missing.                                                             *)
(***************************************************************************)
Canon(k, gap) == [n \in Heights |-> IF n <= k /\ n # gap THEN n ELSE NoHash]

CleanDb ==
    /\ lastBlock = NoHash /\ chain = {}
    /\ old = {} /\ td = {} /\ body = {} /\ header = {}
    /\ canon = Canon(-1, NoHash) /\ bins = {} /\ version = FALSE

OldDb(k, gap) ==
    /\ lastBlock = k /\ chain = 0..k
    /\ old = 0..k /\ td = {} /\ body = {} /\ header = {}
    /\ canon = Canon(k, gap) /\ bins = {} /\ version = FALSE

SplitDb(k, gap, v) ==
    /\ lastBlock = k /\ chain = 0..k
    /\ old = {} /\ td = 0..k /\ body = 0..k /\ header = 0..k
    /\ canon = Canon(k, gap) /\ version = v
    /\ bins = IF v THEN 0..k ELSE {}

Init ==
    /\ \/ CleanDb
       \/ \E k \in Heights, gap \in Heights \cup {NoHash} :
             \/ OldDb(k, gap)
             \/ SplitDb(k, gap, FALSE)
       \/ \E k \in Heights : SplitDb(k, NoHash, TRUE)
    /\ upc = "chk" /\ todo = {} /\ cur = NoHash /\ latest = NoHash /\ i = 0
    /\ headDone = {} /\ halts = 0

(***************************************************************************)
(* upgradeChainDatabase                                                    *)
(***************************************************************************)
\* 839-847: return at once unless LastBlock names a head that still has an
\* old combined entry; otherwise open an iterator over the database.
UpgradeCheck ==
    /\ upc = "chk"
    /\ IF lastBlock = NoHash \/ lastBlock \notin old
         THEN upc' = "mipchk" /\ UNCHANGED todo
         ELSE upc' = "scan" /\ todo' = old
    /\ UNCHANGED <<dbVars, cur, latest, i, chain, headDone, halts>>

\* Mutant: break instead of continue at the head's entry.
ScanBreakAtHead ==
    /\ upc = "scan" /\ lastBlock \in todo
    /\ todo' = {}
    /\ UNCHANGED <<dbVars, upc, cur, latest, i, chain, headDone, halts>>

\* 858-861: the head block's entry is skipped (continue).
ScanSkipHead ==
    /\ upc = "scan" /\ lastBlock \in todo
    /\ todo' = todo \ {lastBlock}
    /\ UNCHANGED <<dbVars, upc, cur, latest, i, chain, headDone, halts>>

\* Mutant: the combined entry is deleted as soon as the block is loaded,
\* before its parts are written.
ScanPickDeleteFirst ==
    /\ upc = "scan"
    /\ \E h \in todo \ {lastBlock} :
          /\ cur' = h /\ todo' = todo \ {h} /\ old' = old \ {h}
    /\ upc' = "td"
    /\ UNCHANGED <<lastBlock, td, body, header, canon, bins, version,
                   latest, i, chain, headDone, halts>>

\* Mutant: the iterator is not advanced (no it.Next()).
ScanPickNoNext ==
    /\ upc = "scan"
    /\ \E h \in todo \ {lastBlock} : cur' = h
    /\ upc' = "td"
    /\ UNCHANGED <<dbVars, todo, latest, i, chain, headDone, halts>>

\* 853, 863: the iterator moves to a combined block and loads it.
ScanPick ==
    /\ upc = "scan"
    /\ \E h \in todo \ {lastBlock} :
          /\ cur' = h /\ todo' = todo \ {h}
    /\ upc' = "td"
    /\ UNCHANGED <<dbVars, latest, i, chain, headDone, halts>>

\* 877-879: the iteration is over; load the head block.
ScanDone ==
    /\ upc = "scan" /\ todo = {}
    /\ cur' = lastBlock /\ upc' = "htd"
    /\ UNCHANGED <<dbVars, todo, latest, i, chain, headDone, halts>>

\* 865 / 881: WriteTd.
WriteTd ==
    /\ upc \in {"td", "htd"}
    /\ td' = td \cup {cur}
    /\ upc' = IF upc = "td" THEN "body" ELSE "hbody"
    /\ UNCHANGED <<lastBlock, old, body, header, canon, bins, version,
                   todo, cur, latest, i, chain, headDone, halts>>

\* 868 / 884: WriteBody.
WriteBody ==
    /\ upc \in {"body", "hbody"}
    /\ body' = body \cup {cur}
    /\ upc' = IF upc = "body" THEN "header" ELSE "hheader"
    /\ UNCHANGED <<lastBlock, old, td, header, canon, bins, version,
                   todo, cur, latest, i, chain, headDone, halts>>

\* 871 / 887: WriteHeader; after the head's, upgradeChainDatabase returns
\* nil and New goes on to addMipmapBloomBins (891, 546).
WriteHeader ==
    /\ upc \in {"header", "hheader"}
    /\ header' = header \cup {cur}
    /\ upc' = IF upc = "header" THEN "delete" ELSE "mipchk"
    /\ headDone' = IF upc = "hheader" THEN headDone \cup {cur} ELSE headDone
    /\ UNCHANGED <<lastBlock, old, td, body, canon, bins, version,
                   todo, cur, latest, i, chain, halts>>

\* 874: delete the combined entry, and go on with the iteration.
DeleteOld ==
    /\ upc = "delete"
    /\ old' = old \ {cur}
    /\ upc' = "scan"
    /\ UNCHANGED <<lastBlock, td, body, header, canon, bins, version,
                   todo, cur, latest, i, chain, headDone, halts>>

(***************************************************************************)
(* addMipmapBloomBins                                                      *)
(***************************************************************************)
\* 899-921: return if the version marker is set; if GetBlock finds no head
\* block ("clean database") return nil, so that the defer writes the marker;
\* otherwise loop over the heights 0..latestBlock.NumberU64().
MipCheck ==
    /\ upc = "mipchk"
    /\ IF version THEN upc' = "running" /\ UNCHANGED <<latest, i>>
       ELSE IF lastBlock = NoHash \/ ~Split(lastBlock)
         THEN upc' = "mipver" /\ UNCHANGED <<latest, i>>
         ELSE upc' = "miploop" /\ latest' = lastBlock /\ i' = 0
    /\ UNCHANGED <<dbVars, todo, cur, chain, headDone, halts>>

\* 925-933: one iteration.  A missing canonical hash returns an error, the
\* defer writes nothing, and New fails (the node is down); otherwise the bin
\* of height i is written.
MipStep ==
    /\ upc = "miploop" /\ i <= latest
    /\ IF canon[i] = NoHash
         THEN upc' = "down" /\ UNCHANGED <<bins, i>>
         ELSE bins' = bins \cup {i} /\ i' = i + 1 /\ UNCHANGED upc
    /\ UNCHANGED <<lastBlock, old, td, body, header, canon, version,
                   todo, cur, latest, chain, headDone, halts>>

\* Mutant: the loop stops one height early (i < latest).
MipDoneEarly ==
    /\ upc = "miploop" /\ i >= latest
    /\ upc' = "mipver"
    /\ UNCHANGED <<dbVars, todo, cur, latest, i, chain, headDone, halts>>

\* 925, 936: the loop is over and the function returns nil.
MipDone ==
    /\ upc = "miploop" /\ i > latest
    /\ upc' = "mipver"
    /\ UNCHANGED <<dbVars, todo, cur, latest, i, chain, headDone, halts>>

\* 908-917: the deferred write of the version marker (err is nil here);
\* New then goes on and the node runs.
WriteVersion ==
    /\ upc = "mipver"
    /\ version' = TRUE /\ upc' = "running"
    /\ UNCHANGED <<lastBlock, old, td, body, header, canon, bins,
                   todo, cur, latest, i, chain, headDone, halts>>

(***************************************************************************)
(* The node around New                                                     *)
(***************************************************************************)
\* The node stops between two writes: a crash, a kill, or a failed write
\* whose error New returns.  Every write before is durable; nothing of the
\* goroutine survives.
Halt ==
    /\ upc # "down" /\ halts < MaxHalts
    /\ upc' = "down" /\ todo' = {} /\ cur' = NoHash
    /\ latest' = NoHash /\ i' = 0 /\ halts' = halts + 1
    /\ UNCHANGED <<dbVars, chain, headDone>>

\* The operator starts the node again: New runs from the top.
Boot ==
    /\ upc = "down"
    /\ upc' = "chk"
    /\ UNCHANGED <<dbVars, todo, cur, latest, i, chain, headDone, halts>>

\* The running node's blockchain inserts the next block: its td, body,
\* header, canonical mapping and mipmap bin, and moves LastBlock to it.
InsertBlock ==
    /\ upc = "running"
    /\ LET n == lastBlock + 1 IN     \* 0 on an empty database
         /\ n \in Heights
         /\ td' = td \cup {n} /\ body' = body \cup {n}
         /\ header' = header \cup {n} /\ bins' = bins \cup {n}
         /\ canon' = [canon EXCEPT ![n] = n]
         /\ lastBlock' = n /\ chain' = chain \cup {n}
    /\ UNCHANGED <<old, version, procVars, headDone, halts>>

Startup == UpgradeCheck \/ ScanSkipHead \/ ScanPick \/ ScanDone
           \/ WriteTd \/ WriteBody \/ WriteHeader \/ DeleteOld
           \/ MipCheck \/ MipStep \/ MipDone \/ WriteVersion

Next == Startup \/ Halt \/ Boot \/ InsertBlock

Spec == Init /\ [][Next]_vars

\* New runs on one goroutine, which the Go runtime keeps scheduling; the
\* operator need not restart a halted node, nor the chain grow.
FairSpec == Spec /\ WF_vars(Startup)

(***************************************************************************)
(* Properties                                                              *)
(***************************************************************************)
\* Crash safety of upgradeChainDatabase: whenever the node halts, every block
\* ever stored is still readable in one format or the other -- its combined
\* entry is deleted (874) only after td, body and header are written.
NoBlockLost == \A h \in chain : h \in old \/ (h \in td /\ Split(h))

\* Once New has finished and the node runs, every block is readable in the
\* new format: no restart leaves part of the database unconverted.
RunningOnSplitFormat ==
    upc = "running" => \A h \in chain : h \in td /\ Split(h)

\* The mipmap version marker written by the defer (908-917) is never present
\* while some stored block lacks its bloom bin, whatever the halts.
VersionImpliesBins == version => chain \subseteq bins

\* Each start of New finishes: the node runs, or it is down (a halt, or the
\* error of a corrupted database); the iteration at 853 terminates.
StartupTerminates == (upc = "chk") ~> (upc \in {"running", "down"})

\* The comments at 858 and 878 say that migrating the head last disables
\* the upgrade: once the head is migrated, no later start scans the database
\* again for that head.
UpgradeRunsOnce == upc = "scan" => lastBlock \notin headDone

\* Program points inside upgradeChainDatabase's migration, those that write
\* a block's parts, those of the head's migration, and those after it.
Migrating   == {"scan", "td", "body", "header", "delete", "htd", "hbody", "hheader"}
Writing     == Migrating \ {"scan"}
HeadWriting == {"htd", "hbody", "hheader"}
Upgraded    == {"mipchk", "miploop", "mipver", "running"}

\* Every stored block outside S is fully in the new format.
MigratedOutside(S) == \A h \in chain \ S : h \in td /\ Split(h)

\* The inductive strengthening of NoBlockLost, RunningOnSplitFormat and
\* VersionImpliesBins: the chain is 0..LastBlock; inside the migration the
\* block in hand has the parts written so far, and only blocks the iterator
\* has still to visit, the one in hand and the head are unconverted, and
\* none is unless the head keeps its combined entry (so that the check at
\* 845 starts the migration); the bloom loop has written the bins below i.
DbIInv ==
    /\ TypeOK
    /\ chain = 0..lastBlock
    /\ NoBlockLost
    /\ upc \in Migrating => lastBlock \in Heights
    /\ upc \in Writing => cur \in Heights
    /\ upc \in {"td", "body", "header", "delete"} => cur # lastBlock
    /\ lastBlock \notin old => MigratedOutside({})
    /\ upc \in HeadWriting => cur = lastBlock
    /\ upc \in {"body", "hbody"} => cur \in td
    /\ upc \in {"header", "hheader"} => cur \in td /\ cur \in body
    /\ upc = "delete" => cur \in td /\ Split(cur)
    /\ upc = "scan" => MigratedOutside(todo \cup {lastBlock})
    /\ upc \in {"td", "body", "header", "delete"} =>
           MigratedOutside(todo \cup {lastBlock, cur})
    /\ upc \in HeadWriting => MigratedOutside({lastBlock})
    /\ upc \in Upgraded => MigratedOutside({})
    /\ upc = "miploop" =>
           /\ latest = lastBlock /\ latest \in Heights
           /\ i <= latest + 1 /\ 0..(i - 1) \subseteq bins
    /\ upc = "mipver" => chain \subseteq bins
    /\ VersionImpliesBins

(***************************************************************************)
(* Refinement of DbStore                                                   *)
(***************************************************************************)
\* The blocks a reader finds: GetBlock reads the old combined entry or, in
\* the new format, the td, body and header entries.
Stored == {h \in Heights : h \in old \/ (h \in td /\ Split(h))}

\* The blocks fully written in the split format.
Converted == {h \in Heights : h \in td /\ Split(h)}

\* The node as DbStore sees it: New is running (any program point of the
\* upgrades), New has returned, or the node is down.
Phase ==
    IF upc = "running" THEN "running"
    ELSE IF upc = "down" THEN "down"
    ELSE "starting"

Store == INSTANCE DbStore
           WITH Blocks <- Heights, blocks <- Stored, split <- Converted,
                bloomed <- bins, marked <- version, node <- Phase

\* Every step of New, of a halt, a restart or a block insertion is a step of
\* DbStore or leaves its state alone: no database write of the upgrades
\* changes the blocks a reader finds, and New only returns once every block
\* is converted and bloomed.
StoreRefined == Store!Spec

=============================================================================
