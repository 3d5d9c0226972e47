------------------------------ MODULE DbStore ------------------------------
(***************************************************************************)
(* What the chain database promises across the upgrades eth.New runs       *)
(* (src/eth/bind.go 537-548, 837-937): the blocks a reader finds change    *)
(* only when the running node inserts one; while the node starts, blocks   *)
(* are converted to the split format and given their bloom bins one at a  *)
(* time; the node only runs once every block is converted and bloomed, and *)
(* marks the database then.  The node may go down at any time and start    *)
(* again.  DbUpgrade implements it with one step per database write.       *)
(***************************************************************************)

CONSTANT Blocks       \* the blocks there may be

VARIABLES
    blocks,      \* the blocks a reader finds, in either format
    split,       \* the blocks stored in the split td/body/header format
    bloomed,     \* the blocks with a mipmap bloom bin
    marked,      \* the mipmap version marker is present
    node         \* "starting", "running" or "down"

vars == <<blocks, split, bloomed, marked, node>>

Init ==
    /\ blocks \subseteq Blocks /\ split \subseteq blocks
    /\ bloomed \subseteq blocks /\ marked \in BOOLEAN
    /\ marked => blocks \subseteq bloomed
    /\ node = "starting"

\* The upgrade stores block b in the split format.
Convert(b) ==
    /\ node = "starting" /\ b \in blocks
    /\ split' = split \cup {b}
    /\ UNCHANGED <<blocks, bloomed, marked, node>>

\* The upgrade writes the bloom bin of block b.
Bloom(b) ==
    /\ node = "starting" /\ b \in blocks
    /\ bloomed' = bloomed \cup {b}
    /\ UNCHANGED <<blocks, split, marked, node>>

\* New returns: every block is converted and bloomed, the marker is set.
Ready ==
    /\ node = "starting"
    /\ blocks \subseteq split /\ blocks \subseteq bloomed
    /\ marked' = TRUE /\ node' = "running"
    /\ UNCHANGED <<blocks, split, bloomed>>

\* The running node stores a new block, in the split format with its bin.
Insert(b) ==
    /\ node = "running" /\ b \in Blocks \ blocks
    /\ blocks' = blocks \cup {b} /\ split' = split \cup {b}
    /\ bloomed' = bloomed \cup {b}
    /\ UNCHANGED <<marked, node>>

Down ==
    /\ node # "down" /\ node' = "down"
    /\ UNCHANGED <<blocks, split, bloomed, marked>>

Restart ==
    /\ node = "down" /\ node' = "starting"
    /\ UNCHANGED <<blocks, split, bloomed, marked>>

Next ==
    \/ \E b \in Blocks : Convert(b) \/ Bloom(b) \/ Insert(b)
    \/ Ready \/ Down \/ Restart

Spec == Init /\ [][Next]_vars
=============================================================================
