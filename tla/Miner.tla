------------------------------- MODULE Miner -------------------------------
(***************************************************************************)
(* The block-production engine of src/eth/bind.go (package ethminer,       *)
(* lines 208-424), as the code is written.                                 *)
(*                                                                         *)
(* Goroutines modelled:                                                    *)
(*   - the caller, which calls Start, Stop and ToggleTurbo;                *)
(*   - the listener goroutine (listener, lines 290-351);                   *)
(*   - one goroutine per mining session (mineNewBlock, lines 370-423),     *)
(*     spawned by startMining (353-359), numbered by the round that        *)
(*     created it;                                                         *)
(*   - the environment: the transaction pool receiving transactions and    *)
(*     the chain manager importing blocks, both posting on the event mux.  *)
(*                                                                         *)
(* The event mux delivers a post to a subscriber synchronously: the poster *)
(* waits until the listener takes the event at its select, or until the    *)
(* subscription is closed by Unsubscribe.  Events of posters that are      *)
(* still waiting are kept in `outbox`.                                     *)
(*                                                                         *)
(* Data abstraction: transactions are model values; miner.txs, a slice,    *)
(* is the set of its elements (ProcessTransactions' outcome is chosen      *)
(* nondeterministically, so the nonce order sort.Sort gives it decides     *)
(* nothing the properties tell apart); state roots, rewards, receipts and  *)
(* gas are left out.                                                       *)
(***************************************************************************)
EXTENDS Integers, Sequences, FiniteSets

CONSTANTS
    Txs,        \* the transactions that may arrive at the node
    MaxBlocks,  \* bound on the number of blocks besides the genesis block
    MaxRounds   \* bound on the number of mining sessions startMining creates

ASSUME ConstAssumption ==
    /\ IsFiniteSet(Txs)
    /\ MaxBlocks \in Nat
    /\ MaxRounds \in Nat

Blocks   == 0..MaxBlocks        \* block ids; 0 is the genesis block
NoBlock  == -1                  \* the parent of the genesis block
NoId     == -1                  \* the id of a block not yet processed
Sessions == 1..MaxRounds        \* mining sessions, by round
NoSession == 0                  \* powQuitChan before the first startMining

\* Goroutine states of a mining session.
Live    == {"assemble", "search", "finalize", "post"}
WStates == {"idle", "exit"} \cup Live
\* Listener goroutine states: not started, before its first startMining, at
\* the select, holding a received event, blocked forever in stopMining,
\* spinning on a closed subscription channel.
LStates == {"off", "init", "loop", "recv", "blocked", "spin"}

NewBlockEvent(b) == [kind |-> "NewBlock", arg |-> b]
TxPreEvent(t)    == [kind |-> "TxPre", arg |-> t]
Events == {NewBlockEvent(b) : b \in Blocks} \cup {TxPreEvent(t) : t \in Txs}
NoEvent == [kind |-> "None", arg |-> NoId]

VARIABLES
    lifecycle,   \* "new", "running", "stopped" or "crashed" (the caller's view)
    subscribed,  \* miner.events is an open subscription of the event mux
    lpc,         \* listener goroutine state
    ev,          \* the event the listener received
    outbox,      \* events of environment posters waiting for delivery
    txs,         \* miner.txs
    uncles,      \* miner.uncles
    block,       \* miner.block, the block being mined
    powQuitChan, \* the session whose quit channel miner.powQuitChan holds
    wpc,         \* goroutine state of each mining session
    round,       \* number of sessions startMining has created
    turbo,       \* miner.turbo, forwarded to the PoW engine
    pool,        \* transactions in the transaction pool
    arrived,     \* transactions that have arrived at the node (history)
    failed,      \* transactions ProcessTransactions reported erroneous (history)
    parent,      \* parent of every block id in use
    btxs,        \* transactions of every block id in use
    nblocks,     \* number of blocks besides genesis
    head         \* the chain manager's CurrentBlock

minerVars == <<lifecycle, subscribed, lpc, ev, txs, uncles, block,
               powQuitChan, wpc, round, turbo>>
envVars   == <<outbox, pool, arrived, failed, parent, btxs, nblocks, head>>
vars == <<minerVars, envVars>>

BlockRecs == [parent : Blocks, txs : SUBSET Txs, uncles : Seq(Blocks),
              id : Blocks \cup {NoId}]

\* Transactions contained in a block of the chain database.
InChain == UNION {btxs[b] : b \in 1..nblocks}

\* The blocks from b back to the genesis block (parents have smaller ids).
Ancestors[b \in Blocks] ==
    IF parent[b] = NoBlock THEN {b} ELSE {b} \cup Ancestors[parent[b]]

\* Transactions already on the chain that ends in block b.
CanonTxs(b) == UNION {btxs[a] : a \in Ancestors[b]}

TypeOK ==
    /\ lifecycle \in {"new", "running", "stopped", "crashed"}
    /\ subscribed \in BOOLEAN
    /\ lpc \in LStates
    /\ ev \in Events \cup {NoEvent}
    /\ outbox \in SUBSET Events
    /\ txs \in SUBSET Txs
    /\ uncles \in Seq(Blocks)
    /\ block \in BlockRecs
    /\ powQuitChan \in Sessions \cup {NoSession}
    /\ wpc \in [Sessions -> WStates]
    /\ round \in 0..MaxRounds
    /\ turbo \in BOOLEAN
    /\ pool \in SUBSET Txs
    /\ arrived \in SUBSET Txs
    /\ failed \in SUBSET Txs
    /\ parent \in [Blocks -> Blocks \cup {NoBlock}]
    /\ btxs \in [Blocks -> SUBSET Txs]
    /\ nblocks \in 0..MaxBlocks
    /\ head \in Blocks

----------------------------------------------------------------------------
(* NewDefaultMiner (251-259) and a chain holding only its genesis block.   *)
Init ==
    /\ lifecycle = "new"
    /\ subscribed = FALSE
    /\ lpc = "off"
    /\ ev = NoEvent
    /\ outbox = {}
    /\ txs = {}
    /\ uncles = <<>>
    /\ block = [parent |-> 0, txs |-> {}, uncles |-> <<>>, id |-> NoId]
    /\ powQuitChan = NoSession
    /\ wpc = [s \in Sessions |-> "idle"]
    /\ round = 0
    /\ turbo = FALSE
    /\ pool = {}
    /\ arrived = {}
    /\ failed = {}
    /\ parent = [b \in Blocks |-> NoBlock]
    /\ btxs = [b \in Blocks |-> {}]
    /\ nblocks = 0
    /\ head = 0

(* startMining (353-359), called k times in a row, with w the goroutine    *)
(* states of the sessions before it: each call makes a fresh quit channel, *)
(* stores it in powQuitChan and spawns a mineNewBlock goroutine.  powDone  *)
(* is made on the first call and never written to, so the listener's      *)
(* powDone case (347-348) never fires and is not modelled.                 *)
StartMining(w, k) ==
    /\ round + k <= MaxRounds
    /\ round' = round + k
    /\ wpc' = [s \in Sessions |-> IF round < s /\ s <= round + k
                                    THEN "assemble" ELSE w[s]]
    /\ powQuitChan' = IF k = 0 THEN powQuitChan ELSE round + k

(* Mutant: a stopMining that returns without waiting for the session, as  *)
(* a receive with a default case would.                                    *)
StopMiningNoJoin == TRUE

(* stopMining (361-368) does `_, isopen := <-miner.powQuitChan`.  No       *)
(* goroutine sends on a quit channel, and its only close (365) is reached  *)
(* only when a receive reported the channel open, which takes a send: the  *)
(* receive could only return on a closed channel, and no quit channel is   *)
(* ever closed.  So stopMining never returns.                              *)
StopMiningReturns == FALSE

----------------------------------------------------------------------------
(* The caller.                                                             *)

(* Start (267-282): flush the pool into miner.txs, make the first block,   *)
(* subscribe to NewBlockEvent and TxPreEvent, spawn the listener and post  *)
(* the Started notification (no subscriber of the model reads it).         *)
Start ==
    /\ lifecycle = "new"
    /\ lifecycle' = "running"
    /\ txs' = pool
    /\ pool' = {}
    /\ block' = [parent |-> head, txs |-> {}, uncles |-> <<>>, id |-> NoId]
    /\ subscribed' = TRUE
    /\ lpc' = "init"
    /\ UNCHANGED <<ev, outbox, uncles, powQuitChan, wpc, round, turbo,
                   arrived, failed, parent, btxs, nblocks, head>>

(* Stop (284-288): unsubscribe and post Stopped.  Before Start, miner.events *)
(* is nil and the call dereferences it: the program crashes.  A second Stop *)
(* unsubscribes again, which the mux ignores: it changes nothing and is not *)
(* a step of the model.  Stop leaves the mining sessions alone.             *)
Stop ==
    /\ \/ /\ lifecycle = "running"
          /\ lifecycle' = "stopped"
          /\ subscribed' = FALSE
       \/ /\ lifecycle = "new"
          /\ lifecycle' = "crashed"
          /\ UNCHANGED subscribed
    /\ UNCHANGED <<lpc, ev, txs, uncles, block, powQuitChan, wpc, round,
                   turbo, envVars>>

(* ToggleTurbo (261-265): flip miner.turbo and pass it to the PoW engine. *)
ToggleTurbo ==
    /\ lifecycle # "crashed"
    /\ turbo' = ~turbo
    /\ UNCHANGED <<lifecycle, subscribed, lpc, ev, txs, uncles, block,
                   powQuitChan, wpc, round, envVars>>

----------------------------------------------------------------------------
(* The listener goroutine.                                                 *)

(* listener, line 291: the first startMining. *)
ListenerInit ==
    /\ lpc = "init"
    /\ StartMining(wpc, 1)
    /\ lpc' = "loop"
    /\ UNCHANGED <<lifecycle, subscribed, ev, txs, uncles, block, turbo,
                   envVars>>

(* listener, line 295, after Unsubscribe closed the subscription channel:  *)
(* the receive yields nil, which no case of the type switch matches, and   *)
(* the loop receives again at once: the goroutine spins and never exits.   *)
ListenerSpin ==
    /\ lpc = "loop"
    /\ ~subscribed
    /\ lpc' = "spin"
    /\ UNCHANGED <<lifecycle, subscribed, ev, txs, uncles, block,
                   powQuitChan, wpc, round, turbo, envVars>>

(* listener, NewBlockEvent case (297-326): stopMining, then, if the block  *)
(* is the chain manager's current block, drop from miner.txs the           *)
(* transactions it contains; else if it is a sibling of the current block  *)
(* append it to miner.uncles; then startMining.                            *)
HandleNewBlock ==
    /\ lpc = "recv"
    /\ ev.kind = "NewBlock"
    /\ IF StopMiningReturns
         THEN /\ IF ev.arg = head
                   THEN /\ txs' = txs \ btxs[ev.arg]
                        /\ UNCHANGED uncles
                   ELSE /\ uncles' = IF parent[ev.arg] = parent[head]
                                       THEN Append(uncles, ev.arg)
                                       ELSE uncles
                        /\ UNCHANGED txs
              /\ StartMining(wpc, 1)
              /\ lpc' = "loop"
         ELSE /\ lpc' = "blocked"
              /\ UNCHANGED <<txs, uncles, powQuitChan, wpc, round>>
    /\ UNCHANGED <<lifecycle, subscribed, ev, block, turbo, envVars>>

(* listener, TxPreEvent case (328-344): stopMining, then scan miner.txs    *)
(* for the transaction, calling startMining once for every element that   *)
(* does not match before the match (the scan order is the slice's, which  *)
(* the model leaves open); if there was no match, undo the block and      *)
(* append the transaction, with no further startMining.                   *)
HandleTxPre ==
    /\ lpc = "recv"
    /\ ev.kind = "TxPre"
    /\ IF StopMiningReturns
         THEN IF ev.arg \in txs
                THEN /\ \E k \in 0..(Cardinality(txs) - 1) : StartMining(wpc, k)
                     /\ UNCHANGED <<txs, block>>
                ELSE /\ StartMining(wpc, Cardinality(txs))
                     /\ txs' = txs \cup {ev.arg}
                     /\ block' = [block EXCEPT !.txs = {}]
         ELSE UNCHANGED <<txs, block, powQuitChan, wpc, round>>
    /\ lpc' = IF StopMiningReturns THEN "loop" ELSE "blocked"
    /\ UNCHANGED <<lifecycle, subscribed, ev, uncles, turbo, envVars>>

----------------------------------------------------------------------------
(* A mining session: mineNewBlock (370-423).                               *)

(* Mutant: the round forgets TxPool().RemoveSet(erroneous) (392). *)
AssembleNoRemoveSet(s) ==
    /\ wpc[s] = "assemble"
    /\ \E acc \in SUBSET txs, bad \in SUBSET txs :
         /\ acc \cap bad = {}
         /\ acc \cap CanonTxs(head) = {}
         /\ block' = [parent |-> head, txs |-> acc, uncles |-> uncles,
                      id |-> NoId]
         /\ UNCHANGED pool
         /\ failed' = failed \cup bad
         /\ txs' = txs \ bad
    /\ wpc' = [wpc EXCEPT ![s] = "search"]
    /\ UNCHANGED <<lifecycle, subscribed, lpc, ev, uncles, powQuitChan,
                   round, turbo, outbox, arrived, parent, btxs, nblocks, head>>

(* Lines 373-403: a new block on the current head with the uncles; the     *)
(* state processor splits miner.txs into accepted, unhandled and erroneous *)
(* transactions (its error is only logged), never accepting one the chain  *)
(* already holds, whose nonce is used; the erroneous ones are removed from *)
(* the pool; miner.txs keeps the accepted and unhandled ones; the block    *)
(* gets the accepted ones.                                                 *)
Assemble(s) ==
    /\ wpc[s] = "assemble"
    /\ \E acc \in SUBSET txs, bad \in SUBSET txs :
         /\ acc \cap bad = {}
         /\ acc \cap CanonTxs(head) = {}
         /\ block' = [parent |-> head, txs |-> acc, uncles |-> uncles,
                      id |-> NoId]
         /\ pool' = pool \ bad
         /\ failed' = failed \cup bad
         /\ txs' = txs \ bad
    /\ wpc' = [wpc EXCEPT ![s] = "search"]
    /\ UNCHANGED <<lifecycle, subscribed, lpc, ev, uncles, powQuitChan,
                   round, turbo, outbox, arrived, parent, btxs, nblocks, head>>

(* Line 406: pow.Search returns a nonce, or nil when the quit channel is   *)
(* closed, which never happens (see StopMiningReturns); a search that      *)
(* never ends is a behaviour that stops here.                              *)
Search(s) ==
    /\ wpc[s] = "search"
    /\ wpc' = [wpc EXCEPT ![s] = "finalize"]
    /\ UNCHANGED <<lifecycle, subscribed, lpc, ev, txs, uncles, block,
                   powQuitChan, round, turbo, envVars>>

(* Mutant: the processed block's hash is not recorded, so line 418 posts   *)
(* the unprocessed template.                                               *)
FinalizeNoId(s) ==
    /\ wpc[s] = "finalize"
    /\ \/ /\ nblocks < MaxBlocks
          /\ LET b == nblocks + 1 IN
               /\ nblocks' = b
               /\ parent' = [parent EXCEPT ![b] = block.parent]
               /\ btxs' = [btxs EXCEPT ![b] = block.txs]
               /\ head' = IF block.parent = head THEN b ELSE head
               /\ pool' = pool \ block.txs
               /\ txs' = pool \ block.txs
               /\ UNCHANGED block
          /\ wpc' = [wpc EXCEPT ![s] = "post"]
          /\ UNCHANGED <<powQuitChan, round>>
       \/ /\ StartMining([wpc EXCEPT ![s] = "exit"], 1)
          /\ UNCHANGED <<txs, block, pool, parent, btxs, nblocks, head>>
    /\ UNCHANGED <<lifecycle, subscribed, lpc, ev, uncles, turbo, outbox,
                   arrived, failed>>

(* Lines 407-422 up to the post: the state manager processes the block.    *)
(* On success the chain stores it, as the new head when it extends the     *)
(* head, and the pool drops its transactions; the block is broadcast and   *)
(* miner.txs is replaced by the pool's current transactions (417).  On     *)
(* failure the error is logged and startMining is called (422).            *)
Finalize(s) ==
    /\ wpc[s] = "finalize"
    /\ \/ /\ nblocks < MaxBlocks
          /\ LET b == nblocks + 1 IN
               /\ nblocks' = b
               /\ parent' = [parent EXCEPT ![b] = block.parent]
               /\ btxs' = [btxs EXCEPT ![b] = block.txs]
               /\ head' = IF block.parent = head THEN b ELSE head
               /\ pool' = pool \ block.txs
               /\ txs' = pool \ block.txs
               /\ block' = [block EXCEPT !.id = b]
          /\ wpc' = [wpc EXCEPT ![s] = "post"]
          /\ UNCHANGED <<powQuitChan, round>>
       \/ /\ StartMining([wpc EXCEPT ![s] = "exit"], 1)
          /\ UNCHANGED <<txs, block, pool, parent, btxs, nblocks, head>>
    /\ UNCHANGED <<lifecycle, subscribed, lpc, ev, uncles, turbo, outbox,
                   arrived, failed>>

(* Lines 418 and 422: post NewBlockEvent for the mined block, which waits  *)
(* until the listener takes it at its select or the subscription is       *)
(* closed, then startMining and exit.                                      *)
PostMined(s) ==
    /\ wpc[s] = "post"
    /\ \/ /\ subscribed
          /\ lpc = "loop"
          /\ lpc' = "recv"
          /\ ev' = NewBlockEvent(block.id)
       \/ /\ ~subscribed
          /\ UNCHANGED <<lpc, ev>>
    /\ StartMining([wpc EXCEPT ![s] = "exit"], 1)
    /\ UNCHANGED <<lifecycle, subscribed, txs, uncles, block, turbo, envVars>>

----------------------------------------------------------------------------
(* The environment.                                                        *)

(* A transaction reaches the pool, which posts TxPreEvent to the           *)
(* subscribers the mux has at that moment.                                 *)
TxArrive(t) ==
    /\ t \notin arrived
    /\ arrived' = arrived \cup {t}
    /\ pool' = pool \cup {t}
    /\ outbox' = IF subscribed THEN outbox \cup {TxPreEvent(t)} ELSE outbox
    /\ UNCHANGED <<minerVars, failed, parent, btxs, nblocks, head>>

(* The chain manager imports a block from a peer, either on the head (it   *)
(* becomes the head and the pool drops its transactions) or as a sibling   *)
(* of the head, and posts NewBlockEvent.                                   *)
ImportBlock(p, T) ==
    /\ nblocks < MaxBlocks
    /\ p \in {head, parent[head]} \ {NoBlock}
    /\ T \subseteq arrived \ CanonTxs(p)
    /\ p # head => T = {}
    /\ LET b == nblocks + 1 IN
         /\ nblocks' = b
         /\ parent' = [parent EXCEPT ![b] = p]
         /\ btxs' = [btxs EXCEPT ![b] = T]
         /\ head' = IF p = head THEN b ELSE head
         /\ outbox' = IF subscribed THEN outbox \cup {NewBlockEvent(b)}
                                    ELSE outbox
    /\ pool' = pool \ T
    /\ UNCHANGED <<minerVars, arrived, failed>>

(* The mux hands a waiting post to the listener at its select (295-296). *)
Deliver(e) ==
    /\ e \in outbox
    /\ subscribed
    /\ lpc = "loop"
    /\ lpc' = "recv"
    /\ ev' = e
    /\ outbox' = outbox \ {e}
    /\ UNCHANGED <<lifecycle, subscribed, txs, uncles, block, powQuitChan,
                   wpc, round, turbo, pool, arrived, failed, parent, btxs,
                   nblocks, head>>

(* Unsubscribe releases a post waiting on the closed subscription. *)
DropPost(e) ==
    /\ e \in outbox
    /\ ~subscribed
    /\ outbox' = outbox \ {e}
    /\ UNCHANGED <<minerVars, pool, arrived, failed, parent, btxs, nblocks,
                   head>>

----------------------------------------------------------------------------
Caller   == Start \/ Stop \/ ToggleTurbo
Listener == ListenerInit \/ ListenerSpin \/ HandleNewBlock \/ HandleTxPre
Session(s) == Assemble(s) \/ Search(s) \/ Finalize(s) \/ PostMined(s)
Environment ==
    \/ \E t \in Txs : TxArrive(t)
    \/ \E p \in Blocks, T \in SUBSET Txs : ImportBlock(p, T)
    \/ \E e \in Events : Deliver(e) \/ DropPost(e)

Next ==
    \/ Caller
    \/ Listener
    \/ \E s \in Sessions : Session(s)
    \/ Environment

(* Go schedules every runnable goroutine: the listener and each session    *)
(* make progress when they can.  The caller and the environment need not.  *)
Fairness ==
    /\ WF_vars(Listener)
    /\ \A s \in Sessions : WF_vars(Session(s))

Spec == Init /\ [][Next]_vars
FairSpec == Spec /\ Fairness

----------------------------------------------------------------------------
(* Properties.                                                             *)

(* The inductive strengthening the proofs in MinerProofs rest on: the     *)
(* listener does not exist before Start, a live session is the one         *)
(* powQuitChan names, no session runs before the listener's first          *)
(* startMining, and a session about to post has its processed block in     *)
(* miner.block.                                                            *)
NoListenerBeforeStart == lifecycle = "new" => lpc = "off"
LiveIsCurrent ==
    \A s \in Sessions : wpc[s] \in Live => s = powQuitChan
NoSessionBeforeInit ==
    lpc \in {"off", "init"} => \A s \in Sessions : wpc[s] = "idle"
PostedBlockProcessed ==
    \A s \in Sessions : wpc[s] = "post" => block.id \in Blocks
IInv == /\ TypeOK
        /\ NoListenerBeforeStart
        /\ LiveIsCurrent
        /\ NoSessionBeforeInit
        /\ PostedBlockProcessed

(* At most one mining session is in flight (spec 5: never two searches at  *)
(* once).  startMining is called by the listener (291, 326, 337) and by    *)
(* the finishing session (422); only stopMining's wait keeps the two       *)
(* callers from overlapping.                                               *)
AtMostOneSession ==
    \A s, r \in Sessions : wpc[s] \in Live /\ wpc[r] \in Live => s = r

(* A transaction the state processor reported erroneous never comes back   *)
(* to miner.txs or the pool (spec 8, scenario D): the RemoveSet of line    *)
(* 392 must precede the refresh from the pool at line 417.                 *)
FailedTxsStayOut == failed \cap (txs \cup pool) = {}

(* No transaction that reached the node is lost: each is on the chain, in  *)
(* the pool, in miner.txs, or was reported erroneous (spec 1: never losing *)
(* transactions; 4.1 step 6: deferred ones are kept for the next round).   *)
(* Start flushes the pool into miner.txs (270) and line 417 replaces       *)
(* miner.txs by the pool's contents.                                       *)
NoTxLost == arrived \subseteq InChain \cup pool \cup txs \cup failed

(* Every event the listener receives is handled and the listener returns   *)
(* to its select (spec 4.1: handleEvent processes each event to            *)
(* completion and restarts mining).  Depends on stopMining (361-368).      *)
EventHandled == (lpc = "recv") ~> (lpc = "loop")

(* Once stopped, the miner searches no more (spec 4.1: Stop cancels the    *)
(* active session).  Stop (284-288) only unsubscribes.                     *)
StopCancelsMining ==
    lifecycle = "stopped" => \A s \in Sessions : wpc[s] \notin {"assemble", "search"}

(* Stop never crashes the program (spec 4.1: the miner starts Stopped and  *)
(* Stop on a stopped miner is a no-op).  Stop (286) dereferences           *)
(* miner.events, nil until Start.                                          *)
StopIsHarmless == lifecycle # "crashed"

=============================================================================
