# TLA+ verification of openether/ethcore (src/)

The source tree is small. `src/eth/bind.go` holds several Go files concatenated
together (the eth package's contract backend, the downloader's sync API, the
ethminer `Miner`, and the eth service). `src/p2p/discover/mlog.go` declares log lines.
`src/cmd/geth/testdata/` holds a JSON fixture. `spec.md` describes the block
production engine (the Miner) as the core. This project models that engine as the
code is written, together with the other stateful parts of the package:

* the start-up database upgrades;
* the downloader's sync subscriptions;
* the eth service's lifecycle.

It checks them on small instances. The upgrades are also shown to
implement `DbStore`, an abstract specification of what they promise.

TLAPS proves, for every value of the constants:

* the Miner's single-session invariant;
* the upgrades' crash safety and their refinement of `DbStore`;
* the sync subscriptions' three invariants;
* the eth service's shutdown order.

## 1. Inventory

| Component | Source (bind.go lines) | State it keeps | Operations | Interacts with |
|---|---|---|---|---|
| **Miner** | 208-424 | `txs`, `uncles`, `block`, `events` subscription, `powQuitChan`, `powDone`, `turbo` | `Start`, `Stop`, `ToggleTurbo`, the `listener` goroutine (NewBlockEvent and TxPreEvent handlers), `startMining`, `stopMining`, `mineNewBlock` | event mux (subscribe, synchronous post), tx pool (`Flush`, `CurrentTransactions`, `RemoveSet`), chain manager (`CurrentBlock`, `NewBlock`, `GetBlock`), state manager (`ProcessTransactions`, `AccumelateRewards`, `Process`), PoW engine (`Search`, `Turbo`), broadcaster |
| Chain DB upgrade | 835-892 `upgradeChainDatabase` | the chain database's combined `block-hash-*` entries and split td/body/header entries | migrate every combined entry but the head's, then the head's | the LevelDB database; called by `New` |
| Mipmap bloom upgrade | 894-937 `addMipmapBloomBins` | `setting-mipmap-version`, a bloom bin per canonical block | loop over the canonical blocks, then write the version from a `defer` | database; called by `New` |
| Eth service lifecycle | 499-683, 778-825 | `shutdownChan`, databases, `solc`, `SolcPath` | `New`, `Start`, `Stop`, `WaitForShutdown`, `Solc`, `SetSolc` | node service context, protocol manager, tx pool, blockchain |
| Downloader sync API | 99-207 `PublicDownloaderAPI` | `syncSubscriptions` under `muSyncSubscriptions` | `run` (event loop that notifies and prunes), `Syncing` (adds a subscription), the unsubscribe callback | event mux (Start/Done/Failed events), RPC notifier |
| ContractBackend | 12-98 | none of its own | thin calls into the RPC APIs | RPC API objects |
| API table, accessors, `dagFiles` | 685-776, 827-833 | none | static wiring, string formatting | none |
| mlog declarations | mlog.go | package variables | none | logger |

**The hard behaviours**

The Miner is concurrent. The caller, the listener goroutine, one `mineNewBlock`
goroutine per round, the tx pool and the chain manager all act at once. They share
`miner.txs`, `miner.block` and `powQuitChan` without a lock. The event mux's
`Post` is synchronous: a poster waits until the subscriber takes the event.
Cancellation of a round is supposed to go through the quit channel. The upgrade
functions must survive a crash between two writes. The sync API shares a map
between an event loop, RPC calls and unsubscribe callbacks.

**What makes each component correct**

* Miner. It has at most one session in flight. Every event is handled and
  mining resumes. No transaction is lost. A transaction that failed permanently
  never comes back. Stop cancels mining and is harmless in every state. Uncles
  are true siblings and are capped. Transactions of the new head leave
  `miner.txs`.
* Chain DB upgrade. After any sequence of crashes and restarts, every block is
  readable in exactly one of the two formats. A completed upgrade is detected
  as complete.
* Mipmap upgrade. The version marker is set only when every canonical block has
  its bloom bin.
* Eth service. Stop can be called twice without a panic. The compiler is created
  once.
* Downloader API. A subscription that was unsubscribed does not stay in the map
  past the next event.

The hazards behind these properties are listed, each at its line, under
`hazards` in PROJECT.json.

## 2. Plan

Done:

1. **Miner** (`Miner.tla`, `MC_Miner.tla`, `MinerProofs.tla`). The code as
   written, with its environment.
2. **DbUpgrade** (`DbUpgrade.tla`, `MC_DbUpgrade.tla`, `DbUpgradeProofs.tla`).
   Both start-up upgrades, with a halt between any two writes.
3. **DownloaderAPI** (`DownloaderAPI.tla`, `MC_DownloaderAPI.tla`,
   `DownloaderAPIProofs.tla`). The run loop against Syncing and the
   unsubscribe callbacks.
4. **EthService** (`EthService.tla`, `MC_EthService.tla`,
   `EthServiceProofs.tla`). New's error paths, Stop's order against
   WaitForShutdown, the liveness of that handshake, and the Solc race.
5. **Abstract specification and refinement.** `DbStore` is the blocks a
   reader finds, converted and bloomed one at a time. DbUpgrade implements
   it. The refinement is checked as a PROPERTY and proved
   (`DbUpgradeRefinement.tla`). An abstract lifecycle for the eth service
   with atomic New and Stop was dropped. For Stop it said no more than
   `ShutdownAfterClose`, and for New it held by construction.
6. **Proofs** of DownloaderAPI's `DeadPruned` and `LiveNotified`, and of
   EthService's `ShutdownAfterClose`.

Not done. These rest on a design that differs from the code:

7. **MinerDesign**. The spec's join-before-mutate protocol (spec 5), which
   the code's stopMining was evidently meant to implement. It reuses the
   code's handler bodies: the tx filter, the uncle append, the tx scan with
   restart, and mineNewBlock. It checks the properties that are unreachable
   in the code model because the listener blocks:
   * the head's transactions leave `txs`;
   * uncles are siblings and bounded;
   * a new transaction restarts mining exactly once;
   * no stale result is applied.

   An abstract `MinerSpec` (one event at a time, one session) is to be shown
   implemented by MinerDesign via `INSTANCE ... WITH`, and checked as a
   PROPERTY.
   It is not built. Its listener and stopMining would be a program that
   does not exist in src/. Every property it would check is unreachable in
   the code, whose listener blocks on its first event (`EventHandled`).
8. **Miner liveness and restart.**
   * The listener does not exit after Stop: it spins (`ListenerSpin`).
     Nothing in the spec or the comments promises that it exits.
   * A second Start is outside the lifecycle the spec gives.
9. **Proof of `FailedTxsStayOut`.** Done (`FailedStayOut`). The
   strengthening turned out smaller than expected: `TxsArrived` together
   with the single-session invariant `IInv`. It rests on stopMining never
   returning, as the code does.

## 3. The Miner model (`Miner.tla`)

**State.** The variables `lifecycle`, `subscribed`, `lpc` (the listener's
program counter), `ev`, `txs`, `uncles`, `block`, `powQuitChan`, `wpc` (the
state of each session goroutine), `round` and `turbo` are the Miner struct
(222-235) and its goroutines. The variables `outbox`, `pool`, `parent`,
`btxs`, `nblocks` and `head` are the environment. The mux's waiting posters
are in `outbox`. `arrived` and `failed` are history variables for the
properties.

**Actions, one per code step.**

* `Start` (267-282). Flush the pool into miner.txs, make a new block,
  subscribe, and spawn the listener.
* `Stop` (284-288). Unsubscribe. Before Start, the nil subscription crashes the
  program.
* `ToggleTurbo` (261-265).
* `ListenerInit` (291). The first `startMining`.
* `Deliver` / `ListenerSpin` (293-296). The select receives an event, or nil
  forever after Unsubscribe.
* `HandleNewBlock` (297-326) and `HandleTxPre` (328-344). Each is the whole
  case, starting with `stopMining`.
* `Assemble`, `Search`, `Finalize`, `PostMined`: the steps of `mineNewBlock`.
  * `Assemble` is lines 373-403. The state processor's split into accepted,
    deferred and erroneous transactions is nondeterministic. Erroneous ones are
    removed from the pool.
  * `Search` is line 406.
  * `Finalize` is lines 407-417 and 422. `Process` succeeds, after which the
    code broadcasts and refreshes `txs` from the pool. Or it fails and a new
    round starts.
  * `PostMined` is lines 418 and 422. The synchronous post happens, then the
    next round starts.
* `TxArrive`, `ImportBlock`, `DropPost`: the pool, the chain manager and the
  mux. They are external to src/ and modelled from the spec's interface.

**The key translation: `stopMining` never returns.**
`_, isopen := <-miner.powQuitChan` blocks until a send or a close. Nothing
sends on a quit channel. The only close (365) follows a receive that reported
the channel open, which would take a send. So the receive never returns.
`StopMiningReturns == FALSE` states exactly that. Each handler is an `IF` on it:
the listener moves to `"blocked"`, and the rest of the handler is modelled but
unreachable. For the same reason `pow.Search` never returns nil. `powDone` is
never written, so its select case is left out.

**Abstractions.**

* Transactions are model values, and `miner.txs` is the set of its elements.
  The sort by nonce decides nothing the properties tell apart, because the state
  processor's split is chosen nondeterministically.
* The state processor never accepts a transaction that the chain already holds
  (its nonce is used).
* Blocks are numbered ids with a parent and a transaction set.
* State roots, rewards, receipts, gas and logging are left out.

**Fairness.** `FairSpec` adds weak fairness for the listener and for each
session. The Go runtime schedules every runnable goroutine. The caller and the
environment are not fair: a user need not call Stop, and peers need not send
anything.

### Runs (`MC_Miner.tla`: 2 transactions as a symmetry set, MaxBlocks 2, MaxRounds 4)

| Run | Expect | Checks | Shows |
|---|---|---|---|
| `MC_Miner.cfg` | pass (≈430k states) | `TypeOK`, `AtMostOneSession`, `FailedTxsStayOut`, `IInv` | whatever the interleaving, at most one session is in flight, and an erroneous transaction never reappears in the miner or the pool; the inductive invariant of the proofs holds on the instance |
| `MC_Miner_TxLost.cfg` | violation | `NoTxLost` | a transaction arrives, Start flushes it, the round defers it, a block is mined, and line 417's refresh drops it |
| `MC_Miner_EventHandled.cfg` | violation | `EventHandled` (under `FairSpec`) | the listener blocks forever in stopMining on its first event |
| `MC_Miner_StopCancels.cfg` | violation | `StopCancelsMining` | the session keeps searching after Stop |
| `MC_Miner_StopSafe.cfg` | violation | `StopIsHarmless` | Stop before Start crashes |

**Deadlock checking is off** (`CHECK_DEADLOCK FALSE`) in these runs because the
system really does stop. After its first event the listener is blocked, and the
posters wait on it. A run also ends when the bounds on blocks and rounds are
reached.

**Why the bounds are enough.** Two blocks allow a mined block plus either an
imported head or a sibling. Four rounds allow a round after a failed Process,
a round after a mined block, and the extra sessions a mutated stopMining
would spawn. Two transactions allow one to be deferred while another is
accepted or fails. Each violation is found within 10 steps.

**Mutants.** Each property of a passing run is broken by a plausible change of
the code:

* `StopMiningNoJoin` is a stopMining that does not wait. It breaks
  `AtMostOneSession`.
* `AssembleNoRemoveSet` forgets the `RemoveSet` at 392. It breaks
  `FailedTxsStayOut`.
* `FinalizeNoId` posts the unprocessed template. It breaks `TypeOK` and `IInv`.

### Proofs (`MinerProofs.tla`)

* `TypeCorrect`: `Spec => []TypeOK`.
* `SingleSession`: `Spec => []AtMostOneSession`.
* `MinerIInv`: `Spec => []IInv`, the invariant the `miner_safety` run checks.
* `FailedStayOut`: `Spec => []FailedTxsStayOut`.

Both hold for all `Txs`, `MaxBlocks` and `MaxRounds` allowed by
`ConstAssumption`. Neither invariant is inductive as it stands. `PostMined`'s
event is well typed only if `miner.block` holds a processed block. That needs
that no other session overwrote it, which is the single-session fact. And a
session may start only if none is live. The strengthening `IInv` has these
parts:

* `TypeOK`.
* `NoListenerBeforeStart`: no listener exists before Start.
* `LiveIsCurrent`: every live session is the one `powQuitChan` names.
* `NoSessionBeforeInit`: every session is idle until the listener's first
  `startMining`.
* `PostedBlockProcessed`: a session at the post step has a processed block in
  `miner.block`.

The proof is `InitIInv`, `NextIInv` (one step per action), and lemmas on
`StartMining`. The theorems follow by `PTL`. The handlers' steps use
`StopMiningReturns == FALSE`: the proof, like the code, relies on stopMining
never returning.

`FailedStayOut` needs one more inductive fact, `TxIInv`. It is
`FailedTxsStayOut` with `TxsArrived`: every transaction in the pool, in
`miner.txs` or reported failed has arrived. The lemmas are `InitTxIInv` and
`NextTxIInv`, with one step per action, using `IInv` and `TypeOK`. The
steps go as follows:

* Only the session's assembly reports a transaction as failed, and it
  removes the failures from `miner.txs` and the pool in the same step
  (`RemoveSet`, 392).
* A new transaction that arrives is not yet failed.
* The handlers that would copy the pool into `miner.txs` (415-417) run only
  after stopMining returns. Under `StopMiningReturns == FALSE` they never do.
  The proof therefore holds for the code as written. A repaired stopMining
  would need a new proof.

### Left to TLC

* Liveness (`EventHandled`) and anything with `ENABLED` are out of the prover's
  reach.
* The recursive function `Ancestors` is used only by the state processor's
  guard, which no proof needs to expand.

## 4. The database upgrades (`DbUpgrade.tla`)

`eth.New` runs `upgradeChainDatabase` and then `addMipmapBloomBins` before
anything else uses the chain database (537-548).

**State.** The database is `lastBlock` (the "LastBlock" key), plus these
sets of hashes:

* `old`: the combined `block-hash-` entries;
* `td`, `body`, `header`: the new-format entries;
* `canon`: the canonical number → hash mapping;
* `bins`: the mipmap bloom bins;
* `version`: the mipmap version marker.

Blocks form one chain, and the block at height n has hash n. The goroutine
running New is `upc`, with the iterator's remaining keys (`todo`), the block
in hand (`cur`), and the bloom loop's `i` and `latest`.

**Actions, one per database read or write.**

| Action | Lines | Step |
|---|---|---|
| `UpgradeCheck` | 839-853 | the short-circuit check, which opens the iterator over a snapshot |
| `ScanSkipHead` | 858-861 | skip the head's entry |
| `ScanPick` | 862-863 | take the next combined block |
| `WriteTd` | 865 and 881 | |
| `WriteBody` | 868 and 884 | |
| `WriteHeader` | 871 and 887 | |
| `DeleteOld` | 874 | delete the combined entry |
| `ScanDone` | 877-879 | the iteration ends; load the head |
| `MipCheck` | 899-921 | the version check and the clean-database return, tested in the code's order (a nested IF: the arms of a TLA+ CASE are unordered) |
| `MipStep` | 925-933 | one bin, or the corruption error |
| `MipDone` | 925-936 | the loop ends |
| `WriteVersion` | 908-917 | the deferred marker write |

The node around New has three more actions:

* `Halt`: a crash, a kill, or an error returned by a write. Every earlier
  write is durable. LevelDB's log loses at most a suffix of unsynced writes,
  which is the same as halting earlier.
* `Boot`: the node starts again and runs New from the top.
* `InsertBlock`: the running blockchain appends a block in the new format
  with its bin. It is not under src/ and is modelled as one step.

The initial states are the databases a node can open: an empty one, one of
combined entries, or one in the split format with or without bins. Each may
have a missing canonical mapping.

**Runs.** `MC_DbUpgrade.tla` has heights 0..2 and at most 2 halts, which gives
about 3,900 states. That allows a halt mid-block, a restart, a second halt in
the head's migration or the bloom loop, and a block inserted after the
upgrade.

| Run | Expect | Checks | Shows |
|---|---|---|---|
| `MC_DbUpgrade.cfg` | pass | `NoBlockLost`, `RunningOnSplitFormat`, `VersionImpliesBins`, `DbIInv`, `StoreRefined` | no halt makes a block unreadable; the node only runs on a fully split database; the mipmap marker implies every bin; `DbIInv` is the inductive invariant of the proofs; the upgrades implement `DbStore` |
| `MC_DbUpgrade_Live.cfg` | pass | `StartupTerminates` (under `FairSpec`: weak fairness of New's goroutine, not of `Boot` or `InsertBlock`) | every start of New ends, running or down |
| `MC_DbUpgrade_Rescan.cfg` | violation | `UpgradeRunsOnce` | the comments at 858 and 878 say migrating the head last disables the upgrade; the head's combined entry is never deleted, so every start before the head moves scans the database again |

**Mutants.**

* `ScanPickDeleteFirst` deletes before writing. It breaks `NoBlockLost`,
  `DbIInv` and `StoreRefined`: a reader loses a block, which no `DbStore`
  step allows.
* `ScanBreakAtHead` uses `break` for `continue`. It breaks
  `RunningOnSplitFormat`.
* `MipDoneEarly` runs the loop to `i < latest`. It breaks
  `VersionImpliesBins`.
* `ScanPickNoNext` never advances the iterator. It breaks
  `StartupTerminates`.

Deadlock checking is off: a running node at the height bound with no halts
left has nothing more to do.

**Proofs (`DbUpgradeProofs.tla`).** These hold for every `MaxHeight` and
`MaxHalts`:

* `DbTypeCorrect`: `Spec => []TypeOK`.
* `CrashSafe`: `Spec => []NoBlockLost`.
* `UpgradeComplete`: `Spec => []RunningOnSplitFormat`.
* `BloomMarkerSound`: `Spec => []VersionImpliesBins`.
* `DbInvariant`: `Spec => []DbIInv`, the invariant the run checks.

All of these follow from `DbIInv`, which adds these facts:

* The chain is exactly `0..lastBlock`.
* The block in hand has the parts written so far.
* During the scan, only blocks the iterator has still to visit, the one in
  hand and the head may be unconverted. After the upgrade, none is.
* If some block is unconverted, the head still has its combined entry. This
  is what makes the check at 845 restart an interrupted migration, and it
  was the fact the first proof attempt lacked.
* In the bloom loop, `latest = lastBlock` and the bins below `i` are written.

**The abstract store (`DbStore.tla`) and its refinement.** `DbStore` states
what the upgrades promise the rest of the node. Its state is:

* `blocks`: the blocks a reader finds, in either format;
* `split`: the blocks in the split format;
* `bloomed`: the blocks with a bin;
* `marked`: the version marker;
* `node`: starting, running or down.

While the node starts, `Convert(b)` and `Bloom(b)` each handle one block.
`Ready` needs every block converted and bloomed, and then sets the marker
and runs the node. Only `Insert`, on a running node, changes `blocks`.
`Down` and `Restart` may happen at any time.

`DbUpgrade` defines the mapping:

* `Stored` is the heights with a combined entry or with td, body and header;
* `Converted` is the heights with td, body and header;
* `Phase` is running, down, or starting for every program point of New.

`Store == INSTANCE DbStore WITH ...` is the instance, and
`StoreRefined == Store!Spec` is the property.

Each step maps as follows:

* a header write is `Convert`;
* a bin write is `Bloom`;
* New's return (`WriteVersion`, or `MipCheck` finding the marker) is `Ready`;
* `Halt`, and the corruption error, are `Down`;
* every other write (td, body, delete) and every check is a stutter.

The refinement is stronger than `NoBlockLost`: it says that no write of the
upgrades changes the blocks a reader finds, neither losing one nor making a
stale entry visible.

**Proof of the refinement (`DbUpgradeRefinement.tla`).** `StoreImplemented:
Spec => StoreRefined` holds for every `MaxHeight` and `MaxHalts`. `DbIInv`
does not determine `Stored` and `Converted`, so `StoreIInv` adds these facts:

* every entry and bin belongs to a stored block;
* a header is written only after the body, and a body only after the td
  (865-871, 881-887);
* the iterator's remaining keys and the block in hand are stored blocks.

TLC checked `StoreIInv` before it was proved. Under it, `Stored` is the
chain and `Converted` is the set of headers (lemma `StoredIsChain`). The
step lemma `NextStoreRefined` has one case per action, and the theorem
combines the pieces by PTL.

## 5. The sync subscriptions (`DownloaderAPI.tla`)

**State.** The run loop's state is as follows:

* `subs` is the set of keys of `syncSubscriptions`;
* `locked` means the run loop holds `muSyncSubscriptions`;
* `rpc` is the run loop and `pending` its range loop;
* `spc` is each client's Syncing call.

The RPC notifier is outside src/ and is modelled at its interface.
`active` means it still delivers to the subscription. `closed` means the
client's connection closed and the notifier stopped. `cbPending` means the
unsubscribe callback is due. `early` is a history variable: Syncing inserted
the entry after its callback had already run.

**The notifier's answers.** Line 162 deletes an entry only when `Notify`
returns `ErrNotificationNotFound`. It keeps the entry on nil and on any
other error. `NotifyResult` gives one of three answers:

* "nil" while the subscription is live;
* "notfound" after the client unsubscribed;
* "stopped" after its connection closed.

Both deaths make the callback due.

**Actions.**

* `Subscribe` (146).
* `Event` (148-160). Receive an event and take the mutex.
* `Notify(id)` (161-165). Notify one entry, and delete it only on
  "notfound".
* `EndPass` (166).
* `SyncingFails` (187-200).
* `NewSubscription` (192-197).
* `Insert` (202-206).
* `Unsubscribe`: the client unsubscribes. It knows the id only from
  Syncing's reply, so this happens only after the insert.
* `Disconnect`: the connection closes. This can happen at any time after
  NewSubscription, also before the insert.
* `Callback` (193-195).

The Syncing and callback critical sections are single statements, so each
is one step guarded by the free mutex.

**Run.** `MC_DownloaderAPI.cfg` has 3 clients as a symmetry set and 3 events,
which gives about 374k states. It checks three properties:

* `DeadPruned`: an unsubscribed entry stays in the map for at most one
  complete pass after it died or was inserted, however long its callback
  waits.
* `LiveNotified`: no pass skips a live subscriber inserted before it.
* `LeakOnlyByEarlyClose`: an entry that nothing will ever delete (dead, no
  callback due) belongs to a connection that closed before the insert at
  203, after its callback had run.

The leak is real in the model. If a connection closes between
NewSubscription and the insert, the callback deletes the id before it is in
the map. The insert then adds a dead entry. Its stopped notifier never
answers `ErrNotificationNotFound`, so the run loop keeps it for good. TLC
reaches such an entry surviving every pass of the instance.
`LeakOnlyByEarlyClose` shows that this race is the only way an entry can be
left behind. The leak itself is not a run of its own.

The mutants are the following:

* `NotifyNoPrune` ignores Notify's error. It breaks `DeadPruned`.
* `InsertNoLock` inserts without the mutex. It breaks `LiveNotified`.
* `CallbackNoDelete` takes the lock but forgets the delete. It breaks
  `LeakOnlyByEarlyClose`.

**Proofs (`DownloaderAPIProofs.tla`).** These hold for every set of clients
and every bound on events:

* `DeadEntriesPruned`: `Spec => []DeadPruned`.
* `NoSubscriberSkipped`: `Spec => []LiveNotified`.
* `LeakCharacterised`: `Spec => []LeakOnlyByEarlyClose`.

All three follow from `ApiIInv`, which adds these facts:

* the mutex is held exactly during a pass;
* outside a pass nothing is pending;
* every entry of the map has finished its Syncing call;
* no death or insertion is stamped later than the current event;
* an unsubscribed entry whose pass has begun is still pending, so the pass
  cannot end without pruning it;
* during a pass, visited live entries have the new event and unvisited ones
  have the previous one;
* an idle client has no subscription, no due callback and no closed
  connection;
* a created but not inserted subscription that is dead has a closed
  connection.

The last fact is what makes `Insert` keep `LeakOnlyByEarlyClose`: an entry
inserted dead with its callback already run is marked `early`, and its
connection is closed.

`MaxEvents \in Nat` is a lemma (`MaxEventsNat`) cited where arithmetic needs
it. The assumption it comes from also contains `IsFiniteSet`, which the SMT
backend cannot use.

Unsubscribed entries that the callback missed are removed only by a
notification pass. With no further sync event, for example on a synced
node, they stay. `DeadPruned` bounds the stay in passes. Whether passes
happen depends on the downloader, so no liveness property is claimed.

## 6. The eth service (`EthService.tla`)

**New** is the sequence of its ten steps. Each step may open a database
(chaindata, dapp, and indexes when `UseAddrTxIndex`) and may return an error.
An error leaves open what earlier steps opened (a hazard, listed). What each
step builds is abstracted away.

**Start, Stop and WaitForShutdown.** Stop's statements are the steps
`StopServices`, `CloseChain`, `CloseDapp` and `CloseChan`. The main goroutine
`Wait`s and `Resume`s on `shutdownChan`.

**Solc and SetSolc** run on two RPC handler goroutines, with no lock. Their
steps are:

* the read of `self.solc` (`SolcCheck`, 814);
* the read of `SolcPath` (`SolcReadPath`, 815);
* the store of the compiler, or nil on error;
* in `SetSolc`, the writes of `SolcPath` and nil.

Overlapping unsynchronised accesses are a data race, modelled as every
interleaving of these accesses. A torn string write is not modelled.

| Run | Expect | Checks | Shows |
|---|---|---|---|
| `MC_EthService.cfg` | pass (about 76k states) | `ShutdownAfterClose` | the main goroutine resumes only after Stop closed the chain and dapp databases (mutant `StopSignalFirst` closes the channel first) |
| `MC_EthService_Live.cfg` | pass | `StopReleasesWaiter` (under `FairSpec`) | once Stop has begun, a main goroutine waiting in WaitForShutdown resumes. Mutant `CloseChanNoClose` returns from Stop without closing the channel. |
| `MC_EthService_Solc.cfg` | violation | `SolcFollowsPath` | g1's Solc reads the old path; g2's SetSolc(p2) clears the cache; g1 stores C(p1); g2's Solc returns C(p1) |

The instance has 2 handlers, 2 paths and 2 calls each: one handler inside
Solc while the other runs a whole SetSolc.

**Fairness.** `FairSpec` adds weak fairness for Stop's close statements and
for `Resume`. Stop runs on the node's goroutine, and `Close` and `close` do
not block. The Go runtime wakes a goroutine blocked on a closed channel.
Nothing forces Start, Stop or Wait to be called.

**Proofs (`EthServiceProofs.tla`).** These hold for every set of handlers,
paths and call bound:

* `ShutdownOrdered`: `Spec => []ShutdownAfterClose`.

It rests on `SvcIInv`, which ties each state to what is open:

* while New runs, `open` is exactly the databases of the steps done so far;
* each program point of Stop fixes `open`;
* `shutdownChan` is closed iff the service is stopped;
* a waiter exists only after New succeeded.

New's test-only branch, which replaces chainDb by an in-memory database
when `config.TestGenesisState` is set (573-575), is not modelled. That
branch also leaks the database opened at 539.

## 7. Not modelled


* `ContractBackend`: stateless delegation.
* The API table and accessors: wiring.
* `dagFiles` (826-833): formatting with no caller under src/. Its comment
  promises the names `<revision>-<hex>` and `full-R<revision>-<hex>`. It
  returns `full-R<revision>-<hex>` and `full-Rfull-R<revision>-<hex>`, so
  the prefix is doubled in the second name. With no caller there is no
  behaviour to check, so this is noted here and not run.
* mlog declarations.
* The JSON fixture.
* The collaborators outside src/ (mux, pool, chain manager, state processor,
  PoW): only at the interface the Miner uses.

## 8. What is proved and what is only model-checked

The theorems are in `MinerProofs`, `DbUpgradeProofs`, `DbUpgradeRefinement`,
`DownloaderAPIProofs` and `EthServiceProofs`. Each one assumes only the named
assumption on the constants of its component. Each invariant was checked by
TLC as an invariant of a run before it was proved.

These stay with TLC, because the prover cannot reach them:

* the liveness properties (`StartupTerminates`, `StopReleasesWaiter`,
  `EventHandled`) and anything with `ENABLED`;
* the recursive `Ancestors` of the Miner's environment.
