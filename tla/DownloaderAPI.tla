--------------------------- MODULE DownloaderAPI ---------------------------
(***************************************************************************)
(* The downloader's sync-status subscriptions (src/eth/bind.go 127-207).   *)
(* Three kinds of goroutine share syncSubscriptions under                  *)
(* muSyncSubscriptions: the run loop, which takes each Start/Done/Failed   *)
(* event and notifies every subscription while holding the mutex; RPC      *)
(* calls of Syncing, which create a subscription and then insert it; and   *)
(* the unsubscribe callbacks the RPC notifier calls when a client          *)
(* unsubscribes or its connection closes.  The critical sections of        *)
(* Syncing and of the callback are one statement each and are single       *)
(* steps; the run loop's pass holds the mutex across several steps.        *)
(* Each client makes one Syncing call, so a client names its               *)
(* subscription id.                                                        *)
(*                                                                         *)
(* The notifier (package rpc, not under src/) answers Notify in one of     *)
(* three ways, and line 162 tells only one of them apart: nil while it     *)
(* still delivers; ErrNotificationNotFound once the client unsubscribed;   *)
(* another error once the client's connection closed and the notifier      *)
(* stopped.  Both deaths make the unsubscribe callback due.                *)
(***************************************************************************)
EXTENDS Naturals, FiniteSets

CONSTANTS
    Clients,      \* RPC clients calling Syncing
    MaxEvents     \* bound on the sync events the downloader posts

ASSUME ApiConstAssumption == IsFiniteSet(Clients) /\ MaxEvents \in Nat

VARIABLES
    subs,         \* the keys of api.syncSubscriptions
    locked,       \* the run loop holds muSyncSubscriptions
    rpc,          \* the run goroutine: "init", "wait" or "notify"
    pending,      \* map entries the current range loop has still to visit
    handled,      \* events whose notification pass is complete
    spc,          \* each client's Syncing call: "idle", "created", "done", "failed"
    active,       \* the notifier still delivers to the subscription
    closed,       \* the client's connection closed: its notifier has stopped
    cbPending,    \* the unsubscribe callback is due and has not run
    got,          \* the last event each subscription was notified of (0: none)
    diedAt,       \* handled when the subscription stopped being active
    insAt,        \* handled when Syncing inserted it
    early         \* Syncing inserted it after its callback had already run

vars == <<subs, locked, rpc, pending, handled, spc, active, closed, cbPending,
          got, diedAt, insAt, early>>

TypeOK ==
    /\ subs \subseteq Clients /\ pending \subseteq Clients
    /\ locked \in BOOLEAN /\ rpc \in {"init", "wait", "notify"}
    /\ handled \in 0..MaxEvents
    /\ spc \in [Clients -> {"idle", "created", "done", "failed"}]
    /\ active \in [Clients -> BOOLEAN] /\ closed \in [Clients -> BOOLEAN]
    /\ cbPending \in [Clients -> BOOLEAN] /\ early \in [Clients -> BOOLEAN]
    /\ got \in [Clients -> 0..MaxEvents]
    /\ diedAt \in [Clients -> 0..MaxEvents]
    /\ insAt \in [Clients -> 0..MaxEvents]

\* 137-142: NewPublicDownloaderAPI makes the map and starts run.
Init ==
    /\ subs = {} /\ locked = FALSE /\ rpc = "init" /\ pending = {}
    /\ handled = 0
    /\ spc = [c \in Clients |-> "idle"]
    /\ active = [c \in Clients |-> FALSE]
    /\ closed = [c \in Clients |-> FALSE]
    /\ cbPending = [c \in Clients |-> FALSE]
    /\ got = [c \in Clients |-> 0]
    /\ diedAt = [c \in Clients |-> 0]
    /\ insAt = [c \in Clients |-> 0]
    /\ early = [c \in Clients |-> FALSE]

\* What sub.Notify returns for client c's subscription.
NotifyResult(c) ==
    IF active[c] THEN "nil"
    ELSE IF closed[c] THEN "stopped"
    ELSE "notfound"

(***************************************************************************)
(* The run goroutine                                                       *)
(***************************************************************************)
\* 146: subscribe to the mux.  Events posted before this are not delivered.
Subscribe ==
    /\ rpc = "init" /\ rpc' = "wait"
    /\ UNCHANGED <<subs, locked, pending, handled, spc, active, closed,
                   cbPending, got, diedAt, insAt, early>>

\* 148-161: an event arrives; the notification is computed from its type
\* (the payload is not modelled), the mutex is taken, and the range loop
\* starts over the map's current entries.
Event ==
    /\ rpc = "wait" /\ ~locked /\ handled < MaxEvents
    /\ rpc' = "notify" /\ locked' = TRUE /\ pending' = subs
    /\ UNCHANGED <<subs, handled, spc, active, closed, cbPending, got,
                   diedAt, insAt, early>>

\* Mutant: the error of Notify is ignored and nothing is deleted.
NotifyNoPrune(id) ==
    /\ rpc = "notify" /\ id \in pending
    /\ got' = IF active[id] THEN [got EXCEPT ![id] = handled + 1] ELSE got
    /\ pending' = pending \ {id}
    /\ UNCHANGED <<subs, locked, rpc, handled, spc, active, closed, cbPending,
                   diedAt, insAt, early>>

\* 161-164: notify one entry; the entry is deleted only when Notify answers
\* ErrNotificationNotFound, and kept on nil and on any other error.
Notify(id) ==
    /\ rpc = "notify" /\ id \in pending
    /\ pending' = pending \ {id}
    /\ got' = IF NotifyResult(id) = "nil"
                THEN [got EXCEPT ![id] = handled + 1] ELSE got
    /\ subs' = IF NotifyResult(id) = "notfound" THEN subs \ {id} ELSE subs
    /\ UNCHANGED <<locked, rpc, handled, spc, active, closed, cbPending,
                   diedAt, insAt, early>>

\* 165-166: the range loop is over; unlock and wait for the next event.
EndPass ==
    /\ rpc = "notify" /\ pending = {}
    /\ rpc' = "wait" /\ locked' = FALSE /\ handled' = handled + 1
    /\ UNCHANGED <<subs, pending, spc, active, closed, cbPending, got,
                   diedAt, insAt, early>>

(***************************************************************************)
(* Syncing, called by RPC client c                                         *)
(***************************************************************************)
\* 187-200: no notifier in the context (a plain HTTP call), or
\* NewSubscription fails: return an error, nothing is registered.
SyncingFails(c) ==
    /\ spc[c] = "idle" /\ spc' = [spc EXCEPT ![c] = "failed"]
    /\ UNCHANGED <<subs, locked, rpc, pending, handled, active, closed,
                   cbPending, got, diedAt, insAt, early>>

\* 192-196: the notifier registers the subscription with its callback.
NewSubscription(c) ==
    /\ spc[c] = "idle"
    /\ spc' = [spc EXCEPT ![c] = "created"]
    /\ active' = [active EXCEPT ![c] = TRUE]
    /\ UNCHANGED <<subs, locked, rpc, pending, handled, closed, cbPending,
                   got, diedAt, insAt, early>>

\* Mutant: the insert does not take the mutex.
InsertNoLock(c) ==
    /\ spc[c] = "created"
    /\ subs' = subs \cup {c} /\ spc' = [spc EXCEPT ![c] = "done"]
    /\ insAt' = [insAt EXCEPT ![c] = handled]
    /\ early' = [early EXCEPT ![c] = ~active[c] /\ ~cbPending[c]]
    /\ UNCHANGED <<locked, rpc, pending, handled, active, closed, cbPending,
                   got, diedAt>>

\* 202-206: lock, insert the subscription into the map, unlock, return.
\* (early records whether the callback has already run: the subscription
\* died and no callback is due any more.)
Insert(c) ==
    /\ spc[c] = "created" /\ ~locked
    /\ subs' = subs \cup {c} /\ spc' = [spc EXCEPT ![c] = "done"]
    /\ insAt' = [insAt EXCEPT ![c] = handled]
    /\ early' = [early EXCEPT ![c] = ~active[c] /\ ~cbPending[c]]
    /\ UNCHANGED <<locked, rpc, pending, handled, active, closed, cbPending,
                   got, diedAt>>

(***************************************************************************)
(* The RPC notifier (not under src/)                                       *)
(***************************************************************************)
\* The client unsubscribes by the id Syncing returned, so only after the
\* insert: the notifier forgets the subscription (Notify answers
\* ErrNotificationNotFound) and owes the callback.
Unsubscribe(c) ==
    /\ active[c] /\ spc[c] = "done"
    /\ active' = [active EXCEPT ![c] = FALSE]
    /\ cbPending' = [cbPending EXCEPT ![c] = TRUE]
    /\ diedAt' = [diedAt EXCEPT ![c] = handled]
    /\ UNCHANGED <<subs, locked, rpc, pending, handled, spc, closed, got,
                   insAt, early>>

\* The client's connection closes, at any time after NewSubscription (also
\* before Syncing has inserted the subscription): the notifier stops (Notify
\* answers another error) and owes the callback of each subscription.
Disconnect(c) ==
    /\ active[c]
    /\ active' = [active EXCEPT ![c] = FALSE]
    /\ closed' = [closed EXCEPT ![c] = TRUE]
    /\ cbPending' = [cbPending EXCEPT ![c] = TRUE]
    /\ diedAt' = [diedAt EXCEPT ![c] = handled]
    /\ UNCHANGED <<subs, locked, rpc, pending, handled, spc, got, insAt, early>>

\* Mutant: the callback takes the lock but does not delete the entry.
CallbackNoDelete(c) ==
    /\ cbPending[c] /\ ~locked
    /\ cbPending' = [cbPending EXCEPT ![c] = FALSE]
    /\ UNCHANGED <<subs, locked, rpc, pending, handled, spc, active, closed,
                   got, diedAt, insAt, early>>

\* 192-196: the callback locks, deletes the id from the map, and unlocks.
Callback(c) ==
    /\ cbPending[c] /\ ~locked
    /\ subs' = subs \ {c} /\ cbPending' = [cbPending EXCEPT ![c] = FALSE]
    /\ UNCHANGED <<locked, rpc, pending, handled, spc, active, closed, got,
                   diedAt, insAt, early>>

Next ==
    \/ Subscribe \/ Event \/ EndPass
    \/ \E id \in Clients : Notify(id)
    \/ \E c \in Clients :
          \/ SyncingFails(c) \/ NewSubscription(c) \/ Insert(c)
          \/ Unsubscribe(c) \/ Disconnect(c) \/ Callback(c)

Spec == Init /\ [][Next]_vars

(***************************************************************************)
(* Properties                                                              *)
(***************************************************************************)
MaxOf(a, b) == IF a >= b THEN a ELSE b

\* A subscription whose client unsubscribed stays in the map for at most
\* one complete notification pass after it died or was inserted, however
\* long its callback is delayed: the run loop's pruning at 162-163 deletes
\* it.  Only an entry of a closed connection, whose notifier answers
\* another error, can outlive that pass.
DeadPruned ==
    \A c \in subs :
        ~active[c] /\ ~closed[c] => handled <= MaxOf(diedAt[c], insAt[c]) + 1

\* The entries nothing will ever delete -- dead, with no callback due --
\* are exactly those of a connection that closed between NewSubscription
\* (192) and the insert (203), so that the callback ran before Syncing put
\* the id into the map, and the run loop keeps them because their notifier
\* answers another error than ErrNotificationNotFound (162).
LeakOnlyByEarlyClose ==
    \A c \in subs : ~active[c] /\ ~cbPending[c] => closed[c] /\ early[c]

\* Between events, every live subscription that was in the map before the
\* last pass was notified of that last event: no pass skips a subscriber.
LiveNotified ==
    rpc = "wait" =>
        \A c \in subs : active[c] /\ insAt[c] < handled => got[c] = handled
=============================================================================
