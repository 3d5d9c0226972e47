------------------------- MODULE DownloaderAPIProofs -------------------------
(***************************************************************************)
(* Proofs about the sync subscriptions (DownloaderAPI): that an           *)
(* unsubscribed subscription leaves the map within one notification pass, *)
(* that the entries which never leave it are those of a connection closed *)
(* before the insert, and that no pass skips a live subscriber, for every  *)
(* set of clients and every bound on the events.                           *)
(***************************************************************************)
EXTENDS DownloaderAPI, TLAPS

\* The bound on the events is a natural number.
LEMMA MaxEventsNat == MaxEvents \in Nat
  BY ApiConstAssumption

USE MaxEventsNat

\* When a subscription became both dead and inserted.
Settled(c) == MaxOf(diedAt[c], insAt[c])

(***************************************************************************)
(* The inductive invariant.  The mutex is held exactly during a pass; a    *)
(* pass only visits entries of the map, which Syncing has finished         *)
(* inserting; nothing is stamped with a later event than the current one. *)
(* A dead entry of a client that unsubscribed, in the pass after its      *)
(* settling, has still to be visited, so the pass cannot end before it     *)
(* prunes it.  Before the insert, only a connection close can end a       *)
(* subscription, since the client has no id to unsubscribe.  During a pass,*)
(* the live entries it has visited have the new event and those it has    *)
(* still to visit have the previous one.                                   *)
(***************************************************************************)
ApiIInv ==
    /\ TypeOK
    /\ locked <=> rpc = "notify"
    /\ rpc = "notify" => handled < MaxEvents
    /\ rpc = "init" => handled = 0
    /\ pending \subseteq subs
    /\ rpc # "notify" => pending = {}
    /\ \A c \in subs : spc[c] = "done"
    /\ \A c \in Clients : diedAt[c] <= handled /\ insAt[c] <= handled
    /\ DeadPruned
    /\ \A c \in subs :
          ~active[c] /\ ~closed[c] /\ rpc = "notify" /\ handled = Settled(c) + 1
              => c \in pending
    /\ \A c \in Clients :
          /\ spc[c] = "idle" => ~active[c] /\ ~closed[c] /\ ~cbPending[c]
          /\ spc[c] = "created" /\ ~active[c] => closed[c]
    /\ LeakOnlyByEarlyClose
    /\ LiveNotified
    /\ rpc = "notify" =>
          /\ \A c \in subs \ pending : active[c] => got[c] = handled + 1
          /\ \A c \in pending : active[c] /\ insAt[c] < handled => got[c] = handled

\* The initial state: no pass, no subscription.
LEMMA InitApiIInv == Init => ApiIInv
<1> SUFFICES ASSUME Init PROVE ApiIInv
  OBVIOUS
<1>1. TypeOK
  <2>1. /\ subs \subseteq Clients /\ pending \subseteq Clients
        /\ locked \in BOOLEAN /\ rpc \in {"init", "wait", "notify"}
    BY DEF Init
  <2>2. handled \in 0..MaxEvents
    BY MaxEventsNat DEF Init
  <2>3. /\ spc \in [Clients -> {"idle", "created", "done", "failed"}]
        /\ active \in [Clients -> BOOLEAN] /\ closed \in [Clients -> BOOLEAN]
        /\ cbPending \in [Clients -> BOOLEAN] /\ early \in [Clients -> BOOLEAN]
    BY DEF Init
  <2>4. /\ got \in [Clients -> 0..MaxEvents]
        /\ diedAt \in [Clients -> 0..MaxEvents] /\ insAt \in [Clients -> 0..MaxEvents]
    BY MaxEventsNat DEF Init
  <2>5. QED
    BY <2>1, <2>2, <2>3, <2>4 DEF TypeOK
<1>2. QED
  BY <1>1 DEF Init, ApiIInv, DeadPruned, LiveNotified, LeakOnlyByEarlyClose

\* Every step of the run loop, of Syncing, of the notifier and of the
\* unsubscribe callback keeps the invariant.
LEMMA NextApiIInv == ApiIInv /\ [Next]_vars => ApiIInv'
<1> SUFFICES ASSUME ApiIInv, [Next]_vars PROVE ApiIInv'
  OBVIOUS
<1> USE DEF ApiIInv, TypeOK, DeadPruned, LiveNotified, LeakOnlyByEarlyClose,
           Settled, MaxOf
<1>1. CASE Subscribe
  BY <1>1 DEF Subscribe
<1>2. CASE Event
  BY <1>2 DEF Event
<1>3. CASE EndPass
  <2>1. pending = {} /\ rpc = "notify" /\ handled' = handled + 1
    BY <1>3 DEF EndPass
  <2>2. UNCHANGED <<subs, active, closed, got, diedAt, insAt, spc, early>>
    BY <1>3 DEF EndPass
  <2>3. TypeOK'
    <3>1. handled' \in 0..MaxEvents
      BY <2>1, MaxEventsNat
    <3>2. locked' \in BOOLEAN /\ rpc' \in {"init", "wait", "notify"}
      BY <1>3 DEF EndPass
    <3>3. UNCHANGED <<pending, cbPending>>
      BY <1>3 DEF EndPass
    <3>4. QED
      BY <2>2, <3>1, <3>2, <3>3 DEF TypeOK
  <2>4. \A c \in subs : ~active[c] /\ ~closed[c] => handled <= Settled(c)
    BY <2>1
  <2>5. DeadPruned'
    BY <2>1, <2>2, <2>4
  <2>6. LiveNotified'
    BY <1>3, <2>1, <2>2 DEF EndPass
  <2>7. QED
    BY <1>3, <2>1, <2>2, <2>3, <2>5, <2>6 DEF EndPass
<1>4. ASSUME NEW id \in Clients, Notify(id) PROVE ApiIInv'
  BY <1>4 DEF Notify, NotifyResult
<1>5. ASSUME NEW c \in Clients, SyncingFails(c) PROVE ApiIInv'
  BY <1>5 DEF SyncingFails
<1>6. ASSUME NEW c \in Clients, NewSubscription(c) PROVE ApiIInv'
  BY <1>6 DEF NewSubscription
<1>7. ASSUME NEW c \in Clients, Insert(c) PROVE ApiIInv'
  BY <1>7 DEF Insert
<1>8. ASSUME NEW c \in Clients, Unsubscribe(c) PROVE ApiIInv'
  BY <1>8 DEF Unsubscribe
<1>9. ASSUME NEW c \in Clients, Disconnect(c) PROVE ApiIInv'
  BY <1>9 DEF Disconnect
<1>10. ASSUME NEW c \in Clients, Callback(c) PROVE ApiIInv'
  BY <1>10 DEF Callback
<1>11. CASE UNCHANGED vars
  BY <1>11 DEF vars
<1>12. QED
  BY <1>1, <1>2, <1>3, <1>4, <1>5, <1>6, <1>7, <1>8, <1>9, <1>10, <1>11 DEF Next

\* A subscription whose client unsubscribed stays in the map for at most
\* one complete pass, however long its callback waits, for every number of
\* clients and events; only a closed connection's entry can stay longer.
THEOREM DeadEntriesPruned == Spec => []DeadPruned
<1>1. ApiIInv => DeadPruned
  BY DEF ApiIInv
<1>2. QED
  BY InitApiIInv, NextApiIInv, <1>1, PTL DEF Spec

\* No notification pass skips a live subscription that was in the map
\* before it started, for every number of clients and events.
THEOREM NoSubscriberSkipped == Spec => []LiveNotified
<1>1. ApiIInv => LiveNotified
  BY DEF ApiIInv
<1>2. QED
  BY InitApiIInv, NextApiIInv, <1>1, PTL DEF Spec

\* For every number of clients and events, an entry that nothing will ever
\* delete (dead, no callback due) belongs to a connection that closed
\* before Syncing's insert at 203, after its callback had run, and whose
\* notifier answers the run loop with another error than
\* ErrNotificationNotFound.
THEOREM LeakCharacterised == Spec => []LeakOnlyByEarlyClose
<1>1. ApiIInv => LeakOnlyByEarlyClose
  BY DEF ApiIInv
<1>2. QED
  BY InitApiIInv, NextApiIInv, <1>1, PTL DEF Spec

=============================================================================
