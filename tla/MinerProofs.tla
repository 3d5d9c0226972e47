---------------------------- MODULE MinerProofs ----------------------------
(***************************************************************************)
(* Proofs about the Miner as written, for every value of the constants.   *)
(*                                                                         *)
(* TypeOK and AtMostOneSession are not inductive on their own: PostMined   *)
(* types its event only if miner.block holds a processed block, and that   *)
(* needs that no other session has overwritten miner.block, i.e. that the  *)
(* only live session is the one powQuitChan names.  IInv (in Miner) adds   *)
(* exactly these facts.                                                    *)
(***************************************************************************)
EXTENDS Miner, TLAPS

USE ConstAssumption

\* Facts about the constant sets the steps below use.
LEMMA SetFacts ==
    /\ NoSession \notin Sessions
    /\ NoId \notin Blocks
    /\ NoBlock \notin Blocks
    /\ Blocks \subseteq Int
  BY DEF Sessions, NoSession, NoId, Blocks, NoBlock

(* startMining keeps the session states typed and makes the last session   *)
(* it spawns the only live one, provided the only sessions of w that are   *)
(* live are ones it replaces.                                              *)
LEMMA StartMiningType ==
    ASSUME NEW w \in [Sessions -> WStates], NEW k \in Nat,
           round \in 0..MaxRounds, powQuitChan \in Sessions \cup {NoSession},
           StartMining(w, k)
    PROVE  /\ wpc' \in [Sessions -> WStates]
           /\ round' \in 0..MaxRounds
           /\ powQuitChan' \in Sessions \cup {NoSession}
  BY DEF StartMining, Sessions, NoSession, WStates, Live

LEMMA StartMiningLive ==
    ASSUME NEW w \in [Sessions -> WStates], round \in 0..MaxRounds,
           \A s \in Sessions : w[s] \notin Live,
           StartMining(w, 1)
    PROVE  \A s \in Sessions : wpc'[s] \in Live => s = powQuitChan'
  BY DEF StartMining, Sessions, Live

\* Every transaction in the pool, in miner.txs or reported erroneous has
\* arrived at the node: the pool only receives arrivals (TxArrive), and
\* miner.txs only takes from the pool (Start, line 270; Finalize, line 417).
TxsArrived == pool \cup txs \cup failed \subseteq arrived

\* The inductive strengthening of FailedTxsStayOut: a transaction arrives
\* only once (TxArrive), so one already reported erroneous cannot come
\* back through the pool.
TxIInv == FailedTxsStayOut /\ TxsArrived

----------------------------------------------------------------------------
(* IInv holds initially. *)
LEMMA InitIInv == Init => IInv
<1> SUFFICES ASSUME Init PROVE IInv
  OBVIOUS
<1>1. block \in BlockRecs
  BY DEF Init, BlockRecs, Blocks
<1>2. ev \in Events \cup {NoEvent}
  BY DEF Init
<1>3. /\ wpc \in [Sessions -> WStates]
      /\ powQuitChan \in Sessions \cup {NoSession}
      /\ round \in 0..MaxRounds
  BY DEF Init, WStates, NoSession
<1>4. /\ parent \in [Blocks -> Blocks \cup {NoBlock}]
      /\ btxs \in [Blocks -> SUBSET Txs]
      /\ nblocks \in 0..MaxBlocks
      /\ head \in Blocks
  BY DEF Init, Blocks
<1>5. TypeOK
  BY <1>1, <1>2, <1>3, <1>4 DEF Init, TypeOK, LStates
<1>6. QED
  BY <1>5 DEF Init, IInv, LiveIsCurrent, NoSessionBeforeInit, NoListenerBeforeStart,
              PostedBlockProcessed, Live

(* Every step of the Miner preserves IInv. *)
LEMMA NextIInv == IInv /\ [Next]_vars => IInv'
<1> SUFFICES ASSUME IInv, [Next]_vars PROVE IInv'
  OBVIOUS
<1> USE DEF IInv
<1>1. CASE Start
  BY <1>1 DEF Start, TypeOK, LiveIsCurrent, NoSessionBeforeInit, NoListenerBeforeStart,
              PostedBlockProcessed, BlockRecs, LStates
<1>2. CASE Stop
  BY <1>2 DEF Stop, TypeOK, LiveIsCurrent, NoSessionBeforeInit, NoListenerBeforeStart,
              PostedBlockProcessed, envVars
<1>3. CASE ToggleTurbo
  BY <1>3 DEF ToggleTurbo, TypeOK, LiveIsCurrent, NoSessionBeforeInit, NoListenerBeforeStart,
              PostedBlockProcessed, envVars
<1>4. CASE ListenerInit
  <2>1. \A s \in Sessions : wpc[s] \notin Live
    BY <1>4 DEF ListenerInit, NoSessionBeforeInit, NoListenerBeforeStart, Live
  <2>2. /\ wpc' \in [Sessions -> WStates]
        /\ round' \in 0..MaxRounds
        /\ powQuitChan' \in Sessions \cup {NoSession}
    BY <1>4, StartMiningType DEF ListenerInit, TypeOK
  <2>3. LiveIsCurrent'
    BY <1>4, <2>1, StartMiningLive DEF ListenerInit, TypeOK, LiveIsCurrent
  <2>4. PostedBlockProcessed'
    BY <1>4, <2>1 DEF ListenerInit, StartMining, PostedBlockProcessed, Live
  <2>5. QED
    BY <1>4, <2>2, <2>3, <2>4 DEF ListenerInit, TypeOK, NoSessionBeforeInit, NoListenerBeforeStart,
                                 envVars, LStates
<1>5. CASE ListenerSpin
  BY <1>5 DEF ListenerSpin, TypeOK, LiveIsCurrent, NoSessionBeforeInit, NoListenerBeforeStart,
              PostedBlockProcessed, envVars, LStates
<1>6. CASE HandleNewBlock
  BY <1>6 DEF HandleNewBlock, StopMiningReturns, TypeOK, LiveIsCurrent,
              NoSessionBeforeInit, NoListenerBeforeStart, PostedBlockProcessed, envVars, LStates
<1>7. CASE HandleTxPre
  BY <1>7 DEF HandleTxPre, StopMiningReturns, TypeOK, LiveIsCurrent,
              NoSessionBeforeInit, NoListenerBeforeStart, PostedBlockProcessed, envVars, LStates
<1>8. ASSUME NEW s \in Sessions, Assemble(s) PROVE IInv'
  <2>1. block' \in BlockRecs
    BY <1>8 DEF Assemble, TypeOK, BlockRecs
  <2>2. QED
    BY <1>8, <2>1 DEF Assemble, TypeOK, LiveIsCurrent, NoSessionBeforeInit, NoListenerBeforeStart,
                     PostedBlockProcessed, WStates, Live
<1>9. ASSUME NEW s \in Sessions, Search(s) PROVE IInv'
  BY <1>9 DEF Search, TypeOK, LiveIsCurrent, NoSessionBeforeInit, NoListenerBeforeStart,
              PostedBlockProcessed, WStates, Live, envVars
<1>10. ASSUME NEW s \in Sessions, Finalize(s) PROVE IInv'
  <2>1. s = powQuitChan
    BY <1>10 DEF Finalize, LiveIsCurrent, Live
  <2>2. CASE /\ nblocks < MaxBlocks
             /\ LET b == nblocks + 1 IN
                  /\ nblocks' = b
                  /\ parent' = [parent EXCEPT ![b] = block.parent]
                  /\ btxs' = [btxs EXCEPT ![b] = block.txs]
                  /\ head' = IF block.parent = head THEN b ELSE head
                  /\ pool' = pool \ block.txs
                  /\ txs' = pool \ block.txs
                  /\ block' = [block EXCEPT !.id = b]
             /\ wpc' = [wpc EXCEPT ![s] = "post"]
             /\ UNCHANGED <<powQuitChan, round>>
    <3>0. nblocks + 1 \in Blocks
      BY <2>2 DEF TypeOK, Blocks
    <3>1. TypeOK'
      <4>1. block' \in BlockRecs
        BY <2>2, <3>0 DEF TypeOK, BlockRecs
      <4>2. /\ parent' \in [Blocks -> Blocks \cup {NoBlock}]
            /\ btxs' \in [Blocks -> SUBSET Txs]
            /\ head' \in Blocks /\ nblocks' \in 0..MaxBlocks
        BY <2>2, <3>0 DEF TypeOK, BlockRecs
      <4>3. wpc' \in [Sessions -> WStates] /\ txs' \in SUBSET Txs
                                          /\ pool' \in SUBSET Txs
        BY <1>10, <2>2 DEF TypeOK, WStates, Live
      <4>4. QED
        BY <1>10, <2>2, <4>1, <4>2, <4>3 DEF Finalize, TypeOK
    <3>2. LiveIsCurrent' /\ NoSessionBeforeInit' /\ NoListenerBeforeStart'
      BY <1>10, <2>1, <2>2 DEF Finalize, TypeOK, LiveIsCurrent,
                                NoSessionBeforeInit, NoListenerBeforeStart, Live
    <3>3. PostedBlockProcessed'
      BY <2>2, <3>0 DEF PostedBlockProcessed, TypeOK, BlockRecs
    <3>4. QED
      BY <3>1, <3>2, <3>3
  <2>3. CASE /\ StartMining([wpc EXCEPT ![s] = "exit"], 1)
             /\ UNCHANGED <<txs, block, pool, parent, btxs, nblocks, head>>
    <3> DEFINE w == [wpc EXCEPT ![s] = "exit"]
    <3>1. w \in [Sessions -> WStates] /\ \A r \in Sessions : w[r] \notin Live
      BY <2>1 DEF LiveIsCurrent, TypeOK, WStates, Live
    <3>2. /\ wpc' \in [Sessions -> WStates]
          /\ round' \in 0..MaxRounds
          /\ powQuitChan' \in Sessions \cup {NoSession}
      BY <2>3, <3>1, StartMiningType DEF TypeOK
    <3>3. LiveIsCurrent'
      BY <2>3, <3>1, StartMiningLive DEF TypeOK, LiveIsCurrent
    <3>4. PostedBlockProcessed' /\ NoSessionBeforeInit' /\ NoListenerBeforeStart'
      BY <1>10, <2>3, <3>1 DEF Finalize, StartMining, PostedBlockProcessed,
                              NoSessionBeforeInit, NoListenerBeforeStart, Live
    <3>5. QED
      BY <1>10, <2>3, <3>2, <3>3, <3>4 DEF Finalize, TypeOK
  <2>4. QED
    BY <1>10, <2>2, <2>3 DEF Finalize
<1>11. ASSUME NEW s \in Sessions, PostMined(s) PROVE IInv'
  <2> DEFINE w == [wpc EXCEPT ![s] = "exit"]
  <2>1. s = powQuitChan
    BY <1>11 DEF PostMined, LiveIsCurrent, Live
  <2>2. w \in [Sessions -> WStates] /\ \A r \in Sessions : w[r] \notin Live
    BY <2>1 DEF LiveIsCurrent, TypeOK, WStates, Live
  <2>3. /\ wpc' \in [Sessions -> WStates]
        /\ round' \in 0..MaxRounds
        /\ powQuitChan' \in Sessions \cup {NoSession}
    BY <1>11, <2>2, StartMiningType DEF PostMined, TypeOK
  <2>4. LiveIsCurrent'
    BY <1>11, <2>2, StartMiningLive DEF PostMined, TypeOK, LiveIsCurrent
  <2>5. PostedBlockProcessed'
    BY <1>11, <2>2 DEF PostMined, StartMining, PostedBlockProcessed, Live
  <2>6. NoSessionBeforeInit' /\ NoListenerBeforeStart'
    BY <1>11 DEF PostMined, NoSessionBeforeInit, NoListenerBeforeStart
  <2>7. ev' \in Events \cup {NoEvent} /\ lpc' \in LStates
    <3>1. block.id \in Blocks
      BY <1>11 DEF PostMined, PostedBlockProcessed
    <3>2. NewBlockEvent(block.id) \in Events
      BY <3>1 DEF Events
    <3>3. QED
      BY <1>11, <3>2 DEF PostMined, TypeOK, Events, NewBlockEvent,
                 LStates
  <2>8. QED
    BY <1>11, <2>3, <2>4, <2>5, <2>6, <2>7 DEF PostMined, TypeOK, envVars
<1>12. ASSUME NEW t \in Txs, TxArrive(t) PROVE IInv'
  BY <1>12 DEF TxArrive, TypeOK, LiveIsCurrent, NoSessionBeforeInit, NoListenerBeforeStart,
               PostedBlockProcessed, minerVars, Events, TxPreEvent,
               NewBlockEvent
<1>13. ASSUME NEW p \in Blocks, NEW T \in SUBSET Txs, ImportBlock(p, T)
       PROVE IInv'
  BY <1>13 DEF ImportBlock, TypeOK, LiveIsCurrent, NoSessionBeforeInit, NoListenerBeforeStart,
               PostedBlockProcessed, minerVars, Events, TxPreEvent,
               NewBlockEvent, Blocks, NoBlock
<1>14. ASSUME NEW e \in Events, Deliver(e) PROVE IInv'
  BY <1>14 DEF Deliver, TypeOK, LiveIsCurrent, NoSessionBeforeInit, NoListenerBeforeStart,
               PostedBlockProcessed, LStates
<1>15. ASSUME NEW e \in Events, DropPost(e) PROVE IInv'
  BY <1>15 DEF DropPost, TypeOK, LiveIsCurrent, NoSessionBeforeInit, NoListenerBeforeStart,
               PostedBlockProcessed, minerVars
<1>16. CASE UNCHANGED vars
  BY <1>16 DEF vars, minerVars, envVars, TypeOK, LiveIsCurrent,
               NoSessionBeforeInit, NoListenerBeforeStart, PostedBlockProcessed
<1>17. QED
  BY <1>1, <1>2, <1>3, <1>4, <1>5, <1>6, <1>7, <1>8, <1>9, <1>10, <1>11,
     <1>12, <1>13, <1>14, <1>15, <1>16
     DEF Next, Caller, Listener, Session, Environment

----------------------------------------------------------------------------
(* The Miner's state is always well typed. *)
THEOREM TypeCorrect == Spec => []TypeOK
<1>1. IInv => TypeOK
  BY DEF IInv
<1>2. QED
  BY InitIInv, NextIInv, <1>1, PTL DEF Spec

(* Two mining sessions are never in flight at once, for any number of      *)
(* transactions, blocks and rounds: the listener's stopMining never        *)
(* returns, so startMining is only ever called by the finishing session.   *)
THEOREM SingleSession == Spec => []AtMostOneSession
<1>1. IInv => AtMostOneSession
  BY DEF IInv, LiveIsCurrent, AtMostOneSession
<1>2. QED
  BY InitIInv, NextIInv, <1>1, PTL DEF Spec

----------------------------------------------------------------------------
(* TxIInv holds initially: nothing has arrived, nothing is pending. *)
LEMMA InitTxIInv == Init => TxIInv
  BY DEF Init, TxIInv, FailedTxsStayOut, TxsArrived

(* Every step keeps TxIInv.  The state processor's erroneous transactions  *)
(* leave the pool and miner.txs in the same step that records them (392);  *)
(* miner.txs is only refilled from the pool (270, 417); a transaction      *)
(* arrives only once.  The listener's handlers change nothing, because     *)
(* stopMining never returns.                                               *)
LEMMA NextTxIInv == TxIInv /\ TypeOK /\ [Next]_vars => TxIInv'
<1> SUFFICES ASSUME TxIInv, TypeOK, [Next]_vars PROVE TxIInv'
  OBVIOUS
<1> USE DEF TxIInv, FailedTxsStayOut, TxsArrived
<1>1. CASE Start
  BY <1>1 DEF Start
<1>2. CASE Stop
  BY <1>2 DEF Stop, envVars
<1>3. CASE ToggleTurbo
  BY <1>3 DEF ToggleTurbo, envVars
<1>4. CASE ListenerInit
  BY <1>4 DEF ListenerInit, envVars
<1>5. CASE ListenerSpin
  BY <1>5 DEF ListenerSpin, envVars
<1>6. CASE HandleNewBlock
  BY <1>6 DEF HandleNewBlock, StopMiningReturns, envVars
<1>7. CASE HandleTxPre
  BY <1>7 DEF HandleTxPre, StopMiningReturns, envVars
<1>8. ASSUME NEW s \in Sessions, Assemble(s) PROVE TxIInv'
  BY <1>8 DEF Assemble
<1>9. ASSUME NEW s \in Sessions, Search(s) PROVE TxIInv'
  BY <1>9 DEF Search, envVars
<1>10. ASSUME NEW s \in Sessions, Finalize(s) PROVE TxIInv'
  BY <1>10 DEF Finalize
<1>11. ASSUME NEW s \in Sessions, PostMined(s) PROVE TxIInv'
  BY <1>11 DEF PostMined, envVars
<1>12. ASSUME NEW t \in Txs, TxArrive(t) PROVE TxIInv'
  BY <1>12 DEF TxArrive, minerVars
<1>13. ASSUME NEW p \in Blocks, NEW T \in SUBSET Txs, ImportBlock(p, T)
       PROVE TxIInv'
  BY <1>13 DEF ImportBlock, minerVars
<1>14. ASSUME NEW e \in Events, Deliver(e) PROVE TxIInv'
  BY <1>14 DEF Deliver
<1>15. ASSUME NEW e \in Events, DropPost(e) PROVE TxIInv'
  BY <1>15 DEF DropPost, minerVars
<1>16. CASE UNCHANGED vars
  BY <1>16 DEF vars, minerVars, envVars
<1>17. QED
  BY <1>1, <1>2, <1>3, <1>4, <1>5, <1>6, <1>7, <1>8, <1>9, <1>10, <1>11,
     <1>12, <1>13, <1>14, <1>15, <1>16
     DEF Next, Caller, Listener, Session, Environment

(* The inductive invariant IInv holds in every reachable state, for every  *)
(* value of the constants.                                                 *)
THEOREM MinerIInv == Spec => []IInv
  BY InitIInv, NextIInv, PTL DEF Spec

(* A transaction the state processor reported erroneous never returns to   *)
(* miner.txs or to the pool, for every number of transactions, blocks and  *)
(* rounds: mineNewBlock removes it from both when it records it (392), and *)
(* the refresh at 417 only copies the pool.                                *)
THEOREM FailedStayOut == Spec => []FailedTxsStayOut
<1>1. Init => IInv /\ TxIInv
  BY InitIInv, InitTxIInv
<1>2. IInv /\ TxIInv /\ [Next]_vars => IInv' /\ TxIInv'
  BY NextIInv, NextTxIInv DEF IInv
<1>3. IInv /\ TxIInv => FailedTxsStayOut
  BY DEF TxIInv
<1>4. QED
  BY <1>1, <1>2, <1>3, PTL DEF Spec

=============================================================================
