-------------------------- MODULE EthServiceProofs --------------------------
(***************************************************************************)
(* Proofs about the eth service's lifecycle (EthService): the shutdown     *)
(* order invariant, for every set of handlers and paths and every bound on *)
(* their calls.                                                            *)
(***************************************************************************)
EXTENDS EthService, TLAPS

USE SvcConstAssumption DEF NoCompiler, Dbs, CPCs

\* The databases the first k - 1 steps of New have opened.
OpenedBefore(k) == {d \in Opened(useIdx) : \E j \in 1..(k - 1) : NewSteps[j] = d}

(***************************************************************************)
(* The inductive invariant.  New's databases are exactly those its earlier *)
(* steps opened; a built or started service holds all of them; Stop closes *)
(* them in its order; shutdownChan is closed exactly when Stop has        *)
(* returned; and only a built service's main goroutine waits.             *)
(***************************************************************************)
SvcIInv ==
    /\ TypeOK
    /\ svc = "new" => nk \in 1..Len(NewSteps) /\ open = OpenedBefore(nk)
    /\ svc # "new" => nk = 0
    /\ svc \in {"new", "failed", "built", "started"} => stopPc = "services"
    /\ svc \in {"built", "started"} => open = Opened(useIdx)
    /\ svc = "failed" => open \subseteq Opened(useIdx)
    /\ svc = "stopping" => stopPc \in {"closechain", "closedapp", "closechan"}
    /\ stopPc = "closechain" => open = Opened(useIdx)
    /\ stopPc = "closedapp" => open = Opened(useIdx) \ {"chaindata"}
    /\ stopPc = "closechan" => open = Opened(useIdx) \ {"chaindata", "dapp"}
    /\ svc = "stopped" =>
          stopPc = "done" /\ open = Opened(useIdx) \ {"chaindata", "dapp"}
    /\ chanClosed <=> svc = "stopped"
    /\ waiter # "running" => svc \notin {"new", "failed"}
    /\ waiter = "resumed" => chanClosed

\* The steps of New that open a database, and how many steps there are.
LEMMA NewStepsFacts ==
    /\ Len(NewSteps) = 10
    /\ NewSteps[1] = "chaindata" /\ NewSteps[3] = "dapp"
    /\ NewSteps[6] = "indexes"
  BY DEF NewSteps

USE NewStepsFacts

\* The initial state: New has not run a step, nothing is open.
LEMMA InitSvcIInv == Init => SvcIInv
<1> SUFFICES ASSUME Init PROVE SvcIInv
  OBVIOUS
<1>1. TypeOK
  <2>1. /\ useIdx \in BOOLEAN /\ nk \in 0..Len(NewSteps)
        /\ solcPath \in Paths /\ solc \in Paths \cup {NoCompiler}
    BY DEF Init
  <2>2. /\ cpc \in [Callers -> CPCs] /\ cpath \in [Callers -> Paths]
        /\ calls \in [Callers -> 0..MaxCalls]
    BY DEF Init
  <2>3. QED
    BY <2>1, <2>2 DEF Init, TypeOK
<1>2. open = OpenedBefore(nk)
  BY DEF Init, OpenedBefore
<1>3. QED
  BY <1>1, <1>2 DEF Init, SvcIInv

\* One step of New keeps open exactly what its steps so far opened.
LEMMA NewStepIInv == SvcIInv /\ NewStep => SvcIInv'
<1> SUFFICES ASSUME SvcIInv, NewStep PROVE SvcIInv'
  OBVIOUS
<1>1. /\ svc = "new" /\ nk \in 1..10 /\ open = OpenedBefore(nk)
      /\ stopPc = "services" /\ ~chanClosed /\ waiter = "running"
      /\ TypeOK
  BY DEF SvcIInv, NewStep
<1>2. UNCHANGED <<useIdx, stopPc, chanClosed, waiter, solcVars>>
  BY DEF NewStep
<1>3. CASE /\ open' = open \cup Opens(NewSteps[nk], useIdx)
           /\ nk = 10 /\ nk' = 0 /\ svc' = "built"
  <2>1. open' = Opened(useIdx)
    <3>1. open' \subseteq Opened(useIdx)
      BY <1>1, <1>3 DEF OpenedBefore, Opens
    <3>2. Opened(useIdx) \subseteq open'
      BY <1>1, <1>3 DEF OpenedBefore, Opened
    <3>3. QED
      BY <3>1, <3>2
  <2>2. TypeOK'
    BY <1>1, <1>2, <1>3, <2>1 DEF TypeOK, Opened, solcVars
  <2>3. QED
    BY <1>1, <1>2, <1>3, <2>1, <2>2 DEF SvcIInv
<1>4. CASE /\ open' = open \cup Opens(NewSteps[nk], useIdx)
           /\ nk # 10 /\ nk' = nk + 1 /\ svc' = svc
  <2>1. useIdx' = useIdx
    BY <1>2
  <2>2. \A d : (\E j \in 1..(nk' - 1) : NewSteps[j] = d)
                <=> (\E j \in 1..(nk - 1) : NewSteps[j] = d) \/ NewSteps[nk] = d
    BY <1>1, <1>4
  <2>3. \A d : d \in open' <=>
                 /\ d \in Opened(useIdx)
                 /\ (\E j \in 1..(nk - 1) : NewSteps[j] = d) \/ NewSteps[nk] = d
    BY <1>1, <1>4 DEF OpenedBefore, Opens
  <2>7. open' = OpenedBefore(nk)'
    BY <2>1, <2>2, <2>3 DEF OpenedBefore
  <2>8. nk' \in 1..Len(NewSteps)
    BY <1>1, <1>4
  <2>4. open' \subseteq Dbs
    BY <1>1, <1>4 DEF TypeOK, Opens, Opened
  <2>5. TypeOK'
    BY <1>1, <1>2, <1>4, <2>4 DEF TypeOK, solcVars
  <2>6. QED
    BY <1>1, <1>2, <1>4, <2>5, <2>7, <2>8 DEF SvcIInv
<1>5. CASE /\ CanFail(NewSteps[nk], useIdx)
           /\ nk' = 0 /\ svc' = "failed" /\ open' = open
  <2>1. open \subseteq Opened(useIdx)
    BY <1>1 DEF OpenedBefore
  <2>2. TypeOK'
    BY <1>1, <1>2, <1>5 DEF TypeOK, solcVars
  <2>3. QED
    BY <1>1, <1>2, <1>5, <2>1, <2>2 DEF SvcIInv
<1>6. QED
  BY <1>1, <1>3, <1>4, <1>5 DEF NewStep

\* The other steps: Start, Stop's statements, WaitForShutdown and the Solc
\* handlers.
LEMMA NextSvcIInv == SvcIInv /\ [Next]_vars => SvcIInv'
<1> SUFFICES ASSUME SvcIInv, [Next]_vars PROVE SvcIInv'
  OBVIOUS
<1>1. CASE NewStep
  BY <1>1, NewStepIInv
<1>2. CASE Start
  BY <1>2 DEF Start, SvcIInv, TypeOK, solcVars
<1>3. CASE StopServices
  BY <1>3 DEF StopServices, SvcIInv, TypeOK, solcVars
<1>4. CASE CloseChain
  BY <1>4 DEF CloseChain, SvcIInv, TypeOK, solcVars
<1>5. CASE CloseDapp
  BY <1>5 DEF CloseDapp, SvcIInv, TypeOK, solcVars
<1>6. CASE CloseChan
  BY <1>6 DEF CloseChan, SvcIInv, TypeOK, solcVars
<1>7. CASE Wait
  BY <1>7 DEF Wait, SvcIInv, TypeOK, solcVars
<1>8. CASE Resume
  BY <1>8 DEF Resume, SvcIInv, TypeOK, solcVars
<1>9. CASE \E g \in Callers : CallSolc(g) \/ SolcCheck(g) \/ SolcReadPath(g) \/ SolcCreate(g)
                              \/ SetSolcNil(g) \/ \E p \in Paths : SetSolc(g, p)
  <2> PICK g \in Callers : CallSolc(g) \/ SolcCheck(g) \/ SolcReadPath(g) \/ SolcCreate(g)
                           \/ SetSolcNil(g) \/ \E p \in Paths : SetSolc(g, p)
    BY <1>9
  <2>1. UNCHANGED otherVars
    BY DEF CallSolc, SolcCheck, SolcReadPath, SolcCreate, SetSolcNil, SetSolc
  <2>2. TypeOK'
    <3>1. CASE CallSolc(g)
      BY <3>1 DEF CallSolc, SvcIInv, TypeOK, otherVars
    <3>2. CASE SolcCheck(g)
      BY <3>2 DEF SolcCheck, SvcIInv, TypeOK, otherVars
    <3>7. CASE SolcReadPath(g)
      BY <3>7 DEF SolcReadPath, SvcIInv, TypeOK, otherVars
    <3>3. CASE SolcCreate(g)
      BY <3>3 DEF SolcCreate, SvcIInv, TypeOK, otherVars
    <3>4. CASE SetSolcNil(g)
      BY <3>4 DEF SetSolcNil, SvcIInv, TypeOK, otherVars
    <3>5. CASE \E p \in Paths : SetSolc(g, p)
      BY <3>5 DEF SetSolc, SvcIInv, TypeOK, otherVars
    <3>6. QED
      BY <3>1, <3>2, <3>7, <3>3, <3>4, <3>5
  <2>3. QED
    BY <2>1, <2>2 DEF SvcIInv, otherVars, OpenedBefore
<1>10. CASE UNCHANGED vars
  BY <1>10 DEF vars, SvcIInv, TypeOK, OpenedBefore
<1>11. QED
  BY <1>1, <1>2, <1>3, <1>4, <1>5, <1>6, <1>7, <1>8, <1>9, <1>10 DEF Next

\* WaitForShutdown releases the main goroutine only after Stop has closed
\* the chain and dapp databases, for every instance of the service.
THEOREM ShutdownOrdered == Spec => []ShutdownAfterClose
<1>1. SvcIInv => ShutdownAfterClose
  BY DEF SvcIInv, ShutdownAfterClose
<1>2. QED
  BY InitSvcIInv, NextSvcIInv, <1>1, PTL DEF Spec

=============================================================================
