---------------------------- MODULE EthService ----------------------------
(***************************************************************************)
(* The eth service's lifecycle (src/eth/bind.go 499-683, 778-825): New     *)
(* opens the databases and builds the service step by step, returning an  *)
(* error from any of them; the node then Starts and Stops it while the     *)
(* main goroutine waits in WaitForShutdown; RPC handlers call Solc and     *)
(* SetSolc on their own goroutines, with no lock around solc and SolcPath. *)
(***************************************************************************)
EXTENDS Naturals, Sequences

CONSTANTS
    Callers,      \* goroutines of RPC handlers calling Solc / SetSolc
    Paths,        \* solc executable paths
    MaxCalls      \* bound on the calls each handler makes

ASSUME SvcConstAssumption == MaxCalls \in Nat /\ Paths # {}

NoCompiler == "none"       \* a nil *compiler.Solidity

(***************************************************************************)
(* The steps of New in order, the database each opens, and whether it can *)
(* return an error.  "upgrade" stands for upgradeChainDatabase and         *)
(* addMipmapBloomBins (module DbUpgrade).                                  *)
(***************************************************************************)
NewSteps == <<"chaindata", "upgrade", "dapp", "genesis", "bcversion",
              "indexes", "defgenesis", "chainconfig", "blockchain", "protocol">>

\* The databases New opens (538, 549, and 622 when config.UseAddrTxIndex).
Opened(useIdx) == {"chaindata", "dapp"} \cup (IF useIdx THEN {"indexes"} ELSE {})

\* A step opens the database it is named after, if the service uses it.
Opens(step, useIdx) == {step} \cap Opened(useIdx)

\* The indexes step fails only if it opens a database (config.UseAddrTxIndex).
CanFail(step, useIdx) == step # "indexes" \/ useIdx

VARIABLES
    useIdx,       \* config.UseAddrTxIndex
    nk,           \* the next step of New, or 0 once New has returned
    svc,          \* "new", "built", "failed", "started", "stopping", "stopped"
    stopPc,       \* Stop's next statement
    open,         \* the databases open
    chanClosed,   \* shutdownChan is closed
    waiter,       \* the main goroutine: "running", "waiting", "resumed"
    solcPath,     \* self.SolcPath
    solc,         \* self.solc: the path the compiler was made for, or none
    cpc,          \* each handler's program counter
    cpath,        \* the path a handler read before compiler.New
    calls         \* calls each handler has made

vars == <<useIdx, nk, svc, stopPc, open, chanClosed, waiter, solcPath, solc,
          cpc, cpath, calls>>

Dbs == {"chaindata", "dapp", "indexes"}
CPCs == {"idle", "check", "readpath", "create", "setnil"}

TypeOK ==
    /\ useIdx \in BOOLEAN /\ nk \in 0..Len(NewSteps)
    /\ svc \in {"new", "built", "failed", "started", "stopping", "stopped"}
    /\ stopPc \in {"services", "closechain", "closedapp", "closechan", "done"}
    /\ open \subseteq Dbs /\ chanClosed \in BOOLEAN
    /\ waiter \in {"running", "waiting", "resumed"}
    /\ solcPath \in Paths /\ solc \in Paths \cup {NoCompiler}
    /\ cpc \in [Callers -> CPCs] /\ cpath \in [Callers -> Paths]
    /\ calls \in [Callers -> 0..MaxCalls]

Init ==
    /\ useIdx \in BOOLEAN /\ nk = 1 /\ svc = "new" /\ stopPc = "services"
    /\ open = {} /\ chanClosed = FALSE /\ waiter = "running"
    /\ solcPath \in Paths /\ solc = NoCompiler
    /\ cpc = [g \in Callers |-> "idle"]
    /\ cpath = [g \in Callers |-> solcPath]
    /\ calls = [g \in Callers |-> 0]

solcVars == <<solcPath, solc, cpc, cpath, calls>>

(***************************************************************************)
(* New (537-683)                                                           *)
(***************************************************************************)
\* One step of New: it succeeds, opening its database, or returns an error
\* and leaves open what the earlier steps opened.  After the last step the
\* service is built (592-609 make shutdownChan and copy the config).
NewStep ==
    /\ svc = "new"
    /\ LET step == NewSteps[nk] IN
         \/ /\ open' = open \cup Opens(step, useIdx)
            /\ IF nk = Len(NewSteps)
                 THEN nk' = 0 /\ svc' = "built"
                 ELSE nk' = nk + 1 /\ UNCHANGED svc
         \/ /\ CanFail(step, useIdx)
            /\ nk' = 0 /\ svc' = "failed" /\ UNCHANGED open
    /\ UNCHANGED <<useIdx, stopPc, chanClosed, waiter, solcVars>>

(***************************************************************************)
(* Start, Stop, WaitForShutdown (778-804)                                  *)
(***************************************************************************)
\* 780-784: start the protocol manager and the net API.
Start ==
    /\ svc = "built" /\ svc' = "started"
    /\ UNCHANGED <<useIdx, nk, stopPc, open, chanClosed, waiter, solcVars>>

\* 788-792: stop the blockchain, protocol manager, pool and event mux.
StopServices ==
    /\ svc = "started" /\ stopPc = "services"
    /\ svc' = "stopping" /\ stopPc' = "closechain"
    /\ UNCHANGED <<useIdx, nk, open, chanClosed, waiter, solcVars>>

\* Mutant: shutdownChan is closed before the databases.
StopSignalFirst ==
    /\ svc = "stopping" /\ stopPc = "closechain"
    /\ chanClosed' = TRUE /\ stopPc' = "closedapp"
    /\ open' = open \ {"chaindata"}
    /\ UNCHANGED <<useIdx, nk, svc, waiter, solcVars>>

\* 794: close the chain database.
CloseChain ==
    /\ svc = "stopping" /\ stopPc = "closechain"
    /\ open' = open \ {"chaindata"} /\ stopPc' = "closedapp"
    /\ UNCHANGED <<useIdx, nk, svc, chanClosed, waiter, solcVars>>

\* 795: close the dapp database.  The indexes database is not closed.
CloseDapp ==
    /\ svc = "stopping" /\ stopPc = "closedapp"
    /\ open' = open \ {"dapp"} /\ stopPc' = "closechan"
    /\ UNCHANGED <<useIdx, nk, svc, chanClosed, waiter, solcVars>>

\* Mutant: Stop returns without closing shutdownChan.
CloseChanNoClose ==
    /\ svc = "stopping" /\ stopPc = "closechan"
    /\ stopPc' = "done" /\ svc' = "stopped"
    /\ UNCHANGED <<useIdx, nk, open, chanClosed, waiter, solcVars>>

\* 796-798: close shutdownChan and return.  A second Stop would panic here;
\* the node calls Stop once.
CloseChan ==
    /\ svc = "stopping" /\ stopPc = "closechan"
    /\ chanClosed' = TRUE /\ stopPc' = "done" /\ svc' = "stopped"
    /\ UNCHANGED <<useIdx, nk, open, waiter, solcVars>>

\* 801-804: the main goroutine blocks on shutdownChan ...
Wait ==
    /\ svc \notin {"new", "failed"} /\ waiter = "running"
    /\ waiter' = "waiting"
    /\ UNCHANGED <<useIdx, nk, svc, stopPc, open, chanClosed, solcVars>>

\* ... and resumes once it is closed.
Resume ==
    /\ waiter = "waiting" /\ chanClosed
    /\ waiter' = "resumed"
    /\ UNCHANGED <<useIdx, nk, svc, stopPc, open, chanClosed, solcVars>>

(***************************************************************************)
(* Solc and SetSolc (812-825), called by RPC handler goroutines            *)
(***************************************************************************)
otherVars == <<useIdx, nk, svc, stopPc, open, chanClosed, waiter>>

\* Solc is called.
CallSolc(g) ==
    /\ cpc[g] = "idle" /\ calls[g] < MaxCalls
    /\ cpc' = [cpc EXCEPT ![g] = "check"]
    /\ calls' = [calls EXCEPT ![g] = @ + 1]
    /\ UNCHANGED <<otherVars, solcPath, solc, cpath>>

\* 814, 817: read self.solc; if it is set, return it.
SolcCheck(g) ==
    /\ cpc[g] = "check"
    /\ cpc' = [cpc EXCEPT ![g] = IF solc # NoCompiler THEN "idle" ELSE "readpath"]
    /\ UNCHANGED <<otherVars, solcPath, solc, cpath, calls>>

\* 815: read self.SolcPath for compiler.New, a separate unsynchronised
\* access.
SolcReadPath(g) ==
    /\ cpc[g] = "readpath"
    /\ cpath' = [cpath EXCEPT ![g] = solcPath]
    /\ cpc' = [cpc EXCEPT ![g] = "create"]
    /\ UNCHANGED <<otherVars, solcPath, solc, calls>>

\* 815-817: compiler.New returns a compiler for the path read, or an error
\* with a nil compiler; either is stored in self.solc and returned.
SolcCreate(g) ==
    /\ cpc[g] = "create"
    /\ solc' \in {cpath[g], NoCompiler}
    /\ cpc' = [cpc EXCEPT ![g] = "idle"]
    /\ UNCHANGED <<otherVars, solcPath, cpath, calls>>

\* 821-822: SetSolc(p) writes self.SolcPath ...
SetSolc(g, p) ==
    /\ cpc[g] = "idle" /\ calls[g] < MaxCalls
    /\ solcPath' = p
    /\ cpc' = [cpc EXCEPT ![g] = "setnil"]
    /\ calls' = [calls EXCEPT ![g] = @ + 1]
    /\ UNCHANGED <<otherVars, solc, cpath>>

\* ... 823-824: clears self.solc and calls Solc.
SetSolcNil(g) ==
    /\ cpc[g] = "setnil"
    /\ solc' = NoCompiler
    /\ cpc' = [cpc EXCEPT ![g] = "check"]
    /\ UNCHANGED <<otherVars, solcPath, cpath, calls>>

Next ==
    \/ NewStep \/ Start \/ StopServices \/ CloseChain \/ CloseDapp
    \/ CloseChan \/ Wait \/ Resume
    \/ \E g \in Callers :
          \/ CallSolc(g) \/ SolcCheck(g) \/ SolcReadPath(g) \/ SolcCreate(g)
          \/ SetSolcNil(g) \/ \E p \in Paths : SetSolc(g, p)

Spec == Init /\ [][Next]_vars

\* Stop runs to its end on the node's goroutine (the Close calls and close()
\* do not block), and the Go runtime wakes the main goroutine blocked on
\* shutdownChan once it is closed.  Nothing forces Start, Stop or Wait to be
\* called, nor the handlers to run.
FairSpec ==
    /\ Spec
    /\ WF_vars(CloseChain \/ CloseDapp \/ CloseChan)
    /\ WF_vars(Resume)

(***************************************************************************)
(* Properties                                                              *)
(***************************************************************************)
\* When WaitForShutdown returns and the main goroutine goes on (to exit the
\* process), Stop has already closed the chain and dapp databases: the
\* close of shutdownChan (796) comes after both Close calls (794-795).
ShutdownAfterClose ==
    waiter = "resumed" => open \cap {"chaindata", "dapp"} = {}

\* Once Stop has begun, a main goroutine waiting in WaitForShutdown
\* (801-804) -- before Stop or after it -- resumes: Stop goes on to close
\* both databases and then shutdownChan (794-796), which releases it.
StopReleasesWaiter ==
    (waiter = "waiting" /\ svc \in {"stopping", "stopped"}) ~> (waiter = "resumed")

\* SetSolc(p) "sets" the compiler (the comment at 820): whenever no handler
\* is inside Solc or SetSolc, the cached compiler, if any, is the one for
\* the current SolcPath.
SolcFollowsPath ==
    (\A g \in Callers : cpc[g] = "idle") => solc \in {NoCompiler, solcPath}

=============================================================================
