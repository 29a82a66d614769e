---------------------------- MODULE SevenDayWorker ----------------------------
(***************************************************************************)
(* The processes that call ingestLogs on the default scope of HyperEVM.    *)
(* A worker (runSevenDayWorker, src/indexer/worker.ts) is a web process    *)
(* that takes the PostgreSQL advisory lock 999700001, marks stale run rows *)
(* interrupted, resolves the window once, and calls ingestLogs until it    *)
(* ends with something else than a recoverable error.  Every other         *)
(* ingester is a CLI command (backfill, seven-day-backfill or sync of      *)
(* src/cli.ts), which calls ingestLogs once and takes no lock.             *)
(***************************************************************************)
EXTENDS Ingestion

CONSTANTS
  Workers,        \* the ingesters that are web processes
  WindowLength,   \* blocks of seven days
  LockAttempts,   \* LOCK_RETRY_ATTEMPTS
  MaxCrashes      \* bound on the number of process deaths

ASSUME WorkerAssumption ==
  /\ Workers \subseteq Ingesters
  /\ WindowLength \in Nat \ {0}
  /\ LockAttempts \in Nat \ {0}
  /\ MaxCrashes \in Nat
  /\ ~ FinalizedTag          \* HyperEVM is read with a confirmation lag

VARIABLES
  phase,     \* where runSevenDayWorker is
  tries,     \* attempt: calls of pg_try_advisory_lock so far
  session,   \* what lockClient's database session holds: "ghost" outlives its process
  window,    \* range: the window this worker backfills
  crashes    \* process deaths so far

workerVars == <<phase, tries, session, window, crashes>>
allVars == <<vars, workerVars>>

CLI == Ingesters \ Workers

NoWindow == [from |-> 1, to |-> 1]

WorkerInit ==
  /\ Init
  /\ phase = [w \in Workers |-> "off"]
  /\ tries = [w \in Workers |-> 0]
  /\ session = [w \in Workers |-> "free"]
  /\ window = [w \in Workers |-> NoWindow]
  /\ crashes = 0

Goto(w, from, to) ==
  /\ phase[w] = from
  /\ phase' = [phase EXCEPT ![w] = to]

--------------------------------------------------------------------------------
Boot(w) ==
  /\ Goto(w, "off", "locking")
  /\ UNCHANGED <<vars, tries, session, window, crashes>>

Locked == \E v \in Workers : session[v] # "free"

\* Fault: a transaction-level lock is gone with the statement.
AcquireForStatement(w) ==
  /\ ~ Locked
  /\ Goto(w, "locking", "sweep")
  /\ UNCHANGED <<vars, tries, session, window, crashes>>

Acquire(w) ==
  /\ ~ Locked
  /\ Goto(w, "locking", "sweep")
  /\ session' = [session EXCEPT ![w] = "held"]
  /\ UNCHANGED <<vars, tries, window, crashes>>

\* Fault: one attempt too many.
RetryLockOnceMore(w) ==
  /\ Locked
  /\ tries[w] + 1 <= LockAttempts
  /\ Goto(w, "locking", "locking")
  /\ tries' = [tries EXCEPT ![w] = @ + 1]
  /\ UNCHANGED <<vars, session, window, crashes>>

RetryLock(w) ==
  /\ Locked
  /\ tries[w] + 1 < LockAttempts
  /\ Goto(w, "locking", "locking")
  /\ tries' = [tries EXCEPT ![w] = @ + 1]
  /\ UNCHANGED <<vars, session, window, crashes>>

\* Fault: the worker goes on without the lock.
GoOnUnlocked(w) ==
  /\ Locked
  /\ tries[w] + 1 = LockAttempts
  /\ Goto(w, "locking", "sweep")
  /\ UNCHANGED <<vars, tries, session, window, crashes>>

\* The last attempt failed: the worker returns "already-running".
GiveUpLock(w) ==
  /\ Locked
  /\ tries[w] + 1 = LockAttempts
  /\ Goto(w, "locking", "done")
  /\ UNCHANGED <<vars, tries, session, window, crashes>>

\* Every row of the chain that says "running" is taken for a dead worker's.
Sweep(w) ==
  /\ Goto(w, "sweep", "resolve")
  /\ runs' = [i \in Ingesters |-> IF runs[i] = "running" THEN "interrupted" ELSE runs[i]]
  /\ orphaned' = FALSE
  /\ UNCHANGED <<chainVars, dbVars, pc, chunkVars, callVars, aborted, outcome>>
  /\ UNCHANGED <<tries, session, window, crashes>>

\* resolveSevenDayRange: once, before the retry loop.
SevenDayRange == [from |-> Greater(1, FinalizedHead - WindowLength + 1), to |-> FinalizedHead]

ResolveWindow(w) ==
  /\ FinalizedHead \in Blocks
  /\ Goto(w, "resolve", "ready")
  /\ window' = [window EXCEPT ![w] = SevenDayRange]
  /\ UNCHANGED <<vars, tries, session, crashes>>

\* The sweep or the window fails, outside the retry loop.
SetupError(w) ==
  /\ \/ Goto(w, "sweep", "leaving")
     \/ Goto(w, "resolve", "leaving")
  /\ UNCHANGED <<vars, tries, session, window, crashes>>

--------------------------------------------------------------------------------
\* The call is let in, or finds nothing to do, ...
CallAccepted(w) == NoOp(w, window[w]) \/ Start(w, window[w])

\* ... or it throws before it has a run row.
CallRefused(w) == \E class \in Thrown : Refuse(w, window[w], class)

Call(w, accepted) ==
  /\ ~ aborted[w]
  /\ Goto(w, "ready", "calling")
  /\ accepted
  /\ UNCHANGED <<tries, session, window, crashes>>

\* The steps of ingestLogs.
InCall(w) ==
  /\ phase[w] = "calling"
  /\ UNCHANGED workerVars

Settled(w) ==
  /\ phase[w] = "calling"
  /\ pc[w] = "idle"
  /\ UNCHANGED <<vars, tries, session, window, crashes>>

\* What classifyRpcError makes of the error: the message of a quota error may
\* or may not say "429" as well.
Recoverable(class) == class \in {"range", "rate-limit", "transient", "quota"}
Final(class)       == class \notin {"range", "rate-limit", "transient"}

\* A recoverable error: wait and call again, with the same window.
Recover(w) ==
  /\ Settled(w)
  /\ Recoverable(outcome[w])
  /\ Goto(w, "calling", "ready")

\* The call returned, or threw a fatal error: either way, finally.
LeaveLoop(w) ==
  /\ Settled(w)
  /\ Final(outcome[w])
  /\ Goto(w, "calling", "leaving")

StopRetrying(w) ==
  /\ aborted[w]
  /\ Goto(w, "ready", "leaving")
  /\ UNCHANGED <<vars, tries, session, window, crashes>>

Unlock(w) ==
  /\ Goto(w, "leaving", "done")
  /\ session' = [session EXCEPT ![w] = "free"]
  /\ UNCHANGED <<vars, tries, window, crashes>>

--------------------------------------------------------------------------------
\* The process dies and is started again.  PostgreSQL keeps the session, and
\* with it the lock, until it notices.
WorkerCrash(w) ==
  /\ crashes < MaxCrashes
  /\ crashes' = crashes + 1
  /\ phase[w] # "off"
  /\ phase' = [phase EXCEPT ![w] = "off"]
  /\ Die(w)
  /\ tries' = [tries EXCEPT ![w] = 0]
  /\ session' = [session EXCEPT ![w] = IF @ = "held" THEN "ghost" ELSE @]
  /\ window' = [window EXCEPT ![w] = NoWindow]

SessionEnds(w) ==
  /\ session[w] = "ghost"
  /\ session' = [session EXCEPT ![w] = "free"]
  /\ UNCHANGED <<vars, phase, tries, window, crashes>>

WorkerSignal(w) ==
  /\ phase[w] \notin {"off", "done"}
  /\ Abort(w)
  /\ UNCHANGED workerVars

WorkerLoop(w) ==
  \/ Boot(w) \/ Acquire(w) \/ RetryLock(w) \/ GiveUpLock(w)
  \/ Sweep(w) \/ ResolveWindow(w) \/ SetupError(w)
  \/ Call(w, CallAccepted(w)) \/ Call(w, CallRefused(w))
  \/ Recover(w) \/ LeaveLoop(w) \/ StopRetrying(w) \/ Unlock(w)

WorkerStep(w) ==
  \/ WorkerLoop(w)
  \/ InCall(w) /\ CallStep(w)
  \/ WorkerCrash(w) \/ SessionEnds(w) \/ WorkerSignal(w)

\* A command is a new process every time: its death is the end of its call.
CLIStep(i) ==
  /\ Enter(i) \/ CallStep(i) \/ Abort(i) \/ Crash(i)
  /\ UNCHANGED workerVars

WorkerNext ==
  \/ ChainStep /\ UNCHANGED workerVars
  \/ \E w \in Workers : WorkerStep(w)
  \/ \E i \in CLI : CLIStep(i)

WorkerSpec == WorkerInit /\ [][WorkerNext]_allVars

(***************************************************************************)
(* Fairness.  Timers fire, the event loop runs every ready callback, and   *)
(* PostgreSQL notices a dead session: weak fairness of the worker's own    *)
(* steps.  An RPC or database call that is repeated for ever succeeds      *)
(* now and then: strong fairness of the answers a call cannot do without.  *)
(* Only the first slot of a batch needs it, for the slots behind it move   *)
(* up.  Nothing is assumed of the chain, of crashes, signals or the CLI.   *)
(***************************************************************************)
Fairness ==
  \A w \in Workers :
    /\ WF_allVars(WorkerLoop(w))
    /\ WF_allVars(InCall(w) /\ CallStep(w))
    /\ WF_allVars(SessionEnds(w))
    /\ SF_allVars(Call(w, CallAccepted(w)))
    /\ SF_allVars(InCall(w) /\ FetchAnswers(w, 1))
    /\ SF_allVars(InCall(w) /\ FetchShrinks(w, 1))
    /\ SF_allVars(InCall(w) /\ ReadHeaders(w))
    /\ SF_allVars(InCall(w) /\ ReadAnchor(w))
    /\ SF_allVars(InCall(w) /\ Persist(w))

FairWorkerSpec == WorkerSpec /\ Fairness

--------------------------------------------------------------------------------
WorkerPhases ==
  {"off", "locking", "sweep", "resolve", "ready", "calling", "leaving", "done"}

\* The worker's variables have their types.
WorkerTypeOK ==
  /\ phase \in [Workers -> WorkerPhases]
  /\ tries \in [Workers -> 0 .. LockAttempts - 1]
  /\ session \in [Workers -> {"free", "held", "ghost"}]
  /\ window \in [Workers -> [from : Blocks, to : Blocks]]
  /\ crashes \in 0 .. MaxCrashes

\* The ingesters that are inside a call of ingestLogs.
Scanning == {i \in Ingesters : pc[i] # "idle"}

(***************************************************************************)
(* At most one process scans the scope at a time: what the advisory lock   *)
(* is there for.  It must hold across crashes whose session outlives the   *)
(* process, and across workers that give up waiting.                       *)
(***************************************************************************)
AtMostOneScanner == \A i, j \in Scanning : i = j

(***************************************************************************)
(* The sweep only takes rows away from the dead: a call whose row says     *)
(* "interrupted" ("Previous worker stopped before recording a terminal     *)
(* state") has stopped.                                                    *)
(***************************************************************************)
InterruptedMeansStopped == \A i \in Ingesters : runs[i] = "interrupted" => pc[i] = "idle"

(***************************************************************************)
(* Under the lock no block is committed twice: the ranges on record do not *)
(* overlap, although a worker may crash, or lose the answer of a commit,   *)
(* between the coverage row and its own memory of it.                      *)
(***************************************************************************)
NoBlockScannedTwice ==
  \A c, d \in coverage : c # d => BlocksOf(c) \cap BlocksOf(d) = {}

\* Under the lock the durable checkpoint never moves back.
CheckpointAdvances == [][checkpoint'.next >= checkpoint.next]_allVars

(***************************************************************************)
(* A worker that reports its window finished or already done is right: no  *)
(* block of the window is missing from the coverage rows, however often    *)
(* the window slid, chunks came short and calls were cut off on the way.   *)
(***************************************************************************)
FinishedMeansCovered ==
  \A w \in Workers :
    phase[w] \in {"calling", "leaving", "done"} /\ outcome[w] \in {"completed", "noop"} =>
      BlocksOf(window[w]) \subseteq BlocksIn(coverage)

(***************************************************************************)
(* A worker that was started returns, unless its process dies: it does not *)
(* wait for ever for a lock nobody gives back, and recoverable errors do   *)
(* not keep it from getting through its window.                            *)
(***************************************************************************)
WorkerReturns ==
  \A w \in Workers : phase[w] = "locking" ~> phase[w] \in {"done", "off"}
===============================================================================
