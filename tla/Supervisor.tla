----------------------------- MODULE Supervisor -----------------------------
(***************************************************************************)
(* RuntimeSupervisor in spawn mode: it owns one runtime process at a time, *)
(* starts it for whoever needs it first, restarts it a bounded number of   *)
(* times after a crash, and stops it.  One action is what one coroutine    *)
(* does between two awaits.                                                *)
(*                                                                         *)
(* A process stands for its ChildProcess, its token and the client that    *)
(* carries the token.  Process bounds the spawns, Caller the stop calls    *)
(* that overlap.                                                           *)
(***************************************************************************)
EXTENDS Naturals

CONSTANTS Process, Caller, Starter, None, MaxRestarts

ASSUME SupervisorAssumption ==
  /\ MaxRestarts \in Nat
  /\ None \notin Process
  /\ Starter \notin Caller

VARIABLES
  proc,            \* what became of each process
  child, runtime,  \* the process owned, and the one the handed-out client is for
  stopped, unexpectedExit, restarts,
  start,           \* where startOnce is
  candidate,       \* the process it spawned
  stop,            \* where each stop call is
  joined,          \* the stop calls whose pendingStart has not settled
  target,          \* the process whose exit a disposal awaits
  crashes          \* history: crashes noticed since the last explicit restart

flags == <<stopped, unexpectedExit, restarts, crashes>>
starting == <<start, candidate>>
stopping == <<stop, joined>>
vars == <<proc, child, runtime, flags, starting, stopping, target>>

Actor == Caller \cup {Starter}

Gone == {"killed", "exited"}

TypeOK ==
  /\ proc \in [Process -> {"unborn", "alive", "termed"} \cup Gone]
  /\ child \in Process \cup {None}
  /\ runtime \in Process \cup {None}
  /\ candidate \in Process \cup {None}
  /\ stopped \in BOOLEAN
  /\ unexpectedExit \in BOOLEAN
  /\ restarts \in 0 .. MaxRestarts
  /\ crashes \in Nat
  /\ start \in {"none", "clearing", "asking", "waiting", "failing", "settled"}
  /\ stop \in [Caller -> {"idle", "disposing", "joining"}]
  /\ joined \in SUBSET Caller
  /\ target \in [Actor -> Process \cup {None}]

Init ==
  /\ proc = [p \in Process |-> "unborn"]
  /\ child = None
  /\ runtime = None
  /\ candidate = None
  /\ stopped = FALSE
  /\ unexpectedExit = FALSE
  /\ restarts = 0
  /\ crashes = 0
  /\ start = "none"
  /\ stop = [c \in Caller |-> "idle"]
  /\ joined = {}
  /\ target = [a \in Actor |-> None]

-----------------------------------------------------------------------------
(* disposeCurrentChild: the supervisor lets go of its process at once,     *)
(* asks it to end, and the caller awaits its exit.                         *)

(* A bug: a stop that meets a start leaves the process to it.              *)
DisposeLeftToStart(a) ==
  LET alive == child # None /\ proc[child] = "alive" /\ (a = Starter \/ start = "none") IN
    /\ child' = None
    /\ target' = [target EXCEPT ![a] = IF alive THEN child ELSE None]
    /\ proc' = IF alive THEN [proc EXCEPT ![child] = "termed"] ELSE proc

Dispose(a) ==
  LET alive == child # None /\ proc[child] = "alive" IN
    /\ child' = None
    /\ target' = [target EXCEPT ![a] = IF alive THEN child ELSE None]
    /\ proc' = IF alive THEN [proc EXCEPT ![child] = "termed"] ELSE proc

Disposing(a) ==
  IF a = Starter THEN start \in {"clearing", "failing"} ELSE stop[a] = "disposing"

(* A bug: the disposal awaits the exit of a killed process without bound.  *)
DisposedOnExit(a) == Disposing(a) /\ (target[a] # None => proc[target[a]] = "exited")

(* The await is over: the process exited, or was killed and given up on.   *)
Disposed(a) == Disposing(a) /\ (target[a] # None => proc[target[a]] \in Gone)

(* A bug: only stop escalates.                                             *)
EscalateOnStop(a) ==
  /\ Disposing(a)
  /\ a \in Caller
  /\ target[a] # None
  /\ proc[target[a]] = "termed"
  /\ proc' = [proc EXCEPT ![target[a]] = "killed"]
  /\ UNCHANGED <<child, runtime, flags, starting, stopping, target>>

(* Five seconds after SIGTERM the process still runs.                      *)
Escalate(a) ==
  /\ Disposing(a)
  /\ target[a] # None
  /\ proc[target[a]] = "termed"
  /\ proc' = [proc EXCEPT ![target[a]] = "killed"]
  /\ UNCHANGED <<child, runtime, flags, starting, stopping, target>>

-----------------------------------------------------------------------------
(* Starting.                                                               *)

Usable == runtime # None /\ ~unexpectedExit

(* A bug: one restart too many.                                            *)
BudgetOverspent == restarts > MaxRestarts

BudgetSpent == restarts >= MaxRestarts

(* The promise of startOnce settles: everyone who awaits it goes on.       *)
Settle ==
  /\ start' = "settled"
  /\ joined' = {}
  /\ UNCHANGED stop

(* client() and start(), on a supervisor that is not stopped, up to the    *)
(* first await of startOnce.  A call that finds the client usable returns  *)
(* it, and one that finds a start in flight joins it: neither is a step.   *)
EnsureStarted ==
  /\ ~stopped
  /\ ~Usable
  /\ start = "none"
  /\ IF unexpectedExit /\ BudgetSpent
     THEN /\ Settle
          /\ UNCHANGED <<proc, child, target, restarts>>
     ELSE /\ restarts' = IF unexpectedExit THEN restarts + 1 ELSE restarts
          /\ start' = "clearing"
          /\ Dispose(Starter)
          /\ UNCHANGED stopping
  /\ UNCHANGED <<runtime, candidate, stopped, unexpectedExit, crashes>>

(* start() on a stopped one: a new budget, then startOnce or a join.       *)
Restart ==
  /\ stopped
  /\ stopped' = FALSE
  /\ restarts' = 0
  /\ crashes' = 0
  /\ unexpectedExit' = FALSE
  /\ IF runtime = None /\ start = "none"
     THEN start' = "clearing" /\ Dispose(Starter)
     ELSE UNCHANGED <<start, proc, child, target>>
  /\ UNCHANGED <<runtime, candidate, stopping>>

(* The owner of startPromise forgets it.                                   *)
ForgetStart ==
  /\ start = "settled"
  /\ start' = "none"
  /\ candidate' = None
  /\ UNCHANGED <<proc, child, runtime, flags, stopping, target>>

(* The old process is gone: spawn the next.  A stop that came meanwhile is *)
(* seen by the first turn of the loop, before the next await.              *)
Spawn ==
  /\ start = "clearing"
  /\ Disposed(Starter)
  /\ \E p \in Process :
       /\ proc[p] = "unborn"
       /\ candidate' = p
       /\ IF stopped
          THEN /\ start' = "failing"
               /\ child' = None
               /\ proc' = [proc EXCEPT ![p] = "termed"]
               /\ target' = [target EXCEPT ![Starter] = p]
          ELSE /\ start' = "asking"
               /\ child' = p
               /\ proc' = [proc EXCEPT ![p] = "alive"]
               /\ target' = [target EXCEPT ![Starter] = None]
  /\ unexpectedExit' = FALSE
  /\ UNCHANGED <<runtime, stopped, restarts, crashes, stopping>>

SpawnThrows ==
  /\ start = "clearing"
  /\ Disposed(Starter)
  /\ unexpectedExit' = FALSE
  /\ Settle
  /\ UNCHANGED <<proc, child, runtime, stopped, restarts, crashes, candidate, target>>

GiveUp ==
  /\ start' = "failing"
  /\ Dispose(Starter)
  /\ UNCHANGED <<runtime, flags, candidate, stopping>>

(* A bug: stopped is not looked at again after the await.                  *)
HealthyUnchecked ==
  /\ start = "asking"
  /\ runtime' = candidate
  /\ Settle
  /\ UNCHANGED <<proc, child, flags, candidate, target>>

(* The answer may come from a process that has ended since it was sent.    *)
Healthy ==
  /\ start = "asking"
  /\ ~stopped
  /\ runtime' = candidate
  /\ Settle
  /\ UNCHANGED <<proc, child, flags, candidate, target>>

HealthyButStopped == start = "asking" /\ stopped /\ GiveUp

Incompatible == start = "asking" /\ GiveUp

(* No answer: the request is refused or takes a second.                    *)
Unhealthy ==
  /\ start = "asking"
  /\ start' = "waiting"
  /\ UNCHANGED <<proc, child, runtime, flags, candidate, stopping, target>>

(* The loop goes round after its delay.                                    *)
Hopeless == stopped \/ child # candidate \/ proc[candidate] # "alive" \/ unexpectedExit

AskAgain ==
  /\ start = "waiting"
  /\ ~Hopeless
  /\ start' = "asking"
  /\ UNCHANGED <<proc, child, runtime, flags, candidate, stopping, target>>

LoopEnds == start = "waiting" /\ Hopeless /\ GiveUp

Deadline == start = "waiting" /\ GiveUp

StartFails ==
  /\ start = "failing"
  /\ Disposed(Starter)
  /\ Settle
  /\ UNCHANGED <<proc, child, runtime, flags, candidate, target>>

-----------------------------------------------------------------------------
(* Stopping, and the process itself.                                       *)

Stop(c) ==
  /\ stop[c] = "idle"
  /\ stop' = [stop EXCEPT ![c] = "disposing"]
  /\ joined' = IF start \in {"none", "settled"} THEN joined ELSE joined \cup {c}
  /\ stopped' = TRUE
  /\ runtime' = None
  /\ unexpectedExit' = FALSE
  /\ Dispose(c)
  /\ UNCHANGED <<restarts, crashes, starting>>

StopDisposed(c) ==
  /\ Disposed(c)
  /\ stop' = [stop EXCEPT ![c] = "joining"]
  /\ UNCHANGED <<proc, child, runtime, flags, starting, joined, target>>

StopReturns(c) ==
  /\ stop[c] = "joining"
  /\ c \notin joined
  /\ stop' = [stop EXCEPT ![c] = "idle"]
  /\ UNCHANGED <<proc, child, runtime, flags, starting, joined, target>>

(* markUnexpected runs for the process the supervisor owns, unless it is   *)
(* stopped; an exit that it asked for is not a crash.                      *)
Unexpected(p) == child = p /\ ~stopped

Exit(p) ==
  /\ proc[p] \in {"alive", "termed", "killed"}
  /\ proc' = [proc EXCEPT ![p] = "exited"]
  /\ IF Unexpected(p)
     THEN runtime' = None /\ unexpectedExit' = TRUE /\ crashes' = crashes + 1
     ELSE UNCHANGED <<runtime, unexpectedExit, crashes>>
  /\ UNCHANGED <<child, stopped, restarts, starting, stopping, target>>

-----------------------------------------------------------------------------
Next ==
  \/ EnsureStarted \/ Restart \/ ForgetStart
  \/ Spawn \/ SpawnThrows
  \/ Healthy \/ HealthyButStopped \/ Incompatible \/ Unhealthy
  \/ AskAgain \/ LoopEnds \/ Deadline \/ StartFails
  \/ \E a \in Actor : Escalate(a)
  \/ \E c \in Caller : Stop(c) \/ StopDisposed(c) \/ StopReturns(c)
  \/ \E p \in Process : Exit(p)

Spec == Init /\ [][Next]_vars

(* Timers fire, settled promises are delivered, a health request ends      *)
(* within a second, and the deadline, tested on every turn of the loop,    *)
(* passes.  Nothing obliges a process to exit or a caller to call.         *)
Fairness ==
  /\ \A a \in Actor : WF_vars(Escalate(a))
  /\ \A c \in Caller : WF_vars(StopDisposed(c)) /\ WF_vars(StopReturns(c))
  /\ WF_vars(Spawn \/ SpawnThrows)
  /\ WF_vars(Healthy \/ HealthyButStopped \/ Incompatible \/ Unhealthy)
  /\ WF_vars(StartFails)
  /\ WF_vars(ForgetStart)
  /\ SF_vars(Deadline)

LiveSpec == Spec /\ Fairness

-----------------------------------------------------------------------------
(* A process the supervisor no longer owns has been told to end: no order  *)
(* of starts, stops, crashes and answers leaves one behind.                *)
NoOrphan == \A p \in Process : proc[p] = "alive" => p = child

(* A stop is sticky: until an explicit start there is no client to hand    *)
(* out and no process that has not been told to end, whatever start was in *)
(* flight when it was called.                                              *)
StoppedIsDown == stopped => runtime = None /\ \A p \in Process : proc[p] # "alive"

(* The restart budget counts crashes, however they fall between starts,    *)
(* stops and answers: one more crash than restarts and the supervisor      *)
(* refuses until an explicit restart.                                      *)
CrashBudget == crashes <= MaxRestarts + 1

(* The client that is handed out is the client of the process owned.       *)
ServesOwnedChild == Usable => runtime = child

(* A process told to end ends or is killed, whoever disposes of it.        *)
TerminationEscalates == \A p \in Process : proc[p] = "termed" ~> proc[p] \in Gone

(* Every stop call returns, although the process may ignore SIGTERM and    *)
(* other callers start and stop meanwhile.                                 *)
StopEnds == \A c \in Caller : stop[c] # "idle" ~> stop[c] = "idle"

=============================================================================
