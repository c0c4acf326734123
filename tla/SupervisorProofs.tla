-------------------------- MODULE SupervisorProofs --------------------------
(***************************************************************************)
(* What holds of Supervisor for every number of processes, of callers and  *)
(* of restarts.                                                            *)
(***************************************************************************)
EXTENDS Supervisor, TLAPS

(* Whoever is about to spawn has let go of the previous process, and a     *)
(* stopped supervisor has none.                                            *)
NothingOwned == start = "clearing" \/ stopped => child = None

StoppedServesNobody == stopped => runtime = None

(* A crash is counted once: its process is still the one owned.            *)
CrashedOnce == unexpectedExit => child = None \/ proc[child] = "exited"

(* Every crash but the last has been paid for by a restart; the last one   *)
(* is paid for when the next start begins.                                 *)
CrashesPaid ==
  ~stopped => crashes <= restarts + (IF unexpectedExit /\ start # "clearing" THEN 1 ELSE 0)

Supervised ==
  /\ TypeOK
  /\ NoOrphan
  /\ NothingOwned
  /\ StoppedServesNobody
  /\ CrashedOnce
  /\ CrashesPaid
  /\ CrashBudget

-----------------------------------------------------------------------------
(* Letting go of a process keeps its type and orphans nobody.              *)
LEMMA DisposeKeeps ==
  ASSUME TypeOK, NoOrphan, NEW a \in Actor, Dispose(a)
  PROVE  /\ proc' \in [Process -> {"unborn", "alive", "termed"} \cup Gone]
         /\ child' = None
         /\ target' \in [Actor -> Process \cup {None}]
         /\ NoOrphan'
BY DEF TypeOK, NoOrphan, Dispose, Gone

(* The initial state satisfies the invariant.                              *)
LEMMA InitSupervised == Init => Supervised
<1> SUFFICES ASSUME Init PROVE Supervised
  OBVIOUS
<1>1. TypeOK
  <2>1. proc \in [Process -> {"unborn", "alive", "termed"} \cup Gone]
    BY DEF Init, Gone
  <2>2. restarts \in 0 .. MaxRestarts /\ crashes \in Nat
    BY SupervisorAssumption DEF Init
  <2> QED BY <2>1, <2>2 DEF Init, TypeOK
<1>2. NoOrphan /\ NothingOwned /\ StoppedServesNobody /\ CrashedOnce
  BY DEF Init, NoOrphan, NothingOwned, StoppedServesNobody, CrashedOnce
<1>3. CrashesPaid /\ CrashBudget
  BY SupervisorAssumption DEF Init, CrashesPaid, CrashBudget
<1> QED BY <1>1, <1>2, <1>3 DEF Supervised

(* Every variable keeps its type in every step.                            *)
LEMMA TypeStep == TypeOK /\ NoOrphan /\ [Next]_vars => TypeOK'
<1> SUFFICES ASSUME TypeOK, NoOrphan, [Next]_vars PROVE TypeOK'
  OBVIOUS
<1>0. Starter \in Actor /\ \A c \in Caller : c \in Actor
  BY DEF Actor
<1>1. CASE EnsureStarted
  <2>1. CASE unexpectedExit /\ BudgetSpent
    BY <1>1, <2>1 DEF TypeOK, EnsureStarted, Settle, stopping
  <2>2. CASE ~(unexpectedExit /\ BudgetSpent)
    <3>1. Dispose(Starter) /\ start' = "clearing" /\ UNCHANGED stopping
      BY <1>1, <2>2 DEF EnsureStarted
    <3>2. restarts' \in 0 .. MaxRestarts
      BY SupervisorAssumption, <1>1, <2>2 DEF TypeOK, EnsureStarted, BudgetSpent
    <3> QED BY <1>0, <1>1, <3>1, <3>2, DisposeKeeps DEF TypeOK, EnsureStarted, stopping
  <2> QED BY <2>1, <2>2
<1>2. CASE Restart
  <2>1. restarts' \in 0 .. MaxRestarts /\ crashes' \in Nat
    BY SupervisorAssumption, <1>2 DEF Restart
  <2>2. CASE runtime = None /\ start = "none"
    <3>1. start' = "clearing" /\ Dispose(Starter)
      BY <1>2, <2>2 DEF Restart
    <3> QED BY <1>0, <1>2, <2>1, <3>1, DisposeKeeps DEF TypeOK, Restart, stopping
  <2>3. CASE ~(runtime = None /\ start = "none")
    BY <1>2, <2>1, <2>3 DEF TypeOK, Restart, stopping
  <2> QED BY <2>2, <2>3
<1>3. CASE ForgetStart
  BY <1>3 DEF TypeOK, ForgetStart, flags, stopping
<1>4. CASE Spawn
  <2> PICK p \in Process : 
        /\ candidate' = p
        /\ IF stopped
           THEN /\ start' = "failing"
                /\ child' = None
                /\ proc' = [proc EXCEPT ![p] = "termed"]
                /\ target' = [target EXCEPT ![Starter] = p]
           ELSE /\ start' = "asking"
                /\ child' = p
                /\ proc' = [proc EXCEPT ![p] = "alive"]
                /\ target' = [target EXCEPT ![Starter] = None]
    BY <1>4 DEF Spawn
  <2> QED BY <1>4 DEF TypeOK, Spawn, stopping, Gone
<1>5. CASE SpawnThrows
  BY <1>5 DEF TypeOK, SpawnThrows, Settle
<1>6. CASE Healthy
  BY <1>6 DEF TypeOK, Healthy, Settle, flags
<1>7. ASSUME GiveUp PROVE TypeOK'
  BY <1>0, <1>7, DisposeKeeps DEF TypeOK, GiveUp, flags, stopping
<1>8. CASE Unhealthy
  BY <1>8 DEF TypeOK, Unhealthy, flags, stopping
<1>9. CASE AskAgain
  BY <1>9 DEF TypeOK, AskAgain, flags, stopping
<1>10. CASE StartFails
  BY <1>10 DEF TypeOK, StartFails, Settle, flags
<1>11. ASSUME NEW a \in Actor, Escalate(a) PROVE TypeOK'
  BY <1>11 DEF TypeOK, Escalate, flags, starting, stopping, Gone
<1>12. ASSUME NEW c \in Caller, Stop(c) PROVE TypeOK'
  BY <1>0, <1>12, DisposeKeeps DEF TypeOK, Stop, starting
<1>13. ASSUME NEW c \in Caller, StopDisposed(c) PROVE TypeOK'
  BY <1>13 DEF TypeOK, StopDisposed, flags, starting
<1>14. ASSUME NEW c \in Caller, StopReturns(c) PROVE TypeOK'
  BY <1>14 DEF TypeOK, StopReturns, flags, starting
<1>15. ASSUME NEW p \in Process, Exit(p) PROVE TypeOK'
  <2>1. proc' \in [Process -> {"unborn", "alive", "termed"} \cup Gone]
    BY <1>15 DEF TypeOK, Exit, Gone
  <2>2. CASE Unexpected(p)
    BY <1>15, <2>1, <2>2 DEF TypeOK, Exit, starting, stopping
  <2>3. CASE ~Unexpected(p)
    BY <1>15, <2>1, <2>3 DEF TypeOK, Exit, starting, stopping
  <2> QED BY <2>2, <2>3
<1>16. CASE UNCHANGED vars
  BY <1>16 DEF TypeOK, vars, flags, starting, stopping
<1> QED
  BY <1>1, <1>2, <1>3, <1>4, <1>5, <1>6, <1>7, <1>8, <1>9, <1>10, <1>11, <1>12,
     <1>13, <1>14, <1>15, <1>16 DEF Next, HealthyButStopped, Incompatible, LoopEnds, Deadline

-----------------------------------------------------------------------------
(* Giving up a start lets go of its process.                               *)
LEMMA GiveUpStep ==
  ASSUME Supervised, GiveUp
  PROVE  (NoOrphan /\ NothingOwned /\ StoppedServesNobody /\ CrashedOnce /\ CrashesPaid /\ CrashBudget)'
<1>1. start' = "failing" /\ child' = None /\ UNCHANGED <<runtime, flags>>
  BY DEF GiveUp, Dispose
<1>2. NoOrphan'
  BY DisposeKeeps DEF Supervised, GiveUp, Actor
<1>3. (CrashesPaid /\ CrashBudget)'
  BY <1>1 DEF Supervised, TypeOK, CrashesPaid, CrashBudget, flags
<1>4. (NothingOwned /\ StoppedServesNobody /\ CrashedOnce)'
  BY <1>1 DEF Supervised, NothingOwned, StoppedServesNobody, CrashedOnce, flags
<1> QED BY <1>2, <1>3, <1>4

(* Starting takes one restart off the budget after a crash.                *)
LEMMA EnsureStartedStep ==
  ASSUME Supervised, EnsureStarted
  PROVE  (NoOrphan /\ NothingOwned /\ StoppedServesNobody /\ CrashedOnce /\ CrashesPaid /\ CrashBudget)'
<1>1. CASE unexpectedExit /\ BudgetSpent
  <2>1. start = "none" /\ start' = "settled"
        /\ UNCHANGED <<proc, child, runtime, stopped, unexpectedExit, restarts, crashes>>
    BY <1>1 DEF EnsureStarted, Settle
  <2> QED
    BY <2>1 DEF Supervised, NoOrphan, NothingOwned, StoppedServesNobody, CrashedOnce,
                CrashesPaid, CrashBudget
<1>2. CASE ~(unexpectedExit /\ BudgetSpent)
  <2>1. /\ Dispose(Starter)
        /\ start = "none" /\ start' = "clearing"
        /\ restarts' = IF unexpectedExit THEN restarts + 1 ELSE restarts
        /\ ~stopped
        /\ UNCHANGED <<runtime, stopped, unexpectedExit, crashes>>
    BY <1>2 DEF EnsureStarted
  <2>2. child' = None /\ NoOrphan'
    BY <2>1, DisposeKeeps DEF Supervised, Actor
  <2>3. (CrashesPaid /\ CrashBudget)'
    BY <2>1 DEF Supervised, TypeOK, CrashesPaid, CrashBudget
  <2>4. (NothingOwned /\ StoppedServesNobody /\ CrashedOnce)'
    BY <2>1, <2>2 DEF Supervised, NothingOwned, StoppedServesNobody, CrashedOnce
  <2> QED BY <2>2, <2>3, <2>4
<1> QED BY <1>1, <1>2

(* An explicit restart begins with nothing owned and a new budget.         *)
LEMMA RestartStep ==
  ASSUME Supervised, Restart
  PROVE  (NoOrphan /\ NothingOwned /\ StoppedServesNobody /\ CrashedOnce /\ CrashesPaid /\ CrashBudget)'
<1>1. child = None /\ child' = None
  BY DEF Supervised, NothingOwned, Restart, Dispose
<1>2. NoOrphan'
  BY DisposeKeeps DEF Supervised, Restart, Actor, NoOrphan
<1>3. (CrashesPaid /\ CrashBudget)'
  BY SupervisorAssumption DEF Restart, CrashesPaid, CrashBudget
<1> QED
  BY <1>1, <1>2, <1>3 DEF Restart, NothingOwned, StoppedServesNobody, CrashedOnce

(* A process is spawned only when none is owned.                           *)
LEMMA SpawnStep ==
  ASSUME Supervised, Spawn
  PROVE  (NoOrphan /\ NothingOwned /\ StoppedServesNobody /\ CrashedOnce /\ CrashesPaid /\ CrashBudget)'
<1>1. PICK p \in Process :
        /\ child' = IF stopped THEN None ELSE p
        /\ start' = IF stopped THEN "failing" ELSE "asking"
        /\ proc' = [proc EXCEPT ![p] = IF stopped THEN "termed" ELSE "alive"]
  BY DEF Spawn
<1>2. child = None /\ start = "clearing" /\ unexpectedExit' = FALSE
      /\ UNCHANGED <<runtime, stopped, restarts, crashes>>
  BY DEF Supervised, NothingOwned, Spawn
<1>3. NoOrphan'
  BY SupervisorAssumption, <1>1, <1>2 DEF Supervised, TypeOK, NoOrphan
<1>4. (CrashesPaid /\ CrashBudget)'
  BY <1>1, <1>2 DEF Supervised, TypeOK, CrashesPaid, CrashBudget
<1> QED
  BY <1>1, <1>2, <1>3, <1>4 DEF Supervised, NothingOwned, StoppedServesNobody, CrashedOnce

(* Stopping lets go of everything.                                         *)
LEMMA StopStep ==
  ASSUME Supervised, NEW c \in Caller, Stop(c)
  PROVE  (NoOrphan /\ NothingOwned /\ StoppedServesNobody /\ CrashedOnce /\ CrashesPaid /\ CrashBudget)'
<1>1. child' = None /\ NoOrphan'
  BY DisposeKeeps DEF Supervised, Stop, Actor
<1> QED
  BY <1>1 DEF Supervised, Stop, NothingOwned, StoppedServesNobody, CrashedOnce, CrashesPaid, CrashBudget

(* Only the exit of the process owned is a crash, and it is the first one  *)
(* since the last start.                                                   *)
LEMMA ExitStep ==
  ASSUME Supervised, NEW p \in Process, Exit(p)
  PROVE  (NoOrphan /\ NothingOwned /\ StoppedServesNobody /\ CrashedOnce /\ CrashesPaid /\ CrashBudget)'
<1>1. /\ proc[p] # "exited"
      /\ proc' = [proc EXCEPT ![p] = "exited"]
      /\ UNCHANGED <<child, stopped, restarts, start>>
  BY DEF Exit, starting
<1>2. NoOrphan'
  BY <1>1 DEF Supervised, TypeOK, NoOrphan
<1>3. CASE Unexpected(p)
  <2>1. runtime' = None /\ unexpectedExit' = TRUE /\ crashes' = crashes + 1
    BY <1>3 DEF Exit
  <2>2. child = p /\ ~stopped /\ start # "clearing" /\ ~unexpectedExit
    BY SupervisorAssumption, <1>1, <1>3 DEF Unexpected, Supervised, NothingOwned, CrashedOnce
  <2>3. (CrashesPaid /\ CrashBudget)'
    BY SupervisorAssumption, <1>1, <2>1, <2>2 DEF Supervised, TypeOK, CrashesPaid, CrashBudget
  <2> QED
    BY <1>1, <1>2, <2>1, <2>2, <2>3 DEF Supervised, TypeOK, NothingOwned, StoppedServesNobody, CrashedOnce
<1>4. CASE ~Unexpected(p)
  <2>1. UNCHANGED <<runtime, unexpectedExit, crashes>>
    BY <1>4 DEF Exit
  <2> QED
    BY <1>1, <1>2, <2>1 DEF Supervised, TypeOK, NothingOwned, StoppedServesNobody, CrashedOnce,
                            CrashesPaid, CrashBudget
<1> QED BY <1>3, <1>4

(* The other steps neither own, lose nor count a process.                  *)
LEMMA QuietStep ==
  ASSUME Supervised,
         \A p \in Process : proc'[p] = proc[p] \/ proc'[p] = "killed",
         CrashedOnce',
         UNCHANGED <<child, stopped, restarts, crashes>>,
         runtime' = runtime \/ ~stopped,
         unexpectedExit' = unexpectedExit \/ start = "clearing",
         start = "clearing" => unexpectedExit' = FALSE \/ start' = "clearing",
         start # "clearing" => start' # "clearing"
  PROVE  (NoOrphan /\ NothingOwned /\ StoppedServesNobody /\ CrashedOnce /\ CrashesPaid /\ CrashBudget)'
<1>1. NoOrphan'
  BY DEF Supervised, NoOrphan
<1>2. (NothingOwned /\ StoppedServesNobody)'
  BY DEF Supervised, NothingOwned, StoppedServesNobody
<1>3. (CrashesPaid /\ CrashBudget)'
  BY DEF Supervised, TypeOK, CrashesPaid, CrashBudget
<1> QED BY <1>1, <1>2, <1>3

(* The invariant is inductive.                                             *)
LEMMA SupervisedStep == Supervised /\ [Next]_vars => Supervised'
<1> SUFFICES ASSUME Supervised, [Next]_vars PROVE Supervised'
  OBVIOUS
<1>0. TypeOK'
  BY TypeStep DEF Supervised
<1> DEFINE Rest == NoOrphan /\ NothingOwned /\ StoppedServesNobody /\ CrashedOnce /\ CrashesPaid /\ CrashBudget
<1> SUFFICES Rest'
  BY <1>0 DEF Supervised
<1>1. CASE EnsureStarted
  BY <1>1, EnsureStartedStep
<1>2. CASE Restart
  BY <1>2, RestartStep
<1>3. CASE Spawn
  BY <1>3, SpawnStep
<1>4. ASSUME NEW c \in Caller, Stop(c) PROVE Rest'
  BY <1>4, StopStep
<1>5. ASSUME NEW p \in Process, Exit(p) PROVE Rest'
  BY <1>5, ExitStep
<1>6. CASE GiveUp
  BY <1>6, GiveUpStep
<1>7. CASE SpawnThrows
  BY <1>7, QuietStep DEF SpawnThrows, Settle, CrashedOnce
<1>8. CASE Healthy
  BY <1>8, QuietStep DEF Healthy, Settle, flags, Supervised, CrashedOnce
<1>9. CASE ForgetStart \/ Unhealthy \/ AskAgain \/ StartFails
  <2>1. /\ start # "clearing" /\ start' # "clearing"
        /\ UNCHANGED <<proc, child, runtime, stopped, unexpectedExit, restarts, crashes>>
    BY <1>9 DEF ForgetStart, Unhealthy, AskAgain, StartFails, Settle, flags
  <2> QED BY <2>1, QuietStep DEF Supervised, CrashedOnce
<1>10. ASSUME NEW a \in Actor, Escalate(a) PROVE Rest'
  <2>1. /\ proc[target[a]] = "termed"
        /\ proc' = [proc EXCEPT ![target[a]] = "killed"]
        /\ UNCHANGED <<child, runtime, stopped, unexpectedExit, restarts, crashes, start>>
    BY <1>10 DEF Escalate, flags, starting
  <2>2. CrashedOnce'
    BY <2>1 DEF Supervised, TypeOK, CrashedOnce
  <2>3. \A p \in Process : proc'[p] = proc[p] \/ proc'[p] = "killed"
    BY <2>1 DEF Supervised, TypeOK
  <2> QED BY <2>1, <2>2, <2>3, QuietStep
<1>11. ASSUME NEW c \in Caller, StopDisposed(c) \/ StopReturns(c) PROVE Rest'
  <2>1. UNCHANGED <<proc, child, runtime, stopped, unexpectedExit, restarts, crashes, start>>
    BY <1>11 DEF StopDisposed, StopReturns, flags, starting
  <2> QED BY <2>1, QuietStep DEF Supervised, CrashedOnce
<1>12. CASE UNCHANGED vars
  BY <1>12, QuietStep DEF vars, flags, starting, Supervised, CrashedOnce
<1> QED
  BY <1>1, <1>2, <1>3, <1>4, <1>5, <1>6, <1>7, <1>8, <1>9, <1>10, <1>11, <1>12
  DEF Next, HealthyButStopped, Incompatible, LoopEnds, Deadline

(* The inductive invariant holds in every reachable state: whoever is      *)
(* about to spawn owns nothing, and every crash but the last is paid for.  *)
THEOREM SupervisedInvariant == Spec => []Supervised
<1> QED BY InitSupervised, SupervisedStep, PTL DEF Spec

(* The variables of the supervisor keep their types for any number of      *)
(* processes, stop calls and restarts.                                     *)
THEOREM SupervisorTypeCorrect == Spec => []TypeOK
<1>1. Supervised => TypeOK
  BY DEF Supervised
<1> QED BY <1>1, SupervisedInvariant, PTL

(* No interleaving of starts, stops, crashes and answers leaves a process  *)
(* running that the supervisor does not own.                               *)
THEOREM NoOrphanThm == Spec => []NoOrphan
<1>1. Supervised => NoOrphan
  BY DEF Supervised
<1> QED BY <1>1, SupervisedInvariant, PTL

(* A stopped supervisor hands out no client and runs no process.           *)
THEOREM StoppedIsDownThm == Spec => []StoppedIsDown
<1>1. Supervised => StoppedIsDown
  BY SupervisorAssumption DEF Supervised, NoOrphan, NothingOwned, StoppedServesNobody, StoppedIsDown
<1> QED BY <1>1, SupervisedInvariant, PTL

(* The supervisor survives at most one crash more than its restarts.       *)
THEOREM CrashBudgetThm == Spec => []CrashBudget
<1>1. Supervised => CrashBudget
  BY DEF Supervised
<1> QED BY <1>1, SupervisedInvariant, PTL

=============================================================================
