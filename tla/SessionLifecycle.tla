-------------------------- MODULE SessionLifecycle --------------------------
(***************************************************************************)
(* What a consumer of the runtime is promised about one session: a phase,  *)
(* and an append-only event log that changes together with it.  A turn     *)
(* runs, reports progress and ends with exactly one event that names its   *)
(* outcome; only input resumes a paused or completed session; a failed or  *)
(* canceled one is final; a session is forgotten only between turns.       *)
(***************************************************************************)
EXTENDS Naturals, Sequences

CONSTANTS Session, MaxLog, InputReserve

VARIABLES phase, log

vars == <<phase, log>>

Progress == {"context_reduced", "assistant_text_delta"}

(* The events that may end a turn, and the phase each one announces.       *)
Outcome ==
  [tool_requests |-> "waiting_for_tool", session_completed |-> "completed",
   session_failed |-> "failed", session_canceled |-> "canceled"]

(* The input that resumes a phase.                                         *)
Input == [waiting_for_tool |-> "tool_results_received", completed |-> "user_input_received"]

Init ==
  /\ phase = [s \in Session |-> "none"]
  /\ log = [s \in Session |-> <<>>]

Grow(s, added) == log' = [log EXCEPT ![s] = @ \o added]

Enter(s, p) == phase' = [phase EXCEPT ![s] = p]

Report(s) ==
  /\ phase[s] = "running"
  /\ \E e \in Progress : Grow(s, <<e>>)
  /\ UNCHANGED phase

(* Buffered text may leave in the step that ends the turn.                 *)
EndTurn(s) ==
  /\ phase[s] = "running"
  /\ \E e \in DOMAIN Outcome, text \in {<<>>, <<"assistant_text_delta">>} :
       Enter(s, Outcome[e]) /\ Grow(s, text \o <<e>>)

Resume(s) ==
  /\ phase[s] \in DOMAIN Input
  /\ Enter(s, "running")
  /\ Grow(s, <<Input[phase[s]], "provider_started">>)

(* The input is logged and refused: only when it takes the log to the      *)
(* reserve, after which the session accepts nothing more.                  *)
RefuseInput(s) ==
  /\ phase[s] \in DOMAIN Input
  /\ Len(log[s]) + 1 = MaxLog - InputReserve
  /\ Grow(s, <<Input[phase[s]]>>)
  /\ UNCHANGED phase

CancelPaused(s) ==
  /\ phase[s] = "waiting_for_tool"
  /\ Enter(s, "canceled")
  /\ Grow(s, <<"session_canceled">>)

Forget(S) ==
  /\ \A s \in S : phase[s] \notin {"none", "running", "forgotten"}
  /\ phase' = [s \in Session |-> IF s \in S THEN "forgotten" ELSE phase[s]]
  /\ UNCHANGED log

(* A creation may forget others in the step that opens its own.            *)
Open(s, S) ==
  /\ phase[s] = "none"
  /\ \A t \in S : phase[t] \notin {"none", "running", "forgotten"}
  /\ phase' = [t \in Session |-> IF t = s THEN "running"
                                 ELSE IF t \in S THEN "forgotten" ELSE phase[t]]
  /\ Grow(s, <<"session_created", "provider_started">>)

Next ==
  \/ \E s \in Session :
       \/ Report(s) \/ EndTurn(s) \/ Resume(s) \/ RefuseInput(s) \/ CancelPaused(s)
       \/ \E S \in SUBSET Session : Open(s, S)
  \/ \E S \in SUBSET Session : Forget(S)

Spec == Init /\ [][Next]_vars

=============================================================================
