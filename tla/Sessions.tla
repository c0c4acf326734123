------------------------------ MODULE Sessions ------------------------------
(***************************************************************************)
(* RuntimeService's session lifecycle (service.py): the registry, one      *)
(* record per session, the asyncio task that advances a turn, and the      *)
(* calls that race with it.                                                *)
(*                                                                         *)
(* asyncio runs one coroutine at a time, so a step is what a coroutine     *)
(* does between two awaits.  create, submit_tool_results and               *)
(* continue_session have no await on the path modelled here and are one    *)
(* step; cancel awaits the task; _advance awaits the context probe and     *)
(* the provider.  The 1800-second age of a record is the flag stale, and   *)
(* the profile timeout is a step the timer may take at any await.          *)
(***************************************************************************)
EXTENDS EventLog, Sequences, FiniteSets

CONSTANTS Session,      \* identities create_session may issue, each used once
          Client,       \* callers that may have a cancel call outstanding
          Lifespan,     \* the gateway's shutdown, which cancels like a client
          ToolId,       \* tool-request identifiers a provider may use
          Probing,      \* sessions whose adapter has a context probe: LM Studio
          Streaming,    \* sessions whose provider call streams its text
          Piped,        \* sessions whose provider is a process behind a pipe
          Fragments,    \* sizes of the text fragments a provider pushes
          TextSizes,    \* sizes of a result that was not streamed
          MaxOutput,    \* limits.max_output_chars
          RequestChars, \* JSON size of one tool request
          MaxRounds,    \* limits.max_tool_rounds
          MaxRunning,   \* 8 concurrent provider calls
          MaxSessions   \* 128 registered sessions

ASSUME SessionsAssumption ==
  /\ IsFiniteSet(Session) /\ IsFiniteSet(ToolId) /\ Lifespan \notin Client
  /\ Probing \subseteq Session /\ Streaming \subseteq Probing
  /\ Piped \subseteq Session \ Probing
  /\ Fragments \subseteq Nat \ {0} /\ TextSizes \subseteq Nat
  /\ MaxOutput \in Nat /\ RequestChars \in Nat /\ MaxRounds \in Nat
  /\ MaxRunning \in Nat \ {0} /\ MaxSessions \in Nat \ {0}
  /\ CallFits(1)

VARIABLES
  sessions,    \* RuntimeService.sessions: the identities still registered
  status,      \* record.status, "none" before the identity is issued
  events,      \* record.events, by type
  messages,    \* record.messages: role and tool-request identifiers
  pending,     \* record.pending_tools
  rounds,      \* record.tool_rounds
  chars,       \* record.output_chars
  final,       \* record.final_text is set
  validation,  \* record.validation
  stale,       \* more than 1800 seconds since record.updated_at
  pc,          \* where record.task is
  kill,        \* why the task is being cancelled, if it is
  fired,       \* sessions whose profile timer has fired in this turn
  held,        \* sessions whose clean-up waits for a pipe to close
  emitter,     \* the _TextDeltaEmitter of the current call
  canceling,   \* callers awaiting a task inside cancel()
  closing,     \* phase of RuntimeService.shutdown
  left         \* sessions shutdown has yet to cancel

turn == <<messages, pending, rounds, chars, final, validation>>
task == <<pc, kill, fired, held, emitter>>
down == <<closing, left>>
vars == <<sessions, status, events, stale, turn, task, canceling, down>>

Callers == Client \cup {Lifespan}
Terminal == {"completed", "failed", "canceled"}
Statuses == Terminal \cup {"none", "running", "waiting_for_tool"}
LivePC == {"new", "probe", "call"}

UserMessage == [role |-> "user", ids |-> {}]
Answer(ids) == [role |-> "assistant", ids |-> ids]

\* Mutant: one result stands for the whole batch.
ToolMessagesPartial(ids) ==
  [role |-> "tool", ids |-> IF ids = {} THEN {} ELSE {CHOOSE i \in ids : TRUE}]

ToolMessages(ids) == [role |-> "tool", ids |-> ids]
Messages == [role : {"user", "assistant", "tool"}, ids : SUBSET ToolId]

Last(seq) == seq[Len(seq)]

-----------------------------------------------------------------------------
Live(s) == pc[s] \in LivePC

(* A caller waits in cancel for the task of this session.                  *)
Canceling(s) == \E c \in Callers : <<c, s>> \in canceling

(* Its task has ended, so asyncio has already queued that caller's step:   *)
(* ahead of any request that arrives later, and of 1800 seconds.           *)
Awaited(s) == Canceling(s) /\ ~Live(s)

Running(S) == {s \in S : status[s] = "running"}

\* Mutant: age alone expires a record.
ExpiredByAge(s) == stale[s]

(* What create_session purges, and _record refuses and deletes.            *)
Expired(s) == stale[s] /\ status[s] # "running"

(* A call finds the record: registered, not expired, service not closing.  *)
Found(s) == closing = "serving" /\ s \in sessions /\ ~Expired(s)

(* The statuses cancel leaves alone.                                       *)
\* Mutant: a failed or canceled session may be settled again.
SettledWhenCompleted(s) == status[s] = "completed"

\* Mutant: a session without a live task counts as settled.
SettledWhenIdle(s) == ~Live(s)

Settled(s) == status[s] \in Terminal

\* Mutant: one provider call too many.
SchedulableOverLimit(s, len) ==
  /\ ~Live(s)
  /\ CallFits(len)
  /\ status[s] = "running" \/ Cardinality(Running(sessions)) <= MaxRunning

(* _ensure_schedulable with len events in the log.                         *)
Schedulable(s, len) ==
  /\ ~Live(s)
  /\ CallFits(len)
  /\ status[s] = "running" \/ Cardinality(Running(sessions)) < MaxRunning

(* The events _schedule leaves behind, and the task it creates.            *)
StartTask(s) ==
  /\ status' = [status EXCEPT ![s] = "running"]
  /\ pc' = [pc EXCEPT ![s] = "new"]
  /\ kill' = [kill EXCEPT ![s] = "none"]

Log(s, added) == events' = [events EXCEPT ![s] = @ \o added]

(* Every add_event refreshes updated_at, whether or not it has room.       *)
Refresh(s) == stale' = [stale EXCEPT ![s] = FALSE]

-----------------------------------------------------------------------------
Init ==
  /\ sessions = {}
  /\ status = [s \in Session |-> "none"]
  /\ events = [s \in Session |-> <<>>]
  /\ messages = [s \in Session |-> <<>>]
  /\ pending = [s \in Session |-> {}]
  /\ rounds = [s \in Session |-> 0]
  /\ chars = [s \in Session |-> 0]
  /\ final = [s \in Session |-> FALSE]
  /\ validation = [s \in Session |-> "pending"]
  /\ stale = [s \in Session |-> FALSE]
  /\ pc = [s \in Session |-> "none"]
  /\ kill = [s \in Session |-> "none"]
  /\ fired = {} /\ held = {}
  /\ emitter = [s \in Session |-> NoEmitter]
  /\ canceling = {}
  /\ closing = "serving"
  /\ left = {}

Kept == {s \in sessions : ~Expired(s)}

(* create_session: purge, check capacity, register, schedule.              *)
CreateSession(s) ==
  /\ closing = "serving"
  /\ status[s] = "none"
  /\ Cardinality(Kept) < MaxSessions
  /\ Cardinality(Running(Kept)) < MaxRunning
  /\ sessions' = Kept \cup {s}
  /\ StartTask(s)
  /\ events' = [events EXCEPT ![s] = <<"session_created", "provider_started">>]
  /\ messages' = [messages EXCEPT ![s] = <<UserMessage>>]
  /\ UNCHANGED <<pending, rounds, chars, final, validation, stale, fired, held, emitter, canceling, down>>

(* A creation refused for capacity, processing policy, tools or schema has *)
(* purged all the same.                                                    *)
CreateRefused ==
  /\ closing = "serving"
  /\ sessions' = Kept
  /\ UNCHANGED <<status, events, stale, turn, task, canceling, down>>

(* Any call on an expired record deletes it and answers not_found.         *)
RecordExpired(s) ==
  /\ closing = "serving"
  /\ s \in sessions /\ Expired(s)
  /\ sessions' = sessions \ {s}
  /\ UNCHANGED <<status, events, stale, turn, task, canceling, down>>

Age(s) ==
  /\ s \in sessions /\ ~stale[s] /\ ~Awaited(s)
  /\ stale' = [stale EXCEPT ![s] = TRUE]
  /\ UNCHANGED <<sessions, status, events, turn, task, canceling, down>>

(* The second check of _schedule sees one event more than the caller's:    *)
(* either both pass and the turn starts, or the call raises half done.     *)
Resume(s, input) ==
  /\ ~Awaited(s)
  /\ Schedulable(s, Len(events[s]))
  /\ Refresh(s)
  /\ IF Schedulable(s, Len(events[s]) + 1)
     THEN StartTask(s) /\ Log(s, <<input, "provider_started">>)
     ELSE Log(s, <<input>>) /\ UNCHANGED <<status, pc, kill>>

SubmitToolResults(s) ==
  /\ Found(s) /\ status[s] = "waiting_for_tool"
  /\ Resume(s, "tool_results_received")
  /\ messages' = [messages EXCEPT ![s] = Append(@, ToolMessages(pending[s]))]
  /\ pending' = [pending EXCEPT ![s] = {}]
  /\ rounds' = [rounds EXCEPT ![s] = @ + 1]
  /\ UNCHANGED <<sessions, chars, final, validation, fired, held, emitter, canceling, down>>

ContinueSession(s) ==
  /\ Found(s) /\ status[s] = "completed"
  /\ Resume(s, "user_input_received")
  /\ messages' = [messages EXCEPT ![s] = Append(@, UserMessage)]
  /\ final' = [final EXCEPT ![s] = FALSE]
  /\ validation' = [validation EXCEPT ![s] = "pending"]
  /\ UNCHANGED <<sessions, pending, rounds, chars, fired, held, emitter, canceling, down>>

-----------------------------------------------------------------------------
(* The task: _advance, one action per step between two awaits.             *)

TaskStart(s) ==
  /\ pc[s] = "new" /\ kill[s] = "none"
  /\ pc' = [pc EXCEPT ![s] = "probe"]
  /\ UNCHANGED <<sessions, status, events, stale, turn, kill, fired, held, emitter,
                 canceling, down>>

(* The task leaves _advance, and with it the scope of its timer.           *)
EndTask(s) ==
  /\ pc' = [pc EXCEPT ![s] = "done"]
  /\ emitter' = [emitter EXCEPT ![s] = NoEmitter]
  /\ fired' = fired \ {s}
  /\ UNCHANGED <<kill, held>>

(* A handler of _advance settles the record; an event without room would   *)
(* be lost with the exception it raises.                                   *)
Settle(s, outcome, verdict, log, type) ==
  /\ status' = [status EXCEPT ![s] = outcome]
  /\ validation' = [validation EXCEPT ![s] = verdict]
  /\ events' = [events EXCEPT ![s] =
                  IF HasRoom(Len(log), type) THEN Append(log, type) ELSE log]
  /\ Refresh(s)

Fail(s, log) == Settle(s, "failed", "failed", log, "session_failed")

(* The probe has answered, or has raised: an error of its clean-up while   *)
(* the task is being cancelled is one more failed probe to _context_window,*)
(* and the cancellation is lost with it.  An adapter without a probe has   *)
(* no await here, so that nothing can be lost.                             *)
ProbeAnswers(s) == pc[s] = "probe" /\ (kill[s] = "none" \/ s \in Probing)

(* The plan is made: as configured, reduced (one event), or refused.  A    *)
(* streaming call then gets its emitter.                                   *)
PlanCall(s, reduced) ==
  LET log == IF reduced THEN Append(events[s], "context_reduced") ELSE events[s] IN
  /\ ProbeAnswers(s)
  /\ reduced => HasRoom(Len(events[s]), "context_reduced")
  /\ s \in Streaming => EventBudget(Len(log)) >= 2
  /\ pc' = [pc EXCEPT ![s] = "call"]
  /\ kill' = [kill EXCEPT ![s] = "none"]
  /\ events' = [events EXCEPT ![s] = log]
  /\ stale' = [stale EXCEPT ![s] = IF reduced THEN FALSE ELSE @]
  /\ emitter' = [emitter EXCEPT ![s] =
                   IF s \in Streaming THEN NewEmitter(Len(log), MaxOutput - chars[s]) ELSE @]
  /\ UNCHANGED <<sessions, status, turn, fired, held, canceling, down>>

PlanRefused(s) ==
  /\ ProbeAnswers(s)
  /\ Fail(s, events[s])
  /\ EndTask(s)
  /\ UNCHANGED <<sessions, messages, pending, rounds, chars, final, canceling, down>>

\* Mutant: a provider that goes on after a cancellation reached it.
AtCallIgnoringCancel(s) == pc[s] = "call"

(* The provider runs, and no cancellation is on its way to it.             *)
AtCall(s) == pc[s] = "call" /\ kill[s] = "none"

(* A fragment within the output limit whose flush the log would refuse.    *)
PushRaises(s, n) ==
  LET em == Buffer(emitter[s], n) IN
  /\ chars[s] + em.text <= MaxOutput
  /\ FlushDue(em) /\ ~CanFlush(em, Len(events[s]))

PushText(s, n) ==
  LET em == Buffer(emitter[s], n) IN
  /\ AtCall(s) /\ s \in Streaming
  /\ chars[s] + em.text <= MaxOutput
  /\ ~PushRaises(s, n)
  /\ IF FlushDue(em)
     THEN /\ emitter' = [emitter EXCEPT ![s] = Flushed(em)]
          /\ Log(s, <<"assistant_text_delta">>)
          /\ Refresh(s)
     ELSE /\ emitter' = [emitter EXCEPT ![s] = em]
          /\ UNCHANGED <<events, stale>>
  /\ UNCHANGED <<sessions, status, turn, pc, kill, fired, held, canceling, down>>

(* The finally clause of the streaming call.                               *)
MustFlush(s) == emitter[s].pending > 0
FlushRaises(s) == MustFlush(s) /\ ~CanFlush(emitter[s], Len(events[s]))
AfterFlush(s) ==
  IF MustFlush(s) /\ ~FlushRaises(s)
  THEN Append(events[s], "assistant_text_delta") ELSE events[s]

(* The provider, the fragment it pushed, or the check of its result raised *)
(* before the output was accounted for.                                    *)
ProviderFails(s) ==
  /\ AtCall(s)
  /\ Fail(s, AfterFlush(s))
  /\ EndTask(s)
  /\ UNCHANGED <<sessions, messages, pending, rounds, chars, final, canceling, down>>

(* The transport of an HTTP provider has a time limit of its own.          *)
CallTimesOut(s) == s \in Probing /\ ProviderFails(s)

(* A result of n characters of text and the tool requests ids, within the  *)
(* output limit: "[]" is counted too.  Streamed text must match the result.*)
OutputSize(n, ids) == n + 2 + RequestChars * Cardinality(ids)

Returns(s, n, ids) ==
  /\ AtCall(s)
  /\ ~FlushRaises(s)
  /\ s \in Streaming => n = emitter[s].text
  /\ chars[s] + OutputSize(n, ids) <= MaxOutput
  /\ chars' = [chars EXCEPT ![s] = @ + OutputSize(n, ids)]
  /\ EndTask(s)
  /\ UNCHANGED <<sessions, rounds, canceling, down>>

(* Round limit, duplicate identifier, unknown tool, invalid arguments, or  *)
(* invalid structured output: a session with an output schema never        *)
(* streams.                                                                *)
RejectResult(s, n, ids) ==
  /\ ids # {} \/ s \notin Streaming
  /\ Returns(s, n, ids)
  /\ Fail(s, AfterFlush(s))
  /\ UNCHANGED <<messages, pending, final>>

\* Mutant: one tool round too many.
RoundLeftOverLimit(s) == rounds[s] <= MaxRounds

RoundLeft(s) == rounds[s] < MaxRounds

RequestTools(s, n, ids) ==
  /\ ids # {} /\ RoundLeft(s)
  /\ Returns(s, n, ids)
  /\ messages' = [messages EXCEPT ![s] = Append(@, Answer(ids))]
  /\ pending' = [pending EXCEPT ![s] = ids]
  /\ IF HasRoom(Len(AfterFlush(s)), "tool_requests")
     THEN /\ status' = [status EXCEPT ![s] = "waiting_for_tool"]
          /\ events' = [events EXCEPT ![s] = Append(AfterFlush(s), "tool_requests")]
          /\ Refresh(s)
          /\ UNCHANGED validation
     ELSE Fail(s, AfterFlush(s))
  /\ UNCHANGED final

Complete(s, n) ==
  /\ Returns(s, n, {})
  /\ Settle(s, "completed", "passed", AfterFlush(s), "session_completed")
  /\ messages' = [messages EXCEPT ![s] = Append(@, Answer({}))]
  /\ final' = [final EXCEPT ![s] = TRUE]
  /\ UNCHANGED pending

\* Mutant: the timeout covers the provider call but not the context probe.
TimedCallOnly(s) == pc[s] = "call"

(* The awaits that asyncio.timeout(timeout_seconds) covers.                *)
Timed(s) == pc[s] \in {"probe", "call"}

(* It fires once.  A task whose cancel is outstanding, heeded or not, ends *)
(* canceled: asyncio turns only a lone cancellation into a TimeoutError.   *)
Timeout(s) ==
  /\ Timed(s) /\ s \notin fired
  /\ fired' = fired \cup {s}
  /\ kill' = [kill EXCEPT ![s] = IF Canceling(s) THEN "cancel" ELSE "timeout"]
  /\ held' = held \ {s}
  /\ UNCHANGED <<sessions, status, events, stale, turn, pc, emitter, canceling, down>>

(* A killed process left a descendant that keeps the pipe open: the drain  *)
(* has no limit but the next cancellation of the task.                     *)
PipeHeld(s) ==
  /\ s \in Piped \ held /\ pc[s] = "call" /\ kill[s] # "none"
  /\ held' = held \cup {s}
  /\ UNCHANGED <<sessions, status, events, stale, turn, pc, kill, fired, emitter,
                 canceling, down>>

PipeClosed(s) ==
  /\ s \in held /\ pc[s] = "call"
  /\ held' = held \ {s}
  /\ UNCHANGED <<sessions, status, events, stale, turn, pc, kill, fired, emitter,
                 canceling, down>>

(* The cancellation reaches the task after the provider's own clean-up,    *)
(* which may raise instead (raised); the probe's is ProbeAnswers.          *)
Unwind(s, raised) ==
  /\ pc[s] = "call" \/ (pc[s] = "probe" /\ ~raised)
  /\ kill[s] # "none" /\ s \notin held
  /\ IF raised \/ FlushRaises(s) \/ kill[s] = "timeout"
     THEN Fail(s, AfterFlush(s))
     ELSE Settle(s, "canceled", "not_validated", AfterFlush(s), "session_canceled")
  /\ EndTask(s)
  /\ UNCHANGED <<sessions, messages, pending, rounds, chars, final, canceling, down>>

(* A task cancelled before its first step never runs its body.             *)
CancelUnstarted(s) ==
  /\ pc[s] = "new" /\ kill[s] # "none"
  /\ EndTask(s)
  /\ UNCHANGED <<sessions, status, events, stale, turn, canceling, down>>

-----------------------------------------------------------------------------
(* cancel: the terminal test, the await of the task, the test again.       *)

CancelRecord(s) ==
  /\ Settle(s, "canceled", "not_validated", events[s], "session_canceled")
  /\ pending' = [pending EXCEPT ![s] = {}]
  /\ UNCHANGED <<sessions, messages, rounds, chars, final, task>>

\* Mutant: cancel asks the task to stop and does not await it.
CancelTaskUnawaited(c, s) ==
  /\ Live(s)
  /\ kill' = [kill EXCEPT ![s] = "cancel"]
  /\ held' = held \ {s}
  /\ UNCHANGED <<sessions, status, events, stale, turn, pc, fired, emitter, canceling>>

CancelTask(c, s) ==
  /\ Live(s)
  /\ kill' = [kill EXCEPT ![s] = "cancel"]
  /\ held' = held \ {s}
  /\ canceling' = canceling \cup {<<c, s>>}
  /\ UNCHANGED <<sessions, status, events, stale, turn, pc, fired, emitter>>

Cancel(c, s) ==
  /\ Found(s) /\ ~Settled(s)
  /\ \A p \in canceling : p[1] # c
  /\ \/ CancelTask(c, s)
     \/ ~Live(s) /\ CancelRecord(s) /\ UNCHANGED canceling
  /\ UNCHANGED down

CancelReturns(c, s) ==
  /\ <<c, s>> \in canceling /\ ~Live(s)
  /\ canceling' = canceling \ {<<c, s>>}
  /\ IF Settled(s)
     THEN UNCHANGED <<sessions, status, events, stale, turn, task>>
     ELSE CancelRecord(s)
  /\ UNCHANGED down

(* shutdown runs once the server has finished its requests; it cancels one *)
(* session after another and an expired record makes it raise.             *)
ShutdownStart ==
  /\ closing = "serving" /\ canceling = {}
  /\ closing' = "closing"
  /\ left' = sessions
  /\ UNCHANGED <<sessions, status, events, stale, turn, task, canceling>>

ShutdownCancel(s) ==
  /\ closing = "closing" /\ canceling = {} /\ s \in left
  /\ left' = left \ {s}
  /\ IF Expired(s)
     THEN /\ closing' = "aborted"
          /\ sessions' = sessions \ {s}
          /\ UNCHANGED <<status, events, stale, turn, task, canceling>>
     ELSE /\ \/ CancelTask(Lifespan, s)
             \/ /\ ~Live(s) /\ UNCHANGED canceling
                /\ IF Settled(s)
                   THEN UNCHANGED <<sessions, status, events, stale, turn, task>>
                   ELSE CancelRecord(s)
          /\ UNCHANGED closing

ShutdownEnd ==
  /\ closing = "closing" /\ canceling = {} /\ left = {}
  /\ closing' = "closed"
  /\ UNCHANGED <<sessions, status, events, stale, turn, task, canceling, left>>

-----------------------------------------------------------------------------
Calls(s) ==
  \/ CreateSession(s) \/ SubmitToolResults(s) \/ ContinueSession(s)
  \/ RecordExpired(s) \/ Age(s)
  \/ \E c \in Client : Cancel(c, s)
  \/ \E c \in Callers : CancelReturns(c, s)
  \/ ShutdownCancel(s)

ResultSizes(s) == IF s \in Streaming THEN {emitter[s].text} ELSE TextSizes

Advance(s) ==
  \/ TaskStart(s) \/ PlanRefused(s) \/ ProviderFails(s) \/ Timeout(s) \/ CancelUnstarted(s)
  \/ PipeHeld(s) \/ PipeClosed(s)
  \/ \E reduced \in BOOLEAN : PlanCall(s, reduced)
  \/ \E n \in Fragments : PushText(s, n)
  \/ \E n \in ResultSizes(s) :
       \/ Complete(s, n)
       \/ \E ids \in SUBSET ToolId : RequestTools(s, n, ids) \/ RejectResult(s, n, ids)
  \/ \E raised \in BOOLEAN : Unwind(s, raised)

Next ==
  \/ \E s \in Session : Calls(s) \/ Advance(s)
  \/ CreateRefused \/ ShutdownStart \/ ShutdownEnd

Spec == Init /\ [][Next]_vars

(* The event loop runs every ready step and timers fire.  Clean-up ends    *)
(* unless it waits for a held pipe; no fairness is asked of PipeClosed, nor*)
(* of a provider: the profile timer, and for an HTTP provider the limit of *)
(* its transport, end what it does not.                                    *)
Fairness ==
  /\ \A s \in Session :
       /\ WF_vars(TaskStart(s)) /\ WF_vars(CancelUnstarted(s))
       /\ WF_vars(Timeout(s)) /\ WF_vars(\E raised \in BOOLEAN : Unwind(s, raised))
       /\ WF_vars(CallTimesOut(s))
       /\ WF_vars(\E c \in Callers : CancelReturns(c, s))
       /\ WF_vars(ShutdownCancel(s))
  /\ WF_vars(ShutdownEnd)

LiveSpec == Spec /\ Fairness

-----------------------------------------------------------------------------
(* Properties                                                              *)

(* Every variable of a record, of its task and of shutdown keeps its type. *)
TypeOK ==
  /\ sessions \subseteq Session
  /\ status \in [Session -> Statuses]
  /\ events \in [Session -> Seq(EventTypes)]
  /\ messages \in [Session -> Seq(Messages)]
  /\ pending \in [Session -> SUBSET ToolId]
  /\ rounds \in [Session -> Nat]
  /\ chars \in [Session -> Nat]
  /\ final \in [Session -> BOOLEAN]
  /\ validation \in [Session -> {"pending", "passed", "failed", "not_validated"}]
  /\ stale \in [Session -> BOOLEAN]
  /\ pc \in [Session -> LivePC \cup {"none", "done"}]
  /\ kill \in [Session -> {"none", "timeout", "cancel"}]
  /\ fired \subseteq Session /\ held \subseteq Piped
  /\ emitter \in [Session -> Emitters]
  /\ canceling \subseteq Callers \X Session
  /\ closing \in {"serving", "closing", "closed", "aborted"}
  /\ left \subseteq Session

(* The registry and the concurrent provider calls stay within their limits,*)
(* although create checks before it registers and submit checks again.     *)
CapacityRespected ==
  /\ Cardinality(sessions) <= MaxSessions
  /\ Cardinality(Running(sessions)) <= MaxRunning

(* A task that is still alive belongs to a registered, running session:    *)
(* neither the expiry purge nor a racing cancel or refusal orphans it.     *)
LiveTaskOwned == \A s \in Session : Live(s) => s \in sessions /\ status[s] = "running"

(* A running session without a live task is being settled by a cancel that *)
(* has yet to resume: no call leaves a session running for ever.           *)
RunningHasTask ==
  \A s \in Session : status[s] = "running" /\ ~Live(s) => Canceling(s)

(* The public status, the log's last event, the pending tools and the      *)
(* validation tell the same story.  Tools stay pending in a failed session *)
(* only when the log had no room for their request.                        *)
Consistent(s) ==
  CASE status[s] = "waiting_for_tool" ->
         /\ Last(events[s]) = "tool_requests"
         /\ pending[s] # {} /\ Last(messages[s]) = Answer(pending[s])
    [] status[s] = "completed" ->
         /\ Last(events[s]) = "session_completed" /\ validation[s] = "passed"
         /\ final[s] /\ pending[s] = {}
    [] status[s] = "failed" ->
         /\ Last(events[s]) = "session_failed" /\ validation[s] = "failed"
         /\ pending[s] = {} \/ Len(events[s]) = MaxEvents
    [] status[s] = "canceled" ->
         /\ Last(events[s]) = "session_canceled" /\ validation[s] = "not_validated"
         /\ pending[s] = {}
    [] OTHER -> TRUE

SettledStateConsistent == \A s \in Session : Consistent(s)

(* A submit or follow-up refused by the second check of _schedule: its     *)
(* input is in the record and its log has just reached the reserve.        *)
Stranded(s) ==
  /\ status[s] \in {"waiting_for_tool", "completed"}
  /\ Last(events[s]) \in {"tool_results_received", "user_input_received"}
  /\ Len(events[s]) = MaxEvents - Reserve

(* Nothing but that boundary breaks the agreement of status and log.       *)
ConsistentUnlessStranded == \A s \in Session : Consistent(s) \/ Stranded(s)

(* Input enters a transcript only with the turn it starts: a submission or *)
(* a follow-up that is refused leaves the record as it was.                *)
RefusedInputLeavesRecord ==
  [][\A s \in Session :
        status[s] \in {"waiting_for_tool", "completed"} /\ messages'[s] # messages[s]
          => status'[s] = "running"]_vars

(* Every tool request in the transcript that is not its last message is    *)
(* answered by the next one, by results for exactly its identifiers, and a *)
(* provider is never called with a request unanswered.                     *)
TranscriptAnswered ==
  \A s \in Session :
    /\ \A i \in 1 .. Len(messages[s]) - 1 :
         messages[s][i].role = "assistant" /\ messages[s][i].ids # {}
           => messages[s][i + 1] = [role |-> "tool", ids |-> messages[s][i].ids]
    /\ Live(s) => pending[s] = {} /\ Last(messages[s]).role # "assistant"

(* A provider call always finds the events it may need: planning has room  *)
(* for its event, the emitter starts with a budget of two, and no text is  *)
(* buffered that a flush could not log.                                    *)
ReserveSuffices ==
  \A s \in Session :
    /\ pc[s] = "probe" => EventBudget(Len(events[s]) + 1) >= 2
    /\ ~FlushRaises(s)
    /\ pc[s] = "call" /\ s \in Streaming => \A n \in Fragments : ~PushRaises(s, n)

(* The rounds and the characters of a session stay within its limits.      *)
LimitsRespected == \A s \in Session : rounds[s] <= MaxRounds /\ chars[s] <= MaxOutput

(* shutdown returns only with every session settled and no task alive.     *)
ShutdownSettles ==
  closing = "closed" => \A s \in sessions : status[s] \in Terminal /\ ~Live(s)

(* A failed or canceled session is never resumed, relabelled or extended.  *)
FailureIsFinal ==
  [][\A s \in Session : status[s] \in {"failed", "canceled"} =>
        UNCHANGED <<status[s], events[s], messages[s], pending[s]>>]_vars

(* A turn has been asked to stop, by a caller or by its timer.             *)
AskedToStop(s) == status[s] = "running" /\ (Canceling(s) \/ s \in fired)

(* What it was asked was lost in the capacity probe.                       *)
LostInProbe(s) == s \in Probing /\ pc[s] = "call" /\ kill[s] = "none"

(* A turn that was asked to stop neither completes nor asks for tools,     *)
(* unless the capacity probe swallowed all that it was asked.              *)
NoCompletionAfterCancel ==
  [][\A s \in Session :
        AskedToStop(s) /\ status'[s] \in {"completed", "waiting_for_tool"}
          => LostInProbe(s)]_vars

(* A caller inside cancel() gets a settled session, unless clean-up waits  *)
(* for a pipe that a descendant of the provider's process holds.           *)
CancelSettles ==
  \A s \in Session : Canceling(s) ~> status[s] \in Terminal \/ s \in held

(* Every turn ends, whatever its provider does and whatever its probe      *)
(* swallows, but for the same pipe.                                        *)
TurnEnds ==
  \A s \in Session : status[s] = "running" ~> status[s] # "running" \/ s \in held

(* The service implements the public lifecycle: the status of a registered *)
(* record is its phase, its events are its log, a deleted one is forgotten.*)
Phase == [s \in Session |-> IF status[s] # "none" /\ s \notin sessions
                            THEN "forgotten" ELSE status[s]]

Lifecycle == INSTANCE SessionLifecycle
               WITH phase <- Phase, log <- events,
                    MaxLog <- MaxEvents, InputReserve <- Reserve

ImplementsLifecycle == Lifecycle!Spec

=============================================================================
