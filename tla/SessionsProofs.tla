--------------------------- MODULE SessionsProofs ---------------------------
(***************************************************************************)
(* Theorems about Sessions for any number of sessions, callers and tool    *)
(* identifiers and any limits: its types; who owns a running session, from *)
(* which follow that no task is orphaned, no session left running, no turn *)
(* ended twice and none completed after a cancellation; and what a record  *)
(* keeps through its turns, from which follows that the service implements *)
(* the public lifecycle of SessionLifecycle.                               *)
(***************************************************************************)
EXTENDS Sessions, EventLogProofs, SequenceTheorems, FiniteSetTheorems

LEMMA EventPair ==
  ASSUME NEW a \in EventTypes, NEW b \in EventTypes
  PROVE  <<a, b>> \in Seq(EventTypes)
  OBVIOUS

LEMMA EventsConcat ==
  ASSUME NEW log \in Seq(EventTypes), NEW a \in EventTypes, NEW b \in EventTypes
  PROVE  log \o <<a>> \in Seq(EventTypes) /\ log \o <<a, b>> \in Seq(EventTypes)
         /\ Append(log, a) \in Seq(EventTypes)
  <1>1. <<a>> \in Seq(EventTypes) /\ <<a, b>> \in Seq(EventTypes)
    OBVIOUS
  <1> QED
    BY <1>1, ConcatProperties

LEMMA MessageTypes ==
  ASSUME NEW ids \in SUBSET ToolId
  PROVE  UserMessage \in Messages /\ Answer(ids) \in Messages /\ ToolMessages(ids) \in Messages
  BY DEF UserMessage, Answer, ToolMessages, Messages

LEMMA AfterFlushType ==
  ASSUME TypeOK, NEW s \in Session
  PROVE  AfterFlush(s) \in Seq(EventTypes)
  BY EventsConcat DEF TypeOK, AfterFlush, EventTypes

LEMMA OutputSizeType ==
  ASSUME NEW n \in Nat, NEW ids \in SUBSET ToolId
  PROVE  OutputSize(n, ids) \in Nat
  <1>1. IsFiniteSet(ids)
    BY SessionsAssumption, FS_Subset
  <1>2. Cardinality(ids) \in Nat
    BY <1>1, FS_CardinalityType
  <1> QED
    BY <1>2, SessionsAssumption DEF OutputSize

(* Whatever ends a turn leaves status, validation, events and age typed.   *)
LEMMA SettleType ==
  ASSUME TypeOK, NEW s \in Session, NEW log \in Seq(EventTypes),
         NEW outcome \in Statuses, NEW verdict \in {"pending", "passed", "failed", "not_validated"},
         NEW type \in EventTypes, Settle(s, outcome, verdict, log, type)
  PROVE  /\ status' \in [Session -> Statuses]
         /\ validation' \in [Session -> {"pending", "passed", "failed", "not_validated"}]
         /\ events' \in [Session -> Seq(EventTypes)]
         /\ stale' \in [Session -> BOOLEAN]
  <1>1. Append(log, type) \in Seq(EventTypes)
    BY EventsConcat
  <1> QED
    BY <1>1 DEF TypeOK, Settle, Refresh

LEMMA FailType ==
  ASSUME TypeOK, NEW s \in Session, NEW log \in Seq(EventTypes), Fail(s, log)
  PROVE  /\ status' \in [Session -> Statuses]
         /\ validation' \in [Session -> {"pending", "passed", "failed", "not_validated"}]
         /\ events' \in [Session -> Seq(EventTypes)]
         /\ stale' \in [Session -> BOOLEAN]
  BY SettleType DEF Fail, Statuses, Terminal, EventTypes, TerminalEventTypes

LEMMA EndTaskType ==
  ASSUME TypeOK, NEW s \in Session, EndTask(s)
  PROVE  /\ pc' \in [Session -> LivePC \cup {"none", "done"}]
         /\ kill' \in [Session -> {"none", "timeout", "cancel"}]
         /\ fired' \subseteq Session /\ held' \subseteq Piped
         /\ emitter' \in [Session -> Emitters]
  BY DEF TypeOK, EndTask, NoEmitter, Emitters

LEMMA CallsType ==
  ASSUME TypeOK, NEW s \in Session, Calls(s)
  PROVE  TypeOK'
  <1> USE SessionsAssumption DEF turn, task, down
  <1>1. CASE CreateSession(s)
    <2>1. <<UserMessage>> \in Seq(Messages)
      <3>1. UserMessage \in Messages
        BY DEF UserMessage, Messages
      <3> QED
        BY <3>1
    <2>2. <<"session_created", "provider_started">> \in Seq(EventTypes)
      <3>1. "session_created" \in EventTypes /\ "provider_started" \in EventTypes
        BY DEF EventTypes
      <3> QED
        BY <3>1, EventPair
    <2>3. sessions' \subseteq Session
      BY <1>1 DEF TypeOK, CreateSession, Kept
    <2>4. /\ status' \in [Session -> Statuses]
          /\ pc' \in [Session -> LivePC \cup {"none", "done"}]
          /\ kill' \in [Session -> {"none", "timeout", "cancel"}]
      BY <1>1 DEF TypeOK, CreateSession, StartTask, Statuses, LivePC
    <2>5. events' \in [Session -> Seq(EventTypes)] /\ messages' \in [Session -> Seq(Messages)]
      BY <1>1, <2>1, <2>2 DEF TypeOK, CreateSession
    <2> QED
      BY <1>1, <2>3, <2>4, <2>5 DEF TypeOK, CreateSession
  <1>2. ASSUME NEW input \in {"tool_results_received", "user_input_received"}, Resume(s, input)
        PROVE  /\ status' \in [Session -> Statuses]
               /\ pc' \in [Session -> LivePC \cup {"none", "done"}]
               /\ kill' \in [Session -> {"none", "timeout", "cancel"}]
               /\ events' \in [Session -> Seq(EventTypes)]
               /\ stale' \in [Session -> BOOLEAN]
    <2>1. events[s] \o <<input>> \in Seq(EventTypes)
          /\ events[s] \o <<input, "provider_started">> \in Seq(EventTypes)
      <3>1. /\ input \in EventTypes /\ "provider_started" \in EventTypes
            /\ events[s] \in Seq(EventTypes)
        BY DEF EventTypes, TypeOK
      <3> QED
        BY <3>1, EventsConcat
    <2>2. events' \in [Session -> Seq(EventTypes)] /\ stale' \in [Session -> BOOLEAN]
      BY <1>2, <2>1 DEF TypeOK, Resume, Log, Refresh
    <2>3. /\ status' \in [Session -> Statuses]
          /\ pc' \in [Session -> LivePC \cup {"none", "done"}]
          /\ kill' \in [Session -> {"none", "timeout", "cancel"}]
      BY <1>2 DEF TypeOK, Resume, StartTask, Statuses, LivePC
    <2> QED
      BY <2>2, <2>3
  <1>3. CASE SubmitToolResults(s)
    <2>1. Append(messages[s], ToolMessages(pending[s])) \in Seq(Messages)
      BY MessageTypes DEF TypeOK
    <2> QED
      BY <1>2, <1>3, <2>1 DEF TypeOK, SubmitToolResults
  <1>4. CASE ContinueSession(s)
    <2>1. UserMessage \in Messages /\ messages[s] \in Seq(Messages)
      BY MessageTypes DEF TypeOK, UserMessage, Messages
    <2>2. Append(messages[s], UserMessage) \in Seq(Messages)
      BY <2>1
    <2> QED
      BY <1>2, <1>4, <2>2 DEF TypeOK, ContinueSession
  <1>5. CASE RecordExpired(s)
    BY <1>5 DEF TypeOK, RecordExpired
  <1>6. CASE Age(s)
    BY <1>6 DEF TypeOK, Age
  <1>7. ASSUME CancelRecord(s), UNCHANGED closing,
               canceling' \subseteq Callers \X Session, left' \subseteq Session
        PROVE  TypeOK'
    <2>1. /\ status' \in [Session -> Statuses]
          /\ validation' \in [Session -> {"pending", "passed", "failed", "not_validated"}]
          /\ events' \in [Session -> Seq(EventTypes)]
          /\ stale' \in [Session -> BOOLEAN]
      BY <1>7, SettleType DEF CancelRecord, TypeOK, Statuses, Terminal, EventTypes, TerminalEventTypes
    <2> QED
      BY <1>7, <2>1 DEF TypeOK, CancelRecord
  <1>8. ASSUME NEW c \in Callers, CancelTask(c, s), UNCHANGED closing, left' \subseteq Session
        PROVE  TypeOK'
    BY <1>8 DEF TypeOK, CancelTask
  <1>9. ASSUME NEW c \in Client, Cancel(c, s) PROVE TypeOK'
    BY <1>7, <1>8, <1>9 DEF Cancel, TypeOK, Callers
  <1>10. ASSUME NEW c \in Callers, CancelReturns(c, s) PROVE TypeOK'
    <2>1. UNCHANGED down /\ canceling' \subseteq Callers \X Session
      BY <1>10 DEF CancelReturns, TypeOK
    <2>2. CASE Settled(s)
      BY <1>10, <2>1, <2>2 DEF CancelReturns, TypeOK
    <2>3. CASE ~Settled(s)
      BY <1>7, <1>10, <2>1, <2>3 DEF CancelReturns, TypeOK
    <2> QED
      BY <2>2, <2>3
  <1>11. CASE ShutdownCancel(s)
    <2>1. left' \subseteq Session
      BY <1>11 DEF ShutdownCancel, TypeOK
    <2>2. CASE Expired(s)
      BY <1>11, <2>1, <2>2 DEF ShutdownCancel, TypeOK
    <2>3. CASE ~Expired(s)
      BY <1>7, <1>8, <1>11, <2>1, <2>3 DEF ShutdownCancel, TypeOK, Callers
    <2> QED
      BY <2>2, <2>3
  <1> QED
    BY <1>1, <1>3, <1>4, <1>5, <1>6, <1>9, <1>10, <1>11 DEF Calls

(* A handler that fails the record and ends the task keeps every type.     *)
LEMMA FailEndsType ==
  ASSUME TypeOK, NEW s \in Session, NEW log \in Seq(EventTypes), Fail(s, log), EndTask(s),
         UNCHANGED <<sessions, messages, pending, rounds, chars, final, canceling, down>>
  PROVE  TypeOK'
  <1>1. /\ status' \in [Session -> Statuses]
        /\ validation' \in [Session -> {"pending", "passed", "failed", "not_validated"}]
        /\ events' \in [Session -> Seq(EventTypes)]
        /\ stale' \in [Session -> BOOLEAN]
    BY FailType
  <1>2. /\ pc' \in [Session -> LivePC \cup {"none", "done"}]
        /\ kill' \in [Session -> {"none", "timeout", "cancel"}]
        /\ fired' \subseteq Session /\ held' \subseteq Piped
        /\ emitter' \in [Session -> Emitters]
    BY EndTaskType
  <1> QED
    BY <1>1, <1>2 DEF TypeOK, down

LEMMA PlanCallType ==
  ASSUME TypeOK, NEW s \in Session, NEW reduced \in BOOLEAN, PlanCall(s, reduced)
  PROVE  TypeOK'
  <1> DEFINE log == IF reduced THEN Append(events[s], "context_reduced") ELSE events[s]
  <1>1. log \in Seq(EventTypes)
    <2>1. events[s] \in Seq(EventTypes) /\ "context_reduced" \in EventTypes
      BY DEF TypeOK, EventTypes
    <2> QED
      BY <2>1, EventsConcat
  <1>2. Len(log) \in Nat /\ MaxOutput - chars[s] \in Int
    <2> HIDE DEF log
    <2> QED
      BY <1>1, SessionsAssumption DEF TypeOK
  <1>3. s \in Streaming => NewEmitter(Len(log), MaxOutput - chars[s]) \in Emitters
    BY <1>2, NewEmitterType DEF PlanCall
  <1>4. /\ pc' \in [Session -> LivePC \cup {"none", "done"}]
        /\ kill' \in [Session -> {"none", "timeout", "cancel"}]
    BY DEF PlanCall, TypeOK, LivePC
  <1>5. events' \in [Session -> Seq(EventTypes)]
    BY <1>1 DEF PlanCall, TypeOK
  <1>6. emitter' \in [Session -> Emitters]
    <2> HIDE DEF log
    <2>1. emitter' = [emitter EXCEPT ![s] =
             IF s \in Streaming THEN NewEmitter(Len(log), MaxOutput - chars[s]) ELSE @]
      BY DEF PlanCall, log
    <2>2. emitter \in [Session -> Emitters]
      BY DEF TypeOK
    <2> QED
      BY <1>3, <2>1, <2>2
  <1>7. stale' \in [Session -> BOOLEAN]
    BY DEF PlanCall, TypeOK
  <1> QED
    BY <1>4, <1>5, <1>6, <1>7 DEF PlanCall, TypeOK, turn, down

LEMMA PushTextType ==
  ASSUME TypeOK, NEW s \in Session, NEW n \in Fragments, PushText(s, n)
  PROVE  TypeOK'
  <1> DEFINE em == Buffer(emitter[s], n)
  <1>1. emitter[s] \in Emitters /\ n \in Nat
    BY SessionsAssumption DEF TypeOK
  <1>2. em \in Emitters
    BY <1>1, BufferFields
  <1>3. Flushed(em) \in Emitters
    <2> HIDE DEF em
    <2> QED
      BY <1>2, FlushedFields
  <1>4. emitter' = [emitter EXCEPT ![s] = IF FlushDue(em) THEN Flushed(em) ELSE em]
    BY DEF PushText
  <1>5. emitter' \in [Session -> Emitters]
    <2>1. emitter \in [Session -> Emitters]
      BY DEF TypeOK
    <2> HIDE DEF em
    <2> QED
      BY <1>2, <1>3, <1>4, <2>1
  <1>6. events[s] \o <<"assistant_text_delta">> \in Seq(EventTypes)
    <2>1. events[s] \in Seq(EventTypes) /\ "assistant_text_delta" \in EventTypes
      BY DEF TypeOK, EventTypes
    <2> QED
      BY <2>1, EventsConcat
  <1>7. events' \in [Session -> Seq(EventTypes)] /\ stale' \in [Session -> BOOLEAN]
    <2> HIDE DEF em
    <2>1. \/ Log(s, <<"assistant_text_delta">>) /\ Refresh(s)
          \/ UNCHANGED <<events, stale>>
      BY DEF PushText
    <2>2. CASE UNCHANGED <<events, stale>>
      BY <2>2 DEF TypeOK
    <2>3. CASE Log(s, <<"assistant_text_delta">>) /\ Refresh(s)
      <3>1. events' \in [Session -> Seq(EventTypes)]
        BY <1>6, <2>3 DEF TypeOK, Log
      <3>2. stale' \in [Session -> BOOLEAN]
        BY <2>3 DEF TypeOK, Refresh
      <3> QED
        BY <3>1, <3>2
    <2> QED
      BY <2>1, <2>2, <2>3
  <1> QED
    BY <1>5, <1>7 DEF PushText, TypeOK, turn, down

(* What a returned call leaves typed, before its result is judged.         *)
LEMMA ReturnsType ==
  ASSUME TypeOK, NEW s \in Session, NEW n \in Nat, NEW ids \in SUBSET ToolId, Returns(s, n, ids)
  PROVE  /\ chars' \in [Session -> Nat]
         /\ pc' \in [Session -> LivePC \cup {"none", "done"}]
         /\ kill' \in [Session -> {"none", "timeout", "cancel"}]
         /\ fired' \subseteq Session /\ held' \subseteq Piped
         /\ emitter' \in [Session -> Emitters]
         /\ UNCHANGED <<sessions, rounds, canceling, closing, left>>
  <1>1. OutputSize(n, ids) \in Nat
    BY OutputSizeType
  <1>2. chars' \in [Session -> Nat]
    <2>1. chars' = [chars EXCEPT ![s] = @ + OutputSize(n, ids)]
      BY DEF Returns
    <2> QED
      BY <1>1, <2>1 DEF TypeOK
  <1>3. /\ pc' \in [Session -> LivePC \cup {"none", "done"}]
        /\ kill' \in [Session -> {"none", "timeout", "cancel"}]
        /\ fired' \subseteq Session /\ held' \subseteq Piped
        /\ emitter' \in [Session -> Emitters]
    BY EndTaskType DEF Returns
  <1> QED
    BY <1>2, <1>3 DEF Returns, down

LEMMA ResultType ==
  ASSUME TypeOK, NEW s \in Session, NEW n \in Nat, NEW ids \in SUBSET ToolId,
         RejectResult(s, n, ids) \/ RequestTools(s, n, ids) \/ Complete(s, n)
  PROVE  TypeOK'
  <1>1. AfterFlush(s) \in Seq(EventTypes)
    BY AfterFlushType
  <1>2. /\ Answer(ids) \in Messages /\ Answer({}) \in Messages
        /\ Append(messages[s], Answer(ids)) \in Seq(Messages)
        /\ Append(messages[s], Answer({})) \in Seq(Messages)
    <2>1. Answer(ids) \in Messages /\ Answer({}) \in Messages /\ messages[s] \in Seq(Messages)
      BY DEF Answer, Messages, TypeOK
    <2> QED
      BY <2>1
  <1>3. CASE RejectResult(s, n, ids)
    <2>1. Returns(s, n, ids) /\ Fail(s, AfterFlush(s)) /\ UNCHANGED <<messages, pending, final>>
      BY <1>3 DEF RejectResult
    <2> QED
      BY <1>1, <2>1, FailType, ReturnsType DEF TypeOK
  <1>4. CASE RequestTools(s, n, ids)
    <2>1. Returns(s, n, ids) /\ UNCHANGED final
      BY <1>4 DEF RequestTools
    <2>2. messages' \in [Session -> Seq(Messages)] /\ pending' \in [Session -> SUBSET ToolId]
      BY <1>2, <1>4 DEF RequestTools, TypeOK
    <2>3. CASE Fail(s, AfterFlush(s))
      BY <1>1, <2>1, <2>2, <2>3, FailType, ReturnsType DEF TypeOK
    <2>4. CASE ~Fail(s, AfterFlush(s))
      <3>1. /\ status' = [status EXCEPT ![s] = "waiting_for_tool"]
            /\ events' = [events EXCEPT ![s] = Append(AfterFlush(s), "tool_requests")]
            /\ Refresh(s)
            /\ UNCHANGED validation
        BY <1>4, <2>4 DEF RequestTools
      <3>2. status' \in [Session -> Statuses] /\ stale' \in [Session -> BOOLEAN]
        BY <3>1 DEF TypeOK, Statuses, Refresh
      <3>3. Append(AfterFlush(s), "tool_requests") \in Seq(EventTypes)
        <4>1. "tool_requests" \in EventTypes
          BY DEF EventTypes
        <4> QED
          BY <1>1, <4>1, EventsConcat
      <3>4. events' \in [Session -> Seq(EventTypes)]
        BY <3>1, <3>3 DEF TypeOK
      <3> QED
        BY <2>1, <2>2, <3>1, <3>2, <3>4, ReturnsType DEF TypeOK
    <2> QED
      BY <2>3, <2>4
  <1>5. CASE Complete(s, n)
    <2>1. /\ Returns(s, n, {}) /\ UNCHANGED pending
          /\ Settle(s, "completed", "passed", AfterFlush(s), "session_completed")
      BY <1>5 DEF Complete
    <2>2. messages' \in [Session -> Seq(Messages)]
      BY <1>2, <1>5 DEF Complete, TypeOK
    <2>3. final' \in [Session -> BOOLEAN]
      <3>1. final \in [Session -> BOOLEAN] /\ final' = [final EXCEPT ![s] = TRUE]
        BY <1>5 DEF Complete, TypeOK
      <3> QED
        BY <3>1
    <2>4. /\ "completed" \in Statuses /\ "session_completed" \in EventTypes
      BY DEF Statuses, Terminal, EventTypes, TerminalEventTypes
    <2> QED
      BY <1>1, <2>1, <2>2, <2>3, <2>4, SettleType, ReturnsType DEF TypeOK
  <1> QED
    BY <1>3, <1>4, <1>5

LEMMA AdvanceType ==
  ASSUME TypeOK, NEW s \in Session, Advance(s)
  PROVE  TypeOK'
  <1>1. AfterFlush(s) \in Seq(EventTypes) /\ events[s] \in Seq(EventTypes)
    BY AfterFlushType DEF TypeOK
  <1>2. CASE TaskStart(s)
    BY <1>2 DEF TaskStart, TypeOK, turn, down, LivePC
  <1>3. CASE PlanRefused(s)
    BY <1>1, <1>3, FailEndsType DEF PlanRefused
  <1>4. CASE ProviderFails(s)
    BY <1>1, <1>4, FailEndsType DEF ProviderFails
  <1>5. CASE Timeout(s)
    BY <1>5 DEF Timeout, TypeOK, turn, down
  <1>6. CASE CancelUnstarted(s)
    <2>1. EndTask(s) /\ UNCHANGED <<sessions, status, events, stale, turn, canceling, down>>
      BY <1>6 DEF CancelUnstarted
    <2> QED
      BY <2>1, EndTaskType DEF TypeOK, turn, down
  <1>7. ASSUME NEW reduced \in BOOLEAN, PlanCall(s, reduced) PROVE TypeOK'
    BY <1>7, PlanCallType
  <1>8. ASSUME NEW n \in Fragments, PushText(s, n) PROVE TypeOK'
    BY <1>8, PushTextType
  <1>9. ASSUME NEW n \in ResultSizes(s), NEW ids \in SUBSET ToolId,
               RejectResult(s, n, ids) \/ RequestTools(s, n, ids) \/ Complete(s, n)
        PROVE  TypeOK'
    <2>1. n \in Nat
      BY SessionsAssumption DEF ResultSizes, TypeOK, Emitters
    <2> QED
      BY <1>9, <2>1, ResultType
  <1>10. ASSUME NEW raised \in BOOLEAN, Unwind(s, raised) PROVE TypeOK'
    <2>1. EndTask(s) /\ UNCHANGED <<sessions, messages, pending, rounds, chars, final, canceling, down>>
      BY <1>10 DEF Unwind
    <2>2. CASE Fail(s, AfterFlush(s))
      BY <1>1, <2>1, <2>2, FailEndsType
    <2>3. CASE Settle(s, "canceled", "not_validated", AfterFlush(s), "session_canceled")
      <3>1. "canceled" \in Statuses /\ "session_canceled" \in EventTypes
        BY DEF Statuses, Terminal, EventTypes, TerminalEventTypes
      <3> QED
        BY <1>1, <2>1, <2>3, <3>1, SettleType, EndTaskType DEF TypeOK, down
    <2> QED
      BY <1>10, <2>2, <2>3 DEF Unwind
  <1>11. CASE PipeHeld(s) \/ PipeClosed(s)
    BY <1>11 DEF PipeHeld, PipeClosed, TypeOK, turn, down
  <1> QED
    BY <1>2, <1>3, <1>4, <1>5, <1>6, <1>7, <1>8, <1>9, <1>10, <1>11 DEF Advance

LEMMA TypeStep == TypeOK /\ [Next]_vars => TypeOK'
  <1> SUFFICES ASSUME TypeOK, [Next]_vars PROVE TypeOK'
    OBVIOUS
  <1>1. ASSUME NEW s \in Session, Calls(s) PROVE TypeOK'
    BY <1>1, CallsType
  <1>2. ASSUME NEW s \in Session, Advance(s) PROVE TypeOK'
    BY <1>2, AdvanceType
  <1>3. CASE CreateRefused
    BY <1>3 DEF CreateRefused, Kept, TypeOK, turn, task, down
  <1>4. CASE ShutdownStart
    BY <1>4 DEF ShutdownStart, TypeOK, turn, task
  <1>5. CASE ShutdownEnd
    BY <1>5 DEF ShutdownEnd, TypeOK, turn, task
  <1>6. CASE UNCHANGED vars
    BY <1>6 DEF vars, TypeOK, turn, task, down
  <1> QED
    BY <1>1, <1>2, <1>3, <1>4, <1>5, <1>6 DEF Next

(* Type correctness, for any constants that satisfy the assumptions.       *)
THEOREM TypeCorrect == Spec => []TypeOK
  <1>1. Init => TypeOK
    BY DEF Init, TypeOK, Statuses, NoEmitter, Emitters
  <1> QED
    BY <1>1, TypeStep, PTL DEF Spec

-----------------------------------------------------------------------------
(* Who owns a running session: the task that advances it, or a caller      *)
(* inside cancel() that will settle it.  Ownership is inductive.           *)

(* A cancellation in flight has a caller waiting for it.                   *)
CancelHasCaller ==
  \A s \in Session : Live(s) /\ kill[s] = "cancel" => Canceling(s)

(* The timer of a turn runs from its first step to its last.               *)
TimerNeedsStart ==
  \A s \in Session :
    /\ pc[s] = "new" => kill[s] # "timeout"
    /\ ~Timed(s) => s \notin fired

(* final_text is set only while the session is completed.                  *)
FinalOnlyCompleted == \A s \in Session : final[s] => status[s] = "completed"

(* While shutdown runs, what it has taken from its list is settled or has  *)
(* shutdown waiting for it.                                                *)
ShutdownProgress ==
  /\ closing = "closing" =>
       \A s \in sessions : \/ s \in left
                           \/ status[s] \in Terminal /\ ~Live(s)
                           \/ Canceling(s)
  /\ ShutdownSettles

Ownership ==
  /\ TypeOK
  /\ LiveTaskOwned
  /\ RunningHasTask
  /\ CancelHasCaller
  /\ TimerNeedsStart
  /\ FinalOnlyCompleted
  /\ ShutdownProgress

-----------------------------------------------------------------------------
(* What an action on session s does to every other record.                 *)
OnlyTouches(s) ==
  \A t \in Session \ {s} :
    /\ status'[t] = status[t] /\ pc'[t] = pc[t] /\ kill'[t] = kill[t]
    /\ final'[t] = final[t] /\ events'[t] = events[t]
    /\ messages'[t] = messages[t] /\ pending'[t] = pending[t]
    /\ stale'[t] = stale[t] /\ (t \in fired' <=> t \in fired)

(* The three ways a task may move: it goes on, it settles its session, or  *)
(* it is dropped before its first step.  One that goes on may be asked to  *)
(* stop by its timer, or lose in its probe what it was asked.              *)
Progresses(s) ==
  /\ pc'[s] \in {"probe", "call"} /\ status'[s] = status[s] /\ final'[s] = final[s]
  /\ pc[s] = "call" => pc'[s] = "call"
  /\ s \in fired' => s \in fired \/ kill'[s] # "none"
  /\ \/ kill'[s] = kill[s]
     \/ kill'[s] = "timeout"
     \/ kill'[s] = "cancel" /\ Canceling(s)
     \/ kill'[s] = "none" /\ pc'[s] = "call" /\ s \in Probing

Ends(s) ==
  /\ pc'[s] = "done"
  /\ status'[s] \in Terminal \cup {"waiting_for_tool"}
  /\ status'[s] \in {"completed", "waiting_for_tool"} => kill[s] = "none"
  /\ status'[s] = "waiting_for_tool" => ~stale'[s]
  /\ final'[s] = final[s] \/ status'[s] = "completed"
  /\ s \notin fired'

Dropped(s) ==
  /\ pc[s] = "new" /\ kill[s] # "none" /\ pc'[s] = "done"
  /\ status'[s] = status[s] /\ kill'[s] = kill[s] /\ final'[s] = final[s]
  /\ s \notin fired'

LEMMA EndingStep ==
  ASSUME TypeOK, NEW s \in Session, EndTask(s),
         UNCHANGED <<messages, pending, final>>,
         \/ Fail(s, AfterFlush(s)) \/ Fail(s, events[s])
         \/ Settle(s, "canceled", "not_validated", AfterFlush(s), "session_canceled")
  PROVE  OnlyTouches(s) /\ Ends(s)
  <1>1. /\ pc'[s] = "done" /\ kill' = kill /\ fired' = fired \ {s}
        /\ \A t \in Session \ {s} : pc'[t] = pc[t]
    BY DEF EndTask, TypeOK
  <1>2. /\ status'[s] \in {"failed", "canceled"}
        /\ \A t \in Session \ {s} :
             status'[t] = status[t] /\ events'[t] = events[t] /\ stale'[t] = stale[t]
    BY DEF Fail, Settle, Refresh, TypeOK
  <1> QED
    BY <1>1, <1>2 DEF OnlyTouches, Ends, Terminal

LEMMA ResultStep ==
  ASSUME TypeOK, NEW s \in Session, NEW n, NEW ids \in SUBSET ToolId,
         RejectResult(s, n, ids) \/ RequestTools(s, n, ids) \/ Complete(s, n)
  PROVE  /\ Live(s) /\ OnlyTouches(s) /\ Ends(s)
         /\ UNCHANGED <<sessions, canceling, down>>
  <1>1. CASE RejectResult(s, n, ids)
    <2>1. AtCall(s) /\ EndTask(s) /\ UNCHANGED <<sessions, canceling, down>>
      BY <1>1 DEF RejectResult, Returns
    <2>2. Fail(s, AfterFlush(s)) /\ UNCHANGED <<messages, pending, final>>
      BY <1>1 DEF RejectResult
    <2> QED
      BY <2>1, <2>2, EndingStep DEF AtCall, Live, LivePC
  <1>2. CASE RequestTools(s, n, ids)
    <2>1. AtCall(s) /\ EndTask(s) /\ UNCHANGED <<sessions, canceling, down, final>>
      BY <1>2 DEF RequestTools, Returns
    <2>2. \A t \in Session \ {s} : messages'[t] = messages[t] /\ pending'[t] = pending[t]
      BY <1>2 DEF RequestTools, TypeOK
    <2>3. /\ status'[s] \in {"failed", "waiting_for_tool"} /\ ~stale'[s]
          /\ \A t \in Session \ {s} :
               status'[t] = status[t] /\ events'[t] = events[t] /\ stale'[t] = stale[t]
      BY <1>2 DEF RequestTools, Fail, Settle, Refresh, TypeOK
    <2>4. /\ pc'[s] = "done" /\ kill' = kill /\ fired' = fired \ {s}
          /\ \A t \in Session \ {s} : pc'[t] = pc[t]
      BY <2>1 DEF EndTask, TypeOK
    <2> QED
      BY <2>1, <2>2, <2>3, <2>4 DEF OnlyTouches, Ends, Terminal, AtCall, Live, LivePC
  <1>3. CASE Complete(s, n)
    <2>1. AtCall(s) /\ EndTask(s) /\ UNCHANGED <<sessions, canceling, down, pending>>
      BY <1>3 DEF Complete, Returns
    <2>2. \A t \in Session \ {s} : messages'[t] = messages[t] /\ final'[t] = final[t]
      BY <1>3 DEF Complete, TypeOK
    <2>3. /\ status'[s] = "completed"
          /\ \A t \in Session \ {s} :
               status'[t] = status[t] /\ events'[t] = events[t] /\ stale'[t] = stale[t]
      BY <1>3 DEF Complete, Settle, Refresh, TypeOK
    <2>4. /\ pc'[s] = "done" /\ kill' = kill /\ fired' = fired \ {s}
          /\ \A t \in Session \ {s} : pc'[t] = pc[t]
      BY <2>1 DEF EndTask, TypeOK
    <2> QED
      BY <2>1, <2>2, <2>3, <2>4 DEF OnlyTouches, Ends, Terminal, AtCall, Live, LivePC
  <1> QED
    BY <1>1, <1>2, <1>3

LEMMA AdvanceStep ==
  ASSUME TypeOK, NEW s \in Session, Advance(s)
  PROVE  /\ Live(s) /\ OnlyTouches(s)
         /\ UNCHANGED <<sessions, canceling, down>>
         /\ Progresses(s) \/ Ends(s) \/ Dropped(s)
  <1>1. CASE TaskStart(s)
    BY <1>1 DEF TaskStart, TypeOK, OnlyTouches, Progresses, Live, LivePC, turn
  <1>2. CASE PlanRefused(s) \/ ProviderFails(s)
    <2>1. /\ EndTask(s) /\ UNCHANGED <<sessions, messages, pending, final, canceling, down>>
          /\ Fail(s, AfterFlush(s)) \/ Fail(s, events[s])
          /\ pc[s] \in {"probe", "call"}
      BY <1>2 DEF PlanRefused, ProbeAnswers, ProviderFails, AtCall
    <2> QED
      BY <2>1, EndingStep DEF Live, LivePC
  <1>3. CASE Timeout(s)
    <2>1. /\ pc[s] \in {"probe", "call"} /\ fired' = fired \cup {s}
          /\ \/ kill' = [kill EXCEPT ![s] = "timeout"]
             \/ Canceling(s) /\ kill' = [kill EXCEPT ![s] = "cancel"]
          /\ UNCHANGED <<sessions, status, events, stale, turn, pc, canceling, down>>
      BY <1>3 DEF Timeout, Timed
    <2> QED
      BY <2>1 DEF TypeOK, OnlyTouches, Progresses, Live, LivePC, turn
  <1>4. CASE CancelUnstarted(s)
    <2>1. /\ pc[s] = "new" /\ kill[s] # "none" /\ pc' = [pc EXCEPT ![s] = "done"]
          /\ fired' = fired \ {s}
          /\ UNCHANGED <<sessions, status, events, stale, turn, kill, canceling, down>>
      BY <1>4 DEF CancelUnstarted, EndTask
    <2> QED
      BY <2>1 DEF TypeOK, OnlyTouches, Dropped, Live, LivePC, turn
  <1>5. ASSUME NEW reduced \in BOOLEAN, PlanCall(s, reduced)
        PROVE  /\ Live(s) /\ OnlyTouches(s)
               /\ UNCHANGED <<sessions, canceling, down>>
               /\ Progresses(s)
    <2>1. /\ pc[s] = "probe" /\ pc' = [pc EXCEPT ![s] = "call"]
          /\ kill[s] = "none" \/ s \in Probing
          /\ kill' = [kill EXCEPT ![s] = "none"]
          /\ \E log : events' = [events EXCEPT ![s] = log]
          /\ \E old : stale' = [stale EXCEPT ![s] = old]
          /\ UNCHANGED <<sessions, status, turn, fired, canceling, down>>
      BY <1>5 DEF PlanCall, ProbeAnswers
    <2> QED
      BY <2>1 DEF TypeOK, OnlyTouches, Progresses, Live, LivePC, turn
  <1>6. ASSUME NEW n \in Fragments, PushText(s, n)
        PROVE  /\ Live(s) /\ OnlyTouches(s)
               /\ UNCHANGED <<sessions, canceling, down>>
               /\ Progresses(s)
    <2>1. /\ pc[s] = "call"
          /\ events' = events \/ \E log : events' = [events EXCEPT ![s] = log]
          /\ stale' = stale \/ stale' = [stale EXCEPT ![s] = FALSE]
          /\ UNCHANGED <<sessions, status, turn, pc, kill, fired, canceling, down>>
      BY <1>6 DEF PushText, AtCall, Log, Refresh
    <2> QED
      BY <2>1 DEF TypeOK, OnlyTouches, Progresses, Live, LivePC, turn
  <1>7. ASSUME NEW n \in ResultSizes(s), NEW ids \in SUBSET ToolId,
               RejectResult(s, n, ids) \/ RequestTools(s, n, ids) \/ Complete(s, n)
        PROVE  /\ Live(s) /\ OnlyTouches(s) /\ Ends(s)
               /\ UNCHANGED <<sessions, canceling, down>>
    BY <1>7, ResultStep
  <1>8. ASSUME NEW raised \in BOOLEAN, Unwind(s, raised)
        PROVE  /\ Live(s) /\ OnlyTouches(s) /\ Ends(s)
               /\ UNCHANGED <<sessions, canceling, down>>
    <2>1. /\ EndTask(s) /\ UNCHANGED <<sessions, messages, pending, final, canceling, down>>
          /\ pc[s] \in {"probe", "call"}
          /\ \/ Fail(s, AfterFlush(s))
             \/ Settle(s, "canceled", "not_validated", AfterFlush(s), "session_canceled")
      BY <1>8 DEF Unwind
    <2> QED
      BY <2>1, EndingStep DEF Live, LivePC
  <1>9. CASE PipeHeld(s) \/ PipeClosed(s)
    <2>1. /\ pc[s] = "call"
          /\ UNCHANGED <<sessions, status, events, stale, turn, pc, kill, fired, canceling, down>>
      BY <1>9 DEF PipeHeld, PipeClosed
    <2> QED
      BY <2>1 DEF OnlyTouches, Progresses, Live, LivePC, turn
  <1> QED
    BY <1>1, <1>2, <1>3, <1>4, <1>5, <1>6, <1>7, <1>8, <1>9 DEF Advance

-----------------------------------------------------------------------------
(* The five ways a call may change the state: a turn starts; the records   *)
(* only lose what no task needs; a cancellation is sent to a task; a       *)
(* session without a live task is settled, or found settled; shutdown      *)
(* meets an expired record and gives up.                                   *)
Starts(s) ==
  /\ closing = "serving" /\ ~Live(s)
  /\ status[s] \in {"none", "waiting_for_tool", "completed"}
  /\ status'[s] = "running" /\ pc'[s] = "new" /\ kill'[s] = "none" /\ ~final'[s]
  /\ OnlyTouches(s)
  /\ fired' = fired /\ (status[s] = "none" \/ ~Canceling(s))
  /\ \A t \in sessions : status[t] = "running" \/ ~stale[t] => t \in sessions'
  /\ \E kept \in SUBSET sessions :
       /\ sessions' = kept \cup {s}
       /\ Cardinality(Running(kept)) < MaxRunning
       /\ s \in kept \/ Cardinality(kept) < MaxSessions
  /\ UNCHANGED <<canceling, down>>

Idles ==
  /\ \A t \in Session :
       /\ status'[t] = status[t] /\ pc'[t] = pc[t] /\ kill'[t] = kill[t]
       /\ final'[t] => final[t]
       /\ t \in fired' <=> t \in fired
       /\ Awaited(t) /\ ~stale[t] => ~stale'[t]
       /\ status[t] \in {"failed", "canceled"} =>
            events'[t] = events[t] /\ messages'[t] = messages[t] /\ pending'[t] = pending[t]
  /\ sessions' \subseteq sessions /\ (closing = "serving" \/ sessions' = sessions)
  /\ \A t \in sessions : status[t] = "running" \/ ~stale[t] => t \in sessions'
  /\ UNCHANGED <<canceling, down>>

Cancels(s) ==
  /\ Live(s) /\ kill'[s] = "cancel"
  /\ \A t \in Session \ {s} : kill'[t] = kill[t]
  /\ \E c \in Callers : canceling' = canceling \cup {<<c, s>>}
  /\ UNCHANGED <<sessions, status, events, stale, turn, pc, fired, closing>>
  /\ left \ {s} \subseteq left' /\ left' \subseteq left

Releases(s) ==
  /\ ~Live(s) /\ status'[s] \in Terminal /\ status'[s] \in {status[s], "canceled"}
  /\ pc' = pc /\ kill' = kill /\ final' = final /\ fired' = fired
  /\ OnlyTouches(s)
  /\ status[s] \in Terminal =>
       UNCHANGED <<status[s], events[s], messages[s], pending[s]>>
  /\ canceling' \subseteq canceling
  /\ \A t \in Session \ {s} : \A c \in Callers :
       <<c, t>> \in canceling => <<c, t>> \in canceling'
  /\ UNCHANGED <<sessions, closing>>
  /\ left \ {s} \subseteq left' /\ left' \subseteq left

Aborts(s) ==
  /\ closing' = "aborted" /\ ~(status[s] = "running") /\ stale[s]
  /\ sessions' = sessions \ {s} /\ left' = left \ {s}
  /\ UNCHANGED <<status, events, stale, turn, pc, kill, fired, canceling>>

LEMMA ResumeStep ==
  ASSUME TypeOK, FinalOnlyCompleted, NEW s \in Session,
         SubmitToolResults(s) \/ ContinueSession(s)
  PROVE  Starts(s) \/ Idles
  <1>1. /\ ~Live(s) /\ closing = "serving" /\ s \in sessions
        /\ status[s] \in {"waiting_for_tool", "completed"}
        /\ UNCHANGED <<sessions, fired, canceling, down>> /\ ~Canceling(s)
        /\ Cardinality(Running(sessions)) < MaxRunning
    BY DEF Awaited, Live, SubmitToolResults, ContinueSession, Found, Resume, Schedulable
  <1>2. /\ ~final'[s]
        /\ \A t \in Session \ {s} :
             final'[t] = final[t] /\ messages'[t] = messages[t] /\ pending'[t] = pending[t]
    <2>1. CASE SubmitToolResults(s)
      <3>1. status[s] = "waiting_for_tool" /\ final' = final
            /\ \A t \in Session \ {s} : messages'[t] = messages[t] /\ pending'[t] = pending[t]
        BY <2>1 DEF SubmitToolResults, TypeOK
      <3>2. ~final[s]
        BY <3>1 DEF FinalOnlyCompleted
      <3> QED
        BY <3>1, <3>2
    <2>2. CASE ContinueSession(s)
      <3>1. final \in [Session -> BOOLEAN] /\ final' = [final EXCEPT ![s] = FALSE]
        BY <2>2 DEF ContinueSession, TypeOK
      <3>2. pending' = pending /\ \A t \in Session \ {s} : messages'[t] = messages[t]
        BY <2>2 DEF ContinueSession, TypeOK
      <3> QED
        BY <3>1, <3>2
    <2> QED
      BY <2>1, <2>2
  <1>3. ~stale'[s] /\ \A t \in Session \ {s} : events'[t] = events[t] /\ stale'[t] = stale[t]
    BY DEF SubmitToolResults, ContinueSession, Resume, Log, Refresh, TypeOK
  <1>4. CASE StartTask(s)
    <2>1. /\ status'[s] = "running" /\ pc'[s] = "new" /\ kill'[s] = "none"
          /\ \A t \in Session \ {s} :
               status'[t] = status[t] /\ pc'[t] = pc[t] /\ kill'[t] = kill[t]
      BY <1>4 DEF StartTask, TypeOK
    <2>2. sessions' = sessions \cup {s}
      BY <1>1
    <2> QED
      BY <1>1, <1>2, <1>3, <2>1, <2>2 DEF Starts, OnlyTouches
  <1>5. CASE UNCHANGED <<status, pc, kill>>
    BY <1>1, <1>2, <1>3, <1>5 DEF Idles
  <1> QED
    BY <1>4, <1>5 DEF SubmitToolResults, ContinueSession, Resume

LEMMA ReleaseStep ==
  ASSUME TypeOK, FinalOnlyCompleted, NEW s \in Session, ~Live(s),
         \/ Settled(s) /\ UNCHANGED <<sessions, status, events, stale, turn, task>>
         \/ CancelRecord(s),
         canceling' \subseteq canceling,
         \A t \in Session \ {s} : \A c \in Callers :
           <<c, t>> \in canceling => <<c, t>> \in canceling',
         Settled(s) => status' = status /\ events' = events /\ turn' = turn,
         UNCHANGED closing, left \ {s} \subseteq left', left' \subseteq left
  PROVE  Releases(s)
  <1>1. CASE Settled(s) /\ UNCHANGED <<sessions, status, events, stale, turn, task>>
    BY <1>1 DEF Releases, Settled, OnlyTouches, turn, task
  <1>2. CASE CancelRecord(s)
    <2>1. /\ UNCHANGED <<sessions, messages, rounds, chars, final, task>>
          /\ status'[s] = "canceled"
          /\ \A t \in Session \ {s} :
               /\ status'[t] = status[t] /\ events'[t] = events[t]
               /\ pending'[t] = pending[t] /\ stale'[t] = stale[t]
      BY <1>2 DEF CancelRecord, Settle, Refresh, TypeOK
    <2> QED
      BY <2>1 DEF Releases, Settled, OnlyTouches, Terminal, turn, task
  <1> QED
    BY <1>1, <1>2

LEMMA CallsStep ==
  ASSUME Ownership, NEW s \in Session, Calls(s)
  PROVE  Starts(s) \/ Idles \/ Cancels(s) \/ Releases(s) \/ Aborts(s)
  <1> USE DEF Ownership
  <1>1. CASE CreateSession(s)
    <2>1. ~Live(s) /\ ~final[s]
      BY <1>1 DEF CreateSession, LiveTaskOwned, FinalOnlyCompleted
    <2>2. /\ status'[s] = "running" /\ pc'[s] = "new" /\ kill'[s] = "none"
          /\ final' = final /\ pending' = pending /\ stale' = stale /\ fired' = fired
          /\ \A t \in Session \ {s} :
               /\ status'[t] = status[t] /\ pc'[t] = pc[t] /\ kill'[t] = kill[t]
               /\ events'[t] = events[t] /\ messages'[t] = messages[t]
      BY <1>1 DEF CreateSession, StartTask, TypeOK
    <2>3. \A t \in sessions : status[t] = "running" \/ ~stale[t] => t \in sessions'
      BY <1>1 DEF CreateSession, Kept, Expired
    <2>4. /\ Kept \in SUBSET sessions /\ sessions' = Kept \cup {s}
          /\ Cardinality(Running(Kept)) < MaxRunning /\ Cardinality(Kept) < MaxSessions
      BY <1>1 DEF CreateSession, Kept
    <2> QED
      BY <1>1, <2>1, <2>2, <2>3, <2>4 DEF Starts, OnlyTouches, CreateSession
  <1>2. CASE SubmitToolResults(s) \/ ContinueSession(s)
    BY <1>2, ResumeStep
  <1>3. CASE RecordExpired(s) \/ Age(s)
    BY <1>3 DEF RecordExpired, Age, Expired, Idles, TypeOK, turn, task
  <1>4. ASSUME NEW c \in Client, Cancel(c, s)
        PROVE  Cancels(s) \/ Releases(s)
    <2>1. CASE CancelTask(c, s)
      <3>1. Live(s) /\ kill'[s] = "cancel" /\ \A t \in Session \ {s} : kill'[t] = kill[t]
        BY <2>1 DEF CancelTask, TypeOK
      <3> QED
        BY <1>4, <2>1, <3>1 DEF Cancel, CancelTask, Cancels, Callers, down
    <2>2. CASE ~Live(s) /\ CancelRecord(s) /\ UNCHANGED canceling
      <3>1. ~Settled(s) /\ UNCHANGED <<closing, left>>
        BY <1>4 DEF Cancel, down
      <3> QED
        BY <2>2, <3>1, ReleaseStep
    <2> QED
      BY <1>4, <2>1, <2>2 DEF Cancel
  <1>5. ASSUME NEW c \in Callers, CancelReturns(c, s)
        PROVE  Releases(s)
    <2>1. ~Live(s) /\ canceling' = canceling \ {<<c, s>>} /\ UNCHANGED <<closing, left>>
      BY <1>5 DEF CancelReturns, down
    <2>2. \A t \in Session \ {s} : \A d \in Callers :
            <<d, t>> \in canceling => <<d, t>> \in canceling'
      BY <2>1
    <2>3. CASE Settled(s)
      BY <1>5, <2>1, <2>2, <2>3, ReleaseStep DEF CancelReturns
    <2>4. CASE ~Settled(s)
      BY <1>5, <2>1, <2>2, <2>4, ReleaseStep DEF CancelReturns
    <2> QED
      BY <2>3, <2>4
  <1>6. CASE ShutdownCancel(s)
    <2>1. closing = "closing" /\ left' = left \ {s}
      BY <1>6 DEF ShutdownCancel
    <2>2. CASE Expired(s)
      BY <1>6, <2>2 DEF ShutdownCancel, Expired, Aborts, turn, task
    <2>3. CASE CancelTask(Lifespan, s) /\ UNCHANGED closing
      <3>1. Live(s) /\ kill'[s] = "cancel" /\ \A t \in Session \ {s} : kill'[t] = kill[t]
        BY <2>3 DEF CancelTask, TypeOK
      <3> QED
        BY <2>1, <2>3, <3>1 DEF CancelTask, Cancels, Callers
    <2>4. CASE /\ ~Live(s) /\ UNCHANGED <<canceling, closing>>
               /\ IF Settled(s)
                  THEN UNCHANGED <<sessions, status, events, stale, turn, task>>
                  ELSE CancelRecord(s)
      <3>1. CASE Settled(s)
        BY <2>1, <2>4, <3>1, ReleaseStep
      <3>2. CASE ~Settled(s)
        BY <2>1, <2>4, <3>2, ReleaseStep
      <3> QED
        BY <3>1, <3>2
    <2> QED
      BY <1>6, <2>2, <2>3, <2>4 DEF ShutdownCancel
  <1> QED
    BY <1>1, <1>2, <1>3, <1>4, <1>5, <1>6 DEF Calls

-----------------------------------------------------------------------------
(* Every step is one of these.                                             *)
TaskStep(s) ==
  /\ Live(s) /\ OnlyTouches(s) /\ UNCHANGED <<sessions, canceling, down>>
  /\ Progresses(s) \/ Ends(s) \/ Dropped(s)

CallStep(s) == Starts(s) \/ Cancels(s) \/ Releases(s) \/ Aborts(s)

ShutdownStep ==
  /\ UNCHANGED <<sessions, status, events, stale, turn, task, canceling>>
  /\ \/ closing' = "closing" /\ left' = sessions
     \/ closing = "closing" /\ canceling = {} /\ left = {} /\ closing' = "closed" /\ left' = {}

LEMMA StepKinds ==
  ASSUME Ownership, [Next]_vars
  PROVE  \/ \E s \in Session : TaskStep(s) \/ CallStep(s)
         \/ Idles \/ ShutdownStep
  <1>1. ASSUME NEW s \in Session, Calls(s) PROVE CallStep(s) \/ Idles
    BY <1>1, CallsStep DEF CallStep
  <1>2. ASSUME NEW s \in Session, Advance(s) PROVE TaskStep(s)
    BY <1>2, AdvanceStep DEF TaskStep, Ownership
  <1>3. CASE CreateRefused
    BY <1>3 DEF CreateRefused, Idles, Kept, Expired, turn, task
  <1>4. CASE ShutdownStart \/ ShutdownEnd
    BY <1>4 DEF ShutdownStart, ShutdownEnd, ShutdownStep
  <1>5. CASE UNCHANGED vars
    BY <1>5 DEF vars, Idles, turn, task
  <1> QED
    BY <1>1, <1>2, <1>3, <1>4, <1>5 DEF Next

LEMMA LiveTaskOwnedStep ==
  ASSUME Ownership, [Next]_vars
  PROVE  LiveTaskOwned' /\ TimerNeedsStart' /\ FinalOnlyCompleted'
  <1> USE DEF Ownership, LiveTaskOwned, TimerNeedsStart, FinalOnlyCompleted, Live, LivePC, Timed
  <1>1. ASSUME NEW s \in Session, TaskStep(s) PROVE LiveTaskOwned' /\ TimerNeedsStart'
    BY <1>1 DEF TaskStep, OnlyTouches, Progresses, Ends, Dropped
  <1>2. ASSUME NEW s \in Session, TaskStep(s) PROVE FinalOnlyCompleted'
    <2>1. ~final[s]
      BY <1>2 DEF TaskStep
    <2> QED
      BY <1>2, <2>1 DEF TaskStep, OnlyTouches, Progresses, Ends, Dropped
  <1>3. ASSUME NEW s \in Session, Starts(s)
        PROVE  LiveTaskOwned' /\ TimerNeedsStart' /\ FinalOnlyCompleted'
    BY <1>3 DEF Starts, OnlyTouches
  <1>4. ASSUME NEW s \in Session, Cancels(s)
        PROVE  LiveTaskOwned' /\ TimerNeedsStart' /\ FinalOnlyCompleted'
    BY <1>4 DEF Cancels, turn
  <1>5. ASSUME NEW s \in Session, Releases(s)
        PROVE  LiveTaskOwned' /\ TimerNeedsStart' /\ FinalOnlyCompleted'
    <2>1. final[s] => status'[s] = "completed"
      BY <1>5 DEF Releases, Terminal
    <2> QED
      BY <1>5, <2>1 DEF Releases, OnlyTouches
  <1>6. ASSUME NEW s \in Session, Aborts(s)
        PROVE  LiveTaskOwned' /\ TimerNeedsStart' /\ FinalOnlyCompleted'
    BY <1>6 DEF Aborts, turn
  <1>7. CASE Idles
    BY <1>7 DEF Idles
  <1>8. CASE ShutdownStep
    BY <1>8 DEF ShutdownStep, turn, task
  <1> QED
    BY <1>1, <1>2, <1>3, <1>4, <1>5, <1>6, <1>7, <1>8, StepKinds DEF CallStep

LEMMA CallerStep ==
  ASSUME Ownership, [Next]_vars
  PROVE  RunningHasTask' /\ CancelHasCaller'
  <1> USE DEF Ownership, RunningHasTask, CancelHasCaller, Canceling, Live, LivePC
  <1>1. ASSUME NEW s \in Session, TaskStep(s) PROVE RunningHasTask' /\ CancelHasCaller'
    <2>1. Dropped(s) => Canceling(s)
      BY <1>1 DEF Dropped, TimerNeedsStart, TypeOK
    <2> QED
      BY <1>1, <2>1 DEF TaskStep, OnlyTouches, Progresses, Ends, Dropped, Terminal
  <1>2. ASSUME NEW s \in Session, Starts(s) PROVE RunningHasTask' /\ CancelHasCaller'
    BY <1>2 DEF Starts, OnlyTouches
  <1>3. ASSUME NEW s \in Session, Cancels(s) PROVE RunningHasTask' /\ CancelHasCaller'
    <2>1. /\ \E c \in Callers : <<c, s>> \in canceling'
          /\ canceling \subseteq canceling'
      BY <1>3 DEF Cancels
    <2> QED
      BY <1>3, <2>1 DEF Cancels
  <1>4. ASSUME NEW s \in Session, Releases(s) PROVE RunningHasTask' /\ CancelHasCaller'
    BY <1>4 DEF Releases, OnlyTouches, Terminal
  <1>5. ASSUME NEW s \in Session, Aborts(s) PROVE RunningHasTask' /\ CancelHasCaller'
    BY <1>5 DEF Aborts
  <1>6. CASE Idles
    BY <1>6 DEF Idles
  <1>7. CASE ShutdownStep
    BY <1>7 DEF ShutdownStep, task
  <1> QED
    BY <1>1, <1>2, <1>3, <1>4, <1>5, <1>6, <1>7, StepKinds DEF CallStep

LEMMA ShutdownProgressStep ==
  ASSUME Ownership, [Next]_vars
  PROVE  ShutdownProgress'
  <1> USE DEF ShutdownProgress, ShutdownSettles, Canceling, Live, LivePC
  <1>1. ASSUME NEW s \in Session, TaskStep(s) PROVE ShutdownProgress'
    <2>1. status[s] = "running" /\ s \in sessions
      BY <1>1 DEF Ownership, LiveTaskOwned, TaskStep
    <2>2. UNCHANGED <<sessions, canceling, closing, left>>
          /\ \A t \in Session \ {s} : status'[t] = status[t] /\ pc'[t] = pc[t]
      BY <1>1 DEF TaskStep, OnlyTouches, down
    <2> QED
      BY <2>1, <2>2 DEF Ownership, TypeOK, Terminal
  <1>2. ASSUME NEW s \in Session, Starts(s) PROVE ShutdownProgress'
    BY <1>2 DEF Starts, down
  <1>3. ASSUME NEW s \in Session, Cancels(s) PROVE ShutdownProgress'
    <2>1. /\ \E c \in Callers : <<c, s>> \in canceling'
          /\ canceling \subseteq canceling' /\ left \ {s} \subseteq left'
          /\ UNCHANGED <<sessions, status, pc, closing>>
      BY <1>3 DEF Cancels
    <2> QED
      BY <2>1 DEF Ownership
  <1>4. ASSUME NEW s \in Session, Releases(s) PROVE ShutdownProgress'
    <2>1. /\ status'[s] \in Terminal /\ pc' = pc /\ pc[s] \notin LivePC
          /\ \A t \in Session \ {s} : status'[t] = status[t]
          /\ \A t \in Session \ {s} : \A c \in Callers :
               <<c, t>> \in canceling => <<c, t>> \in canceling'
          /\ UNCHANGED <<sessions, closing>> /\ left \ {s} \subseteq left'
      BY <1>4 DEF Releases, OnlyTouches
    <2> QED
      BY <2>1 DEF Ownership, TypeOK
  <1>5. ASSUME NEW s \in Session, Aborts(s) PROVE ShutdownProgress'
    BY <1>5 DEF Aborts
  <1>6. CASE Idles
    BY <1>6 DEF Idles, down, Ownership, TypeOK
  <1>7. CASE ShutdownStep
    BY <1>7 DEF ShutdownStep, Ownership, task
  <1> QED
    BY <1>1, <1>2, <1>3, <1>4, <1>5, <1>6, <1>7, StepKinds DEF CallStep

LEMMA InitOwnership == Init => Ownership
  <1> SUFFICES ASSUME Init PROVE Ownership
    OBVIOUS
  <1>1. TypeOK
    BY DEF Init, TypeOK, Statuses, NoEmitter, Emitters
  <1>2. \A s \in Session : status[s] = "none" /\ pc[s] = "none" /\ ~final[s] /\ s \notin fired
    BY DEF Init
  <1> QED
    BY <1>1, <1>2 DEF Init, Ownership, LiveTaskOwned, RunningHasTask, CancelHasCaller,
       TimerNeedsStart, FinalOnlyCompleted, ShutdownProgress, ShutdownSettles, Live, LivePC

LEMMA OwnershipStep == Ownership /\ [Next]_vars => Ownership'
  <1>1. TypeOK /\ [Next]_vars => TypeOK'
    BY TypeStep
  <1> QED
    BY <1>1, LiveTaskOwnedStep, CallerStep, ShutdownProgressStep DEF Ownership

(* The inductive invariant.                                                *)
THEOREM OwnershipInvariant == Spec => []Ownership
  BY InitOwnership, OwnershipStep, PTL DEF Spec

(* No purge, expiry, refusal or cancellation orphans a running task.       *)
THEOREM LiveTaskOwnedThm == Spec => []LiveTaskOwned
  <1>1. Ownership => LiveTaskOwned
    BY DEF Ownership
  <1> QED
    BY <1>1, OwnershipInvariant, PTL

(* No call leaves a session running without anyone to settle it.           *)
THEOREM RunningHasTaskThm == Spec => []RunningHasTask
  <1>1. Ownership => RunningHasTask
    BY DEF Ownership
  <1> QED
    BY <1>1, OwnershipInvariant, PTL

(* shutdown returns only with every session settled and no task alive.     *)
THEOREM ShutdownSettlesThm == Spec => []ShutdownSettles
  <1>1. Ownership => ShutdownSettles
    BY DEF Ownership, ShutdownProgress
  <1> QED
    BY <1>1, OwnershipInvariant, PTL

(* A failed or canceled session keeps its outcome, log and transcript.     *)
THEOREM FailureIsFinalThm == Spec => FailureIsFinal
  <1> DEFINE Kept1(t) == status[t] \in {"failed", "canceled"} =>
                           UNCHANGED <<status[t], events[t], messages[t], pending[t]>>
  <1>1. ASSUME Ownership, [Next]_vars, NEW t \in Session PROVE Kept1(t)
    <2> SUFFICES ASSUME status[t] \in {"failed", "canceled"}
                 PROVE  UNCHANGED <<status[t], events[t], messages[t], pending[t]>>
      OBVIOUS
    <2>1. ASSUME NEW s \in Session, TaskStep(s) \/ Starts(s)
          PROVE  UNCHANGED <<status[t], events[t], messages[t], pending[t]>>
      BY <1>1, <2>1 DEF Ownership, LiveTaskOwned, TaskStep, Starts, OnlyTouches
    <2>2. ASSUME NEW s \in Session, Releases(s)
          PROVE  UNCHANGED <<status[t], events[t], messages[t], pending[t]>>
      BY <2>2 DEF Releases, OnlyTouches, Terminal
    <2>3. ASSUME NEW s \in Session, Cancels(s) \/ Aborts(s)
          PROVE  UNCHANGED <<status[t], events[t], messages[t], pending[t]>>
      BY <2>3 DEF Cancels, Aborts, turn
    <2>4. CASE Idles
      BY <2>4 DEF Idles
    <2>5. CASE ShutdownStep
      BY <2>5 DEF ShutdownStep, turn
    <2> QED
      BY <1>1, <2>1, <2>2, <2>3, <2>4, <2>5, StepKinds DEF CallStep
  <1>2. Ownership /\ [Next]_vars =>
          [\A s \in Session : status[s] \in {"failed", "canceled"} =>
             UNCHANGED <<status[s], events[s], messages[s], pending[s]>>]_vars
    BY <1>1
  <1> QED
    BY <1>2, OwnershipInvariant, PTL DEF Spec, FailureIsFinal

-----------------------------------------------------------------------------
(* A turn that starts adds one session to the registry it leaves, and one  *)
(* to the running ones; nothing else adds any.                             *)
LEMMA StartsWithinCapacity ==
  ASSUME Ownership, CapacityRespected, NEW s \in Session, Starts(s)
  PROVE  CapacityRespected'
  <1>1. PICK kept \in SUBSET sessions :
          /\ sessions' = kept \cup {s}
          /\ Cardinality(Running(kept)) < MaxRunning
          /\ s \in kept \/ Cardinality(kept) < MaxSessions
    BY DEF Starts
  <1>2. IsFiniteSet(kept) /\ IsFiniteSet(Running(kept))
        /\ IsFiniteSet(sessions) /\ IsFiniteSet(Running(kept) \cup {s})
    <2>1. /\ sessions \subseteq Session /\ kept \subseteq Session
          /\ Running(kept) \subseteq Session /\ Running(kept) \cup {s} \subseteq Session
      BY DEF Ownership, TypeOK, Running
    <2> QED
      BY <2>1, SessionsAssumption, FS_Subset
  <1>3. Cardinality(kept) \in Nat /\ Cardinality(Running(kept)) \in Nat
    BY <1>2, FS_CardinalityType
  <1>4. Cardinality(sessions') <= MaxSessions
    <2>1. CASE s \in kept
      <3>1. sessions' = kept /\ kept \subseteq sessions
        BY <1>1, <2>1
      <3>2. Cardinality(kept) <= Cardinality(sessions) /\ Cardinality(sessions) \in Nat
        BY <1>2, <3>1, FS_Subset, FS_CardinalityType
      <3>3. Cardinality(sessions) <= MaxSessions
        BY DEF CapacityRespected
      <3> QED
        BY <1>3, <3>1, <3>2, <3>3, SessionsAssumption
    <2>2. CASE s \notin kept
      <3>1. Cardinality(kept \cup {s}) = Cardinality(kept) + 1
        BY <1>2, <2>2, FS_AddElement
      <3>2. Cardinality(kept) < MaxSessions
        BY <1>1, <2>2
      <3> QED
        BY <1>1, <1>3, <3>1, <3>2, SessionsAssumption
    <2> QED
      BY <2>1, <2>2
  <1>5. Running(sessions)' \subseteq Running(kept) \cup {s}
    BY <1>1 DEF Running, Starts, OnlyTouches, Ownership, TypeOK
  <1>6. Cardinality(Running(kept) \cup {s}) <= MaxRunning
    <2>1. \/ Cardinality(Running(kept) \cup {s}) = Cardinality(Running(kept))
          \/ Cardinality(Running(kept) \cup {s}) = Cardinality(Running(kept)) + 1
      BY <1>2, FS_AddElement
    <2>2. Cardinality(Running(kept)) < MaxRunning
      BY <1>1
    <2> QED
      BY <1>3, <2>1, <2>2, SessionsAssumption
  <1>7. Cardinality(Running(sessions)') <= Cardinality(Running(kept) \cup {s})
        /\ Cardinality(Running(sessions)') \in Nat
        /\ Cardinality(Running(kept) \cup {s}) \in Nat
    <2> DEFINE upper == Running(kept) \cup {s}
               lower == Running(sessions)'
    <2>1. IsFiniteSet(upper) /\ lower \subseteq upper
      BY <1>2, <1>5
    <2> HIDE DEF upper, lower
    <2>2. IsFiniteSet(lower) /\ Cardinality(lower) <= Cardinality(upper)
      BY <2>1, FS_Subset
    <2>3. Cardinality(lower) \in Nat /\ Cardinality(upper) \in Nat
      BY <2>1, <2>2, FS_CardinalityType
    <2> QED
      BY <2>2, <2>3 DEF upper, lower
  <1>8. Cardinality(Running(sessions)') <= MaxRunning
    BY <1>6, <1>7, SessionsAssumption
  <1> QED
    BY <1>4, <1>8 DEF CapacityRespected

LEMMA OthersShrink ==
  ASSUME Ownership, [Next]_vars, \A s \in Session : ~Starts(s)
  PROVE  sessions' \subseteq sessions /\ Running(sessions)' \subseteq Running(sessions)
  <1> USE DEF Running, Ownership, TypeOK
  <1>1. ASSUME NEW s \in Session, TaskStep(s)
        PROVE  sessions' \subseteq sessions /\ Running(sessions)' \subseteq Running(sessions)
    BY <1>1 DEF TaskStep, OnlyTouches, LiveTaskOwned
  <1>2. ASSUME NEW s \in Session, Cancels(s) \/ Aborts(s)
        PROVE  sessions' \subseteq sessions /\ Running(sessions)' \subseteq Running(sessions)
    BY <1>2 DEF Cancels, Aborts
  <1>3. ASSUME NEW s \in Session, Releases(s)
        PROVE  sessions' \subseteq sessions /\ Running(sessions)' \subseteq Running(sessions)
    BY <1>3 DEF Releases, OnlyTouches, Terminal
  <1>4. CASE Idles
    BY <1>4 DEF Idles
  <1>5. CASE ShutdownStep
    BY <1>5 DEF ShutdownStep
  <1> QED
    BY <1>1, <1>2, <1>3, <1>4, <1>5, StepKinds DEF CallStep

LEMMA CapacityStep ==
  ASSUME Ownership, CapacityRespected, [Next]_vars
  PROVE  CapacityRespected'
  <1>1. ASSUME NEW s \in Session, Starts(s) PROVE CapacityRespected'
    BY <1>1, StartsWithinCapacity
  <1>2. CASE \A s \in Session : ~Starts(s)
    <2> DEFINE before == Running(sessions)
               after == Running(sessions)'
    <2>1. sessions' \subseteq sessions /\ after \subseteq before
      BY <1>2, OthersShrink
    <2>2. IsFiniteSet(sessions) /\ IsFiniteSet(before)
      <3>1. sessions \subseteq Session /\ before \subseteq Session
        BY DEF Ownership, TypeOK, Running
      <3> QED
        BY <3>1, SessionsAssumption, FS_Subset
    <2>3. Cardinality(sessions) <= MaxSessions /\ Cardinality(before) <= MaxRunning
      BY DEF CapacityRespected
    <2>4. Cardinality(sessions') <= Cardinality(sessions)
          /\ Cardinality(sessions') \in Nat /\ Cardinality(sessions) \in Nat
      <3>1. IsFiniteSet(sessions') /\ Cardinality(sessions') <= Cardinality(sessions)
        BY <2>1, <2>2, FS_Subset
      <3> QED
        BY <2>2, <3>1, FS_CardinalityType
    <2> HIDE DEF before, after
    <2>5. Cardinality(after) <= Cardinality(before)
          /\ Cardinality(after) \in Nat /\ Cardinality(before) \in Nat
      <3>1. IsFiniteSet(after) /\ Cardinality(after) <= Cardinality(before)
        BY <2>1, <2>2, FS_Subset
      <3> QED
        BY <2>2, <3>1, FS_CardinalityType
    <2>6. Cardinality(sessions') <= MaxSessions /\ Cardinality(after) <= MaxRunning
      BY <2>3, <2>4, <2>5, SessionsAssumption
    <2> QED
      BY <2>6 DEF CapacityRespected, after
  <1> QED
    BY <1>1, <1>2

(* Neither the registry nor the running turns ever exceed their limits.    *)
THEOREM CapacityRespectedThm == Spec => []CapacityRespected
  <1>1. Init => CapacityRespected
    <2> SUFFICES ASSUME Init PROVE CapacityRespected
      OBVIOUS
    <2>1. sessions = {} /\ Running(sessions) = {}
      BY DEF Init, Running
    <2> QED
      BY <2>1, FS_EmptySet, SessionsAssumption DEF CapacityRespected
  <1>2. Ownership /\ CapacityRespected /\ [Next]_vars => CapacityRespected'
    BY CapacityStep
  <1> QED
    BY <1>1, <1>2, OwnershipInvariant, PTL DEF Spec

-----------------------------------------------------------------------------
(* What a session's record keeps through its turns: room in its log, its   *)
(* limits, an answered transcript and a status its log agrees with.  The   *)
(* inductive invariant TurnInv adds them to Ownership.                     *)

(* A turn that runs, or waits for tools, can still log how it ends, and a  *)
(* call not yet planned has the reserve in front of it.                    *)
RoomKept(s) ==
  /\ status[s] \in {"running", "waiting_for_tool"} => Len(events[s]) < MaxEvents
  /\ pc[s] \in {"new", "probe"} => Len(events[s]) <= MaxEvents - Reserve

(* The emitter of a streaming call is sound beside the log and the output  *)
(* the session has left; there is none outside of such a call.             *)
TextKept(s) ==
  /\ chars[s] <= MaxOutput
  /\ IF pc[s] = "call" /\ s \in Streaming
     THEN Sound(emitter[s], Len(events[s]), MaxOutput - chars[s])
     ELSE emitter[s] = NoEmitter

(* A session waits for tools only with a round left, if it can be resumed. *)
RoundsKept(s) ==
  /\ rounds[s] <= MaxRounds
  /\ status[s] = "waiting_for_tool" /\ CallFits(Len(events[s])) => rounds[s] < MaxRounds

Asks(message) == message.role = "assistant" /\ message.ids # {}

Chained(log) ==
  \A i \in 1 .. Len(log) - 1 : Asks(log[i]) => log[i + 1] = ToolMessages(log[i].ids)

(* The requests of a transcript are answered in place, and a turn never    *)
(* starts, nor a session completes, with a request unanswered.             *)
Answered(s) ==
  /\ Chained(messages[s])
  /\ status[s] = "none" => pending[s] = {} /\ events[s] = <<>>
  /\ status[s] # "none" => messages[s] # <<>> /\ events[s] # <<>>
  /\ status[s] = "running" => pending[s] = {} /\ Last(messages[s]).role # "assistant"
  /\ status[s] = "completed" => pending[s] = {} /\ ~Asks(Last(messages[s]))

Agrees(s) == Consistent(s) \/ Stranded(s)

Sane(s) == RoomKept(s) /\ TextKept(s) /\ RoundsKept(s) /\ Answered(s) /\ Agrees(s)

(* A session a caller is canceling exists; if it waits for tools, because  *)
(* its probe lost the cancellation, it is there for that caller to settle. *)
(* A live task that has been asked to stop is on its way out, or lost it.  *)
CancelPending ==
  \A s \in Session :
    /\ Canceling(s) => status[s] # "none"
    /\ Awaited(s) /\ status[s] = "waiting_for_tool" => s \in sessions /\ ~stale[s]
    /\ Live(s) /\ (Canceling(s) \/ s \in fired) /\ kill[s] = "none" => LostInProbe(s)

(* A running session is registered, a registered one has been created, and *)
(* shutdown cancels registered ones.                                       *)
Registered ==
  /\ \A s \in Session : status[s] = "running" => s \in sessions
  /\ \A s \in sessions : status[s] # "none"
  /\ left \subseteq sessions
  /\ closing = "serving" => left = {}

TurnInv ==
  /\ Ownership
  /\ Registered
  /\ CancelPending
  /\ \A s \in Session : Sane(s)

-----------------------------------------------------------------------------
(* The two conjuncts about who is registered and who is being cancelled    *)
(* follow from the kinds of steps.                                         *)

LEMMA RegisteredStep ==
  ASSUME Ownership, Registered, [Next]_vars
  PROVE  Registered'
  <1> USE DEF Ownership, Registered
  <1>1. ASSUME NEW s \in Session, TaskStep(s) PROVE Registered'
    BY <1>1 DEF TaskStep, OnlyTouches, Progresses, Ends, Dropped, Terminal, down,
                LiveTaskOwned, TypeOK
  <1>2. ASSUME NEW s \in Session, Starts(s) PROVE Registered'
    BY <1>2 DEF Starts, OnlyTouches, down, TypeOK
  <1>3. ASSUME NEW s \in Session, Cancels(s) PROVE Registered'
    BY <1>3 DEF Cancels
  <1>4. ASSUME NEW s \in Session, Releases(s) PROVE Registered'
    BY <1>4 DEF Releases, OnlyTouches, Terminal, TypeOK
  <1>5. ASSUME NEW s \in Session, Aborts(s) PROVE Registered'
    BY <1>5 DEF Aborts
  <1>6. CASE Idles
    BY <1>6 DEF Idles, down, TypeOK
  <1>7. CASE ShutdownStep
    BY <1>7 DEF ShutdownStep
  <1> QED
    BY <1>1, <1>2, <1>3, <1>4, <1>5, <1>6, <1>7, StepKinds DEF CallStep

LEMMA CancelPendingStep ==
  ASSUME Ownership, CancelPending, [Next]_vars
  PROVE  CancelPending'
  <1> USE DEF CancelPending, Canceling, Awaited, LostInProbe, Live, LivePC
  <1>1. ASSUME NEW s \in Session, TaskStep(s) PROVE CancelPending'
    <2>1. /\ status[s] = "running" /\ s \in sessions
          /\ canceling' = canceling /\ sessions' = sessions
      BY <1>1 DEF TaskStep, Ownership, LiveTaskOwned
    <2>2. \A t \in Session \ {s} :
            /\ status'[t] = status[t] /\ pc'[t] = pc[t] /\ kill'[t] = kill[t]
            /\ stale'[t] = stale[t] /\ (t \in fired' <=> t \in fired)
      BY <1>1 DEF TaskStep, OnlyTouches
    <2>3. CASE Progresses(s)
      <3>1. /\ status'[s] = "running" /\ pc'[s] \in {"probe", "call"}
            /\ (Canceling(s) \/ s \in fired') /\ kill'[s] = "none" => s \in Probing /\ pc'[s] = "call"
        BY <1>1, <2>1, <2>3 DEF TaskStep, Progresses
      <3> QED
        BY <2>1, <2>2, <3>1
    <2>4. CASE Ends(s)
      BY <2>1, <2>2, <2>4 DEF Ends, Terminal
    <2>5. CASE Dropped(s)
      BY <2>1, <2>2, <2>5 DEF Dropped
    <2> QED
      BY <1>1, <2>3, <2>4, <2>5 DEF TaskStep
  <1>2. ASSUME NEW s \in Session, Starts(s) PROVE CancelPending'
    <2>1. s \notin fired /\ ~Canceling(s)
      BY <1>2 DEF Starts, Ownership, TimerNeedsStart, Timed
    <2> QED
      BY <1>2, <2>1 DEF Starts, OnlyTouches
  <1>3. ASSUME NEW s \in Session, Cancels(s) PROVE CancelPending'
    <2>1. PICK c \in Callers : canceling' = canceling \cup {<<c, s>>}
      BY <1>3 DEF Cancels
    <2>2. status[s] = "running"
      BY <1>3 DEF Cancels, Ownership, LiveTaskOwned
    <2> QED
      BY <1>3, <2>1, <2>2 DEF Cancels
  <1>4. ASSUME NEW s \in Session, Releases(s) PROVE CancelPending'
    BY <1>4 DEF Releases, OnlyTouches, Terminal
  <1>5. ASSUME NEW s \in Session, Aborts(s) PROVE CancelPending'
    BY <1>5 DEF Aborts
  <1>6. CASE Idles
    BY <1>6 DEF Idles
  <1>7. CASE ShutdownStep
    BY <1>7 DEF ShutdownStep, task
  <1> QED
    BY <1>1, <1>2, <1>3, <1>4, <1>5, <1>6, <1>7, StepKinds DEF CallStep

-----------------------------------------------------------------------------
(* Sequences.                                                              *)

LEMMA Appended ==
  ASSUME NEW T, NEW log \in Seq(T), NEW a \in T
  PROVE  /\ Append(log, a) \in Seq(T) /\ Append(log, a) # <<>>
         /\ Append(log, a) = log \o <<a>>
         /\ Len(log) \in Nat /\ Len(Append(log, a)) = Len(log) + 1
         /\ Last(Append(log, a)) = a
         /\ \A i \in 1 .. Len(log) : Append(log, a)[i] = log[i]
  BY DEF Last

LEMMA AppendedPair ==
  ASSUME NEW T, NEW log \in Seq(T), NEW a \in T, NEW b \in T
  PROVE  log \o <<a, b>> = Append(Append(log, a), b)
  OBVIOUS

LEMMA SingletonsConcat ==
  ASSUME NEW a \in EventTypes, NEW b \in EventTypes
  PROVE  <<a>> \o <<b>> = <<a, b>>
  <1>1. <<a>> \in Seq(EventTypes) /\ Len(<<a>>) = 1 /\ <<a>>[1] = a
        /\ <<b>> \in Seq(EventTypes) /\ Len(<<b>>) = 1 /\ <<b>>[1] = b
    OBVIOUS
  <1>2. <<a, b>> \in Seq(EventTypes) /\ Len(<<a, b>>) = 2
        /\ <<a, b>>[1] = a /\ <<a, b>>[2] = b
    OBVIOUS
  <1> DEFINE joined == <<a>> \o <<b>>
  <1>3. joined \in Seq(EventTypes) /\ Len(joined) = 2 /\ joined[1] = a /\ joined[2] = b
    BY <1>1, ConcatProperties
  <1> HIDE DEF joined
  <1>4. joined = <<a, b>>
    BY <1>2, <1>3, SeqEqual
  <1> QED
    BY <1>4 DEF joined

LEMMA TextThenOutcome ==
  ASSUME NEW log \in Seq(EventTypes), NEW type \in EventTypes,
         NEW text \in {<<>>, <<"assistant_text_delta">>}
  PROVE  Append(log \o text, type) = log \o (text \o <<type>>)
  <1>1. CASE text = <<>>
    <2>1. log \o text = log
      BY <1>1, ConcatEmptySeq
    <2>2. <<type>> \in Seq(EventTypes)
      OBVIOUS
    <2>3. <<>> \o <<type>> = <<type>>
      BY <2>2, ConcatEmptySeq
    <2> QED
      BY <1>1, <2>1, <2>3, Appended
  <1>2. CASE text = <<"assistant_text_delta">>
    <2>1. "assistant_text_delta" \in EventTypes
      BY DEF EventTypes
    <2>2. log \o text = Append(log, "assistant_text_delta")
      BY <1>2, <2>1, Appended
    <2>3. <<"assistant_text_delta">> \o <<type>> = <<"assistant_text_delta", type>>
      BY <2>1, SingletonsConcat
    <2> QED
      BY <1>2, <2>1, <2>2, <2>3, AppendedPair
  <1> QED
    BY <1>1, <1>2

(* A transcript stays answered when the next message answers its last.     *)
LEMMA ChainAppend ==
  ASSUME NEW log \in Seq(Messages), NEW m \in Messages, Chained(log),
         log # <<>> /\ Asks(Last(log)) => m = ToolMessages(Last(log).ids)
  PROVE  Chained(Append(log, m))
  <1> DEFINE longer == Append(log, m)
  <1>1. /\ Len(log) \in Nat /\ Len(longer) = Len(log) + 1
        /\ \A i \in 1 .. Len(log) : longer[i] = log[i]
        /\ longer[Len(log) + 1] = m
    OBVIOUS
  <1> HIDE DEF longer
  <1>2. ASSUME NEW i \in 1 .. Len(longer) - 1, Asks(longer[i])
        PROVE  longer[i + 1] = ToolMessages(longer[i].ids)
    <2>1. i \in 1 .. Len(log) /\ longer[i] = log[i]
      BY <1>1
    <2>2. CASE i = Len(log)
      <3>1. log # <<>> /\ Asks(Last(log)) /\ longer[i + 1] = m
        BY <1>1, <1>2, <2>1, <2>2 DEF Last
      <3> QED
        BY <2>1, <2>2, <3>1 DEF Last
    <2>3. CASE i # Len(log)
      BY <1>1, <1>2, <2>1, <2>3 DEF Chained
    <2> QED
      BY <2>2, <2>3
  <1> QED
    BY <1>2 DEF Chained, longer

-----------------------------------------------------------------------------
(* A step that changes one record only.                                    *)

Untouched(t) ==
  /\ status'[t] = status[t] /\ events'[t] = events[t] /\ messages'[t] = messages[t]
  /\ pending'[t] = pending[t] /\ rounds'[t] = rounds[t] /\ chars'[t] = chars[t]
  /\ final'[t] = final[t] /\ validation'[t] = validation[t]
  /\ pc'[t] = pc[t] /\ emitter'[t] = emitter[t]

Others(s) == \A t \in Session \ {s} : Untouched(t)

LEMMA UntouchedStaysSane ==
  ASSUME NEW t \in Session, Sane(t), Untouched(t)
  PROVE  Sane(t)'
  <1> USE DEF Untouched, Sane
  <1>1. RoomKept(t)'
    BY DEF RoomKept
  <1>2. TextKept(t)'
    BY DEF TextKept, Sound, Sized, Counted
  <1>3. RoundsKept(t)' /\ Answered(t)'
    BY DEF RoundsKept, Answered
  <1>4. Agrees(t)'
    BY DEF Agrees, Consistent, Stranded
  <1> QED
    BY <1>1, <1>2, <1>3, <1>4

LEMMA OneRecord ==
  ASSUME \A t \in Session : Sane(t), NEW s \in Session, Others(s), Sane(s)'
  PROVE  \A t \in Session : Sane(t)'
  BY UntouchedStaysSane DEF Others

(* What the invariant says of a session whose task is alive.               *)
LEMMA LiveRecord ==
  ASSUME TurnInv, NEW s \in Session, Live(s)
  PROVE  /\ status[s] = "running" /\ s \in sessions
         /\ events[s] \in Seq(EventTypes) /\ Len(events[s]) \in Nat /\ Len(events[s]) < MaxEvents
         /\ events[s] # <<>> /\ messages[s] \in Seq(Messages) /\ messages[s] # <<>>
         /\ pending[s] = {} /\ Last(messages[s]).role # "assistant"
  BY DEF TurnInv, Ownership, LiveTaskOwned, TypeOK, Sane, RoomKept, Answered

(* The final flush of a call is never refused, and the log it leaves takes *)
(* the event that ends the turn.                                           *)
LEMMA FlushedLog ==
  ASSUME TurnInv, NEW s \in Session, Live(s)
  PROVE  /\ ~FlushRaises(s)
         /\ AfterFlush(s) \in Seq(EventTypes) /\ Len(AfterFlush(s)) < MaxEvents
         /\ \E text \in {<<>>, <<"assistant_text_delta">>} : AfterFlush(s) = events[s] \o text
  <1>1. events[s] \in Seq(EventTypes) /\ Len(events[s]) \in Nat /\ Len(events[s]) < MaxEvents
    BY LiveRecord
  <1>2. CASE MustFlush(s)
    <2>1. pc[s] = "call" /\ s \in Streaming
      BY <1>2 DEF MustFlush, TurnInv, Sane, TextKept, NoEmitter
    <2>2. /\ emitter[s] \in Emitters /\ MaxOutput - chars[s] \in Nat
          /\ Sound(emitter[s], Len(events[s]), MaxOutput - chars[s])
      BY <2>1, SessionsAssumption DEF TurnInv, Sane, TextKept, Ownership, TypeOK
    <2>3. CanFlush(emitter[s], Len(events[s]))
      <3>1. 0 \in Nat
        OBVIOUS
      <3> QED
        BY <1>1, <2>2, <3>1, FlushHasRoom
    <2>4. Len(events[s]) < MaxEvents - 1
      BY <2>3 DEF CanFlush, HasRoom, EventLimit, TerminalEventTypes
    <2>5. ~FlushRaises(s) /\ AfterFlush(s) = Append(events[s], "assistant_text_delta")
      BY <1>2, <2>3 DEF FlushRaises, AfterFlush
    <2>6. "assistant_text_delta" \in EventTypes
      BY DEF EventTypes
    <2> QED
      BY <1>1, <2>4, <2>5, <2>6, Appended, EventLogAssumption
  <1>3. CASE ~MustFlush(s)
    <2>1. ~FlushRaises(s) /\ AfterFlush(s) = events[s]
      BY <1>3 DEF FlushRaises, AfterFlush
    <2>2. events[s] = events[s] \o <<>>
      BY <1>1
    <2> QED
      BY <1>1, <2>1, <2>2
  <1> QED
    BY <1>2, <1>3

(* An outcome event is never lost: a log that has room takes it.           *)
LEMMA OutcomeLogged ==
  ASSUME TypeOK, NEW s \in Session, NEW log \in Seq(EventTypes), Len(log) < MaxEvents,
         NEW type \in TerminalEventTypes, NEW outcome, NEW verdict,
         Settle(s, outcome, verdict, log, type)
  PROVE  /\ status' = [status EXCEPT ![s] = outcome]
         /\ validation' = [validation EXCEPT ![s] = verdict]
         /\ events' = [events EXCEPT ![s] = Append(log, type)]
  BY DEF Settle, HasRoom, EventLimit

-----------------------------------------------------------------------------
(* The public lifecycle.  Each lemma gives a step of the service that is a *)
(* step of the lifecycle.                                                  *)

LEMMA PhaseOf ==
  ASSUME NEW s \in Session, s \in sessions
  PROVE  Phase[s] = status[s]
  BY DEF Phase

(* A step that leaves the registry alone moves the phase of one session.   *)
LEMMA PhaseMoves ==
  ASSUME TypeOK, NEW s \in Session, s \in sessions, UNCHANGED sessions, NEW p,
         status' = [status EXCEPT ![s] = p]
  PROVE  Phase' = [Phase EXCEPT ![s] = p]
  BY DEF Phase, TypeOK

LEMMA EndTurnImplemented ==
  ASSUME TypeOK, NEW s \in Session, s \in sessions, status[s] = "running", UNCHANGED sessions,
         NEW type \in DOMAIN Lifecycle!Outcome,
         NEW text \in {<<>>, <<"assistant_text_delta">>},
         status' = [status EXCEPT ![s] = Lifecycle!Outcome[type]],
         events' = [events EXCEPT ![s] = @ \o (text \o <<type>>)]
  PROVE  Lifecycle!EndTurn(s)
  <1>1. Phase[s] = "running" /\ Phase' = [Phase EXCEPT ![s] = Lifecycle!Outcome[type]]
    BY PhaseOf, PhaseMoves
  <1> QED
    BY <1>1 DEF Lifecycle!EndTurn, Lifecycle!Enter, Lifecycle!Grow

LEMMA ForgetImplemented ==
  ASSUME TypeOK, Registered, NEW S \in SUBSET sessions, \A s \in S : status[s] # "running",
         sessions' = sessions \ S, UNCHANGED <<status, events>>
  PROVE  Lifecycle!Forget(S) /\ S \in SUBSET Session
  <1>1. S \subseteq Session /\ \A s \in S : Phase[s] \notin {"none", "running", "forgotten"}
    BY DEF TypeOK, Registered, Phase, Statuses, Terminal
  <1>2. Phase' = [s \in Session |-> IF s \in S THEN "forgotten" ELSE Phase[s]]
    BY DEF Phase, Registered
  <1> QED
    BY <1>1, <1>2 DEF Lifecycle!Forget

LEMMA OpenImplemented ==
  ASSUME TurnInv, NEW s \in Session, CreateSession(s)
  PROVE  Lifecycle!Open(s, sessions \ Kept) /\ (sessions \ Kept) \in SUBSET Session
  <1> DEFINE S == sessions \ Kept
  <1>1. s \notin sessions /\ Phase[s] = "none"
    BY DEF CreateSession, TurnInv, Registered, Phase
  <1>2. S \subseteq Session /\ \A t \in S : Phase[t] \notin {"none", "running", "forgotten"}
    BY DEF TurnInv, Ownership, TypeOK, Registered, Phase, Statuses, Terminal, Kept, Expired
  <1>3. status' = [status EXCEPT ![s] = "running"] /\ sessions' = Kept \cup {s}
    BY DEF CreateSession, StartTask
  <1>4. Kept \subseteq sessions
    BY DEF Kept
  <1>5. Phase' = [t \in Session |-> IF t = s THEN "running"
                                   ELSE IF t \in S THEN "forgotten" ELSE Phase[t]]
    BY <1>1, <1>3, <1>4 DEF Phase, TurnInv, Registered, Ownership, TypeOK
  <1>6. events' = [events EXCEPT ![s] = @ \o <<"session_created", "provider_started">>]
    <2>1. events[s] = <<>>
      BY DEF TurnInv, Sane, Answered, CreateSession
    <2>2. <<>> \o <<"session_created", "provider_started">> = <<"session_created", "provider_started">>
      OBVIOUS
    <2> QED
      BY <2>1, <2>2 DEF CreateSession
  <1> QED
    BY <1>1, <1>2, <1>5, <1>6 DEF Lifecycle!Open, Lifecycle!Grow

-----------------------------------------------------------------------------
(* The steps of a task: one lemma per step, which keeps the record sane    *)
(* and is a step of the lifecycle or leaves it unchanged.                  *)

LEMMA QuietTaskKeeps ==
  ASSUME TurnInv, NEW s \in Session,
         \/ TaskStart(s) \/ Timeout(s) \/ CancelUnstarted(s)
         \/ PipeHeld(s) \/ PipeClosed(s)
  PROVE  (\A t \in Session : Sane(t)') /\ UNCHANGED Lifecycle!vars
  <1>1. UNCHANGED <<sessions, status, events, turn>>
    BY DEF TaskStart, Timeout, CancelUnstarted, PipeHeld, PipeClosed
  <1>2. \A t \in Session \ {s} : pc'[t] = pc[t] /\ emitter'[t] = emitter[t]
    BY DEF TurnInv, Ownership, TypeOK, TaskStart, Timeout, CancelUnstarted, PipeHeld,
           PipeClosed, EndTask
  <1>3. Others(s)
    BY <1>1, <1>2 DEF Others, Untouched, turn
  <1>4. \/ pc'[s] = pc[s] /\ emitter'[s] = emitter[s]
        \/ pc[s] = "new" /\ pc'[s] \in {"probe", "done"} /\ emitter'[s] \in {emitter[s], NoEmitter}
    BY DEF TurnInv, Ownership, TypeOK, TaskStart, Timeout, CancelUnstarted, PipeHeld,
           PipeClosed, EndTask
  <1>5. Sane(s)'
    <2>1. Sane(s)
      BY DEF TurnInv
    <2>2. TextKept(s)'
      BY <1>1, <1>4, <2>1 DEF Sane, TextKept, Sound, Sized, Counted, turn
    <2>3. RoomKept(s)' /\ RoundsKept(s)' /\ Answered(s)'
      BY <1>1, <1>4, <2>1 DEF Sane, RoomKept, RoundsKept, Answered, turn
    <2>4. Agrees(s)'
      BY <1>1, <2>1 DEF Sane, Agrees, Consistent, Stranded, turn
    <2> QED
      BY <2>2, <2>3, <2>4 DEF Sane
  <1>6. UNCHANGED Lifecycle!vars
    BY <1>1 DEF Lifecycle!vars, Phase
  <1> QED
    BY <1>3, <1>5, <1>6, OneRecord DEF TurnInv

(* A plan or a fragment: the turn goes on, with at most one event more.    *)
LEMMA TurnGoesOn ==
  ASSUME TurnInv, NEW s \in Session, Live(s), pc' = [pc EXCEPT ![s] = "call"],
         UNCHANGED <<sessions, status, turn>>,
         \/ UNCHANGED events
         \/ \E e \in Lifecycle!Progress : events' = [events EXCEPT ![s] = Append(@, e)],
         Len(events'[s]) < MaxEvents,
         \A t \in Session \ {s} : emitter'[t] = emitter[t],
         TextKept(s)'
  PROVE  (\A t \in Session : Sane(t)') /\ [Lifecycle!Next]_(Lifecycle!vars)
  <1>1. status[s] = "running" /\ s \in sessions
        /\ events[s] \in Seq(EventTypes) /\ events[s] # <<>>
    BY LiveRecord
  <1>2. Others(s)
    BY DEF TurnInv, Ownership, TypeOK, Others, Untouched, turn
  <1>3. pc'[s] = "call" /\ events'[s] # <<>>
    <2>1. pc'[s] = "call"
      BY DEF TurnInv, Ownership, TypeOK
    <2>2. CASE UNCHANGED events
      BY <1>1, <2>1, <2>2
    <2>3. ASSUME NEW e \in Lifecycle!Progress, events' = [events EXCEPT ![s] = Append(@, e)]
          PROVE  events'[s] # <<>>
      <3>1. e \in EventTypes /\ events'[s] = Append(events[s], e)
        BY <2>3 DEF Lifecycle!Progress, EventTypes, TurnInv, Ownership, TypeOK
      <3> QED
        BY <1>1, <3>1, Appended
    <2> QED
      BY <2>1, <2>2, <2>3
  <1>4. Sane(s)'
    <2>1. Sane(s)
      BY DEF TurnInv
    <2>2. RoomKept(s)' /\ RoundsKept(s)' /\ Answered(s)'
      BY <1>1, <1>3, <2>1 DEF Sane, RoomKept, RoundsKept, Answered, turn
    <2>3. Agrees(s)'
      BY <1>1 DEF Agrees, Consistent
    <2> QED
      BY <2>2, <2>3 DEF Sane
  <1>5. [Lifecycle!Next]_(Lifecycle!vars)
    <2>1. CASE UNCHANGED events
      BY <2>1 DEF Lifecycle!vars, Phase
    <2>2. ASSUME NEW e \in Lifecycle!Progress, events' = [events EXCEPT ![s] = Append(@, e)]
          PROVE  Lifecycle!Report(s)
      <3>1. Phase[s] = "running" /\ Phase' = Phase
        BY <1>1 DEF Phase
      <3>2. Append(events[s], e) = events[s] \o <<e>>
        BY <1>1 DEF Lifecycle!Progress, EventTypes
      <3> QED
        BY <2>2, <3>1, <3>2 DEF Lifecycle!Report, Lifecycle!Grow
    <2> QED
      BY <2>1, <2>2 DEF Lifecycle!Next
  <1> QED
    BY <1>2, <1>4, <1>5, OneRecord DEF TurnInv

LEMMA PlanCallKeeps ==
  ASSUME TurnInv, NEW s \in Session, NEW reduced \in BOOLEAN, PlanCall(s, reduced)
  PROVE  (\A t \in Session : Sane(t)') /\ [Lifecycle!Next]_(Lifecycle!vars)
  <1> DEFINE log == IF reduced THEN Append(events[s], "context_reduced") ELSE events[s]
  <1>1. Live(s) /\ pc[s] = "probe" /\ pc' = [pc EXCEPT ![s] = "call"]
        /\ UNCHANGED <<sessions, status, turn>>
    BY DEF PlanCall, ProbeAnswers, Live, LivePC
  <1>2. events[s] \in Seq(EventTypes) /\ Len(events[s]) \in Nat
        /\ Len(events[s]) <= MaxEvents - Reserve
    BY <1>1, LiveRecord DEF TurnInv, Sane, RoomKept
  <1>3. log \in Seq(EventTypes) /\ Len(log) \in Nat /\ Len(log) < MaxEvents
    <2>1. "context_reduced" \in EventTypes
      BY DEF EventTypes
    <2> QED
      BY <1>2, <2>1, Appended, EventLogAssumption
  <1>4. events' = [events EXCEPT ![s] = log] /\ events'[s] = log
    BY DEF PlanCall, TurnInv, Ownership, TypeOK
  <1>5. \/ UNCHANGED events
        \/ \E e \in Lifecycle!Progress : events' = [events EXCEPT ![s] = Append(@, e)]
    BY <1>4 DEF TurnInv, Ownership, TypeOK, Lifecycle!Progress
  <1>6. TextKept(s)'
    <2> HIDE DEF log
    <2>1. emitter' = [emitter EXCEPT ![s] =
            IF s \in Streaming THEN NewEmitter(Len(log), MaxOutput - chars[s]) ELSE @]
          /\ (s \in Streaming => EventBudget(Len(log)) >= 2)
      BY DEF PlanCall, log
    <2>2. pc'[s] = "call" /\ chars'[s] = chars[s]
          /\ emitter'[s] = IF s \in Streaming THEN NewEmitter(Len(log), MaxOutput - chars[s])
                           ELSE emitter[s]
      BY <1>1, <2>1 DEF TurnInv, Ownership, TypeOK, turn
    <2>3. chars[s] <= MaxOutput /\ MaxOutput - chars[s] \in Nat /\ emitter[s] = NoEmitter
      BY <1>1, SessionsAssumption DEF TurnInv, Sane, TextKept, Ownership, TypeOK
    <2>4. CASE s \in Streaming
      <3>1. Sound(emitter'[s], Len(log), MaxOutput - chars[s])
        BY <1>3, <2>1, <2>2, <2>3, <2>4, NewEmitterSound
      <3>2. Sound(emitter[s], Len(events[s]), MaxOutput - chars[s])'
        BY <1>4, <2>2, <3>1
      <3> QED
        BY <2>2, <2>3, <2>4, <3>2 DEF TextKept
    <2>5. CASE s \notin Streaming
      BY <2>2, <2>3, <2>5 DEF TextKept
    <2> QED
      BY <2>4, <2>5
  <1>7. \A t \in Session \ {s} : emitter'[t] = emitter[t]
    BY DEF PlanCall, TurnInv, Ownership, TypeOK
  <1> HIDE DEF log
  <1> QED
    BY <1>1, <1>3, <1>4, <1>5, <1>6, <1>7, TurnGoesOn

LEMMA PushTextKeeps ==
  ASSUME TurnInv, NEW s \in Session, NEW n \in Fragments, PushText(s, n)
  PROVE  (\A t \in Session : Sane(t)') /\ [Lifecycle!Next]_(Lifecycle!vars)
  <1> DEFINE em == Buffer(emitter[s], n)
             remaining == MaxOutput - chars[s]
  <1>1. Live(s) /\ pc[s] = "call" /\ s \in Streaming /\ UNCHANGED <<sessions, status, turn, pc>>
        /\ chars[s] + em.text <= MaxOutput
    BY DEF PushText, AtCall, Live, LivePC
  <1>2. events[s] \in Seq(EventTypes) /\ Len(events[s]) \in Nat /\ Len(events[s]) < MaxEvents
    BY <1>1, LiveRecord
  <1>3. /\ emitter[s] \in Emitters /\ chars[s] \in Nat /\ chars[s] <= MaxOutput
        /\ remaining \in Nat /\ n \in Nat \ {0}
        /\ Sound(emitter[s], Len(events[s]), remaining)
    BY <1>1, SessionsAssumption DEF TurnInv, Sane, TextKept, Ownership, TypeOK
  <1>4. em.text = emitter[s].text + n /\ emitter[s].text \in Nat
    BY <1>3, BufferFields DEF Emitters
  <1>5. emitter[s].text + n <= remaining
    <2> HIDE DEF em
    <2> QED
      BY <1>1, <1>3, <1>4, SessionsAssumption
  <1>6. pc' = [pc EXCEPT ![s] = "call"]
    BY <1>1 DEF TurnInv, Ownership, TypeOK
  <1> HIDE DEF em
  <1>7. CASE FlushDue(em)
    <2>1. emitter' = [emitter EXCEPT ![s] = Flushed(em)]
          /\ events' = [events EXCEPT ![s] = @ \o <<"assistant_text_delta">>]
      BY <1>7 DEF PushText, Log, em
    <2>2. "assistant_text_delta" \in EventTypes /\ "assistant_text_delta" \in Lifecycle!Progress
      BY DEF EventTypes, Lifecycle!Progress
    <2>3. events' = [events EXCEPT ![s] = Append(@, "assistant_text_delta")]
          /\ events'[s] = Append(events[s], "assistant_text_delta")
          /\ Len(events'[s]) = Len(events[s]) + 1
      <3>1. Append(events[s], "assistant_text_delta") = events[s] \o <<"assistant_text_delta">>
            /\ Len(Append(events[s], "assistant_text_delta")) = Len(events[s]) + 1
        BY <1>2, <2>2, Appended
      <3> QED
        BY <2>1, <3>1 DEF TurnInv, Ownership, TypeOK
    <2>4. CanFlush(em, Len(events[s]))
      BY <1>2, <1>3, FlushHasRoom DEF em
    <2>5. Len(events'[s]) < MaxEvents
      BY <1>2, <2>3, <2>4, EventLogAssumption
         DEF CanFlush, HasRoom, EventLimit, TerminalEventTypes
    <2>6. Sound(Flushed(em), Len(events[s]) + 1, remaining)
      BY <1>2, <1>3, <1>5, <1>7, PushSound DEF em
    <2>7. emitter'[s] = Flushed(em) /\ \A t \in Session \ {s} : emitter'[t] = emitter[t]
      BY <2>1 DEF TurnInv, Ownership, TypeOK
    <2>8. TextKept(s)'
      BY <1>1, <1>3, <2>3, <2>6, <2>7 DEF TextKept, turn
    <2> QED
      BY <1>1, <1>6, <2>2, <2>3, <2>5, <2>7, <2>8, TurnGoesOn
  <1>8. CASE ~FlushDue(em)
    <2>1. emitter' = [emitter EXCEPT ![s] = em] /\ UNCHANGED events
      BY <1>8 DEF PushText, em
    <2>2. Sound(em, Len(events[s]), remaining)
      BY <1>2, <1>3, <1>5, <1>8, PushSound DEF em
    <2>3. emitter'[s] = em /\ \A t \in Session \ {s} : emitter'[t] = emitter[t]
      BY <2>1 DEF TurnInv, Ownership, TypeOK
    <2>4. TextKept(s)'
      BY <1>1, <1>3, <2>1, <2>2, <2>3 DEF TextKept, turn
    <2> QED
      BY <1>1, <1>2, <1>6, <2>1, <2>3, <2>4, TurnGoesOn
  <1> QED
    BY <1>7, <1>8

(* Whatever ends a turn: its outcome is logged, after the buffered text if *)
(* any, and names the new status.                                          *)
LEMMA TurnEndKeeps ==
  ASSUME TurnInv, NEW s \in Session, Live(s), EndTask(s),
         NEW type \in DOMAIN Lifecycle!Outcome, NEW log \in {events[s], AfterFlush(s)},
         HasRoom(Len(log), type),
         status' = [status EXCEPT ![s] = Lifecycle!Outcome[type]],
         events' = [events EXCEPT ![s] = Append(log, type)],
         UNCHANGED <<sessions, rounds>>,
         \A t \in Session \ {s} :
           /\ messages'[t] = messages[t] /\ pending'[t] = pending[t] /\ chars'[t] = chars[t]
           /\ final'[t] = final[t] /\ validation'[t] = validation[t],
         chars'[s] <= MaxOutput,
         type = "tool_requests" => rounds[s] < MaxRounds,
         messages'[s] # <<>> /\ Chained(messages'[s]),
         type = "session_completed" => pending'[s] = {} /\ ~Asks(Last(messages'[s])),
         Last(events'[s]) = type => Consistent(s)'
  PROVE  (\A t \in Session : Sane(t)') /\ [Lifecycle!Next]_(Lifecycle!vars)
  <1>1. /\ status[s] = "running" /\ s \in sessions
        /\ events[s] \in Seq(EventTypes) /\ events[s] # <<>>
    BY LiveRecord
  <1>2. log \in Seq(EventTypes) /\ Len(log) \in Nat /\ type \in EventTypes
    BY <1>1, FlushedLog DEF Lifecycle!Outcome, EventTypes, TerminalEventTypes
  <1>3. PICK text \in {<<>>, <<"assistant_text_delta">>} : log = events[s] \o text
    <2>1. events[s] = events[s] \o <<>>
      BY <1>1
    <2> QED
      BY <2>1, FlushedLog
  <1>4. /\ status'[s] = Lifecycle!Outcome[type] /\ pc'[s] = "done" /\ emitter'[s] = NoEmitter
        /\ events'[s] = Append(log, type)
        /\ rounds' = rounds
        /\ \A t \in Session \ {s} : /\ status'[t] = status[t] /\ events'[t] = events[t]
                                    /\ pc'[t] = pc[t] /\ emitter'[t] = emitter[t]
    BY DEF EndTask, TurnInv, Ownership, TypeOK
  <1>5. Others(s)
    BY <1>4 DEF Others, Untouched
  <1>6. /\ events'[s] # <<>> /\ Last(events'[s]) = type /\ Len(events'[s]) = Len(log) + 1
        /\ Append(log, type) = log \o <<type>>
    <2>1. /\ Append(log, type) # <<>> /\ Last(Append(log, type)) = type
          /\ Len(Append(log, type)) = Len(log) + 1 /\ Append(log, type) = log \o <<type>>
      BY <1>2, Appended
    <2> QED
      BY <1>4, <2>1
  <1>7. Sane(s)'
    <2>1. RoomKept(s)'
      <3>1. CASE type = "tool_requests"
        BY <1>2, <1>4, <1>6, <3>1, EventLogAssumption
           DEF RoomKept, HasRoom, EventLimit, TerminalEventTypes
      <3>2. CASE type # "tool_requests"
        BY <1>4, <3>2 DEF RoomKept, Lifecycle!Outcome
      <3> QED
        BY <3>1, <3>2
    <2>2. TextKept(s)'
      BY <1>4 DEF TextKept
    <2>3. RoundsKept(s)'
      BY <1>4 DEF RoundsKept, TurnInv, Sane, Lifecycle!Outcome
    <2>4. Answered(s)'
      BY <1>4, <1>6 DEF Answered, Lifecycle!Outcome
    <2>5. Agrees(s)'
      BY <1>6 DEF Agrees
    <2> QED
      BY <2>1, <2>2, <2>3, <2>4, <2>5 DEF Sane
  <1>8. Lifecycle!EndTurn(s)
    <2>1. Append(log, type) = events[s] \o (text \o <<type>>)
      BY <1>1, <1>2, <1>3, TextThenOutcome
    <2>2. events' = [events EXCEPT ![s] = @ \o (text \o <<type>>)]
      BY <2>1
    <2> QED
      BY <1>1, <2>2, EndTurnImplemented DEF TurnInv, Ownership
  <1> QED
    BY <1>5, <1>7, <1>8, OneRecord DEF TurnInv, Lifecycle!Next

(* A handler of _advance that fails or cancels the record.                 *)
LEMMA HandlerKeeps ==
  ASSUME TurnInv, NEW s \in Session, Live(s), EndTask(s), NEW log \in {events[s], AfterFlush(s)},
         \/ Fail(s, log)
         \/ Settle(s, "canceled", "not_validated", log, "session_canceled"),
         pending'[s] = {} \/ (Fail(s, log) /\ Len(log) = MaxEvents - 1),
         UNCHANGED <<sessions, rounds, final>>,
         \A t \in Session \ {s} :
           messages'[t] = messages[t] /\ pending'[t] = pending[t] /\ chars'[t] = chars[t],
         chars'[s] <= MaxOutput,
         messages'[s] # <<>> /\ Chained(messages'[s])
  PROVE  (\A t \in Session : Sane(t)') /\ [Lifecycle!Next]_(Lifecycle!vars)
  <1>1. log \in Seq(EventTypes) /\ Len(log) < MaxEvents
    BY LiveRecord, FlushedLog
  <1>2. CASE Fail(s, log)
    <2>1. Settle(s, "failed", "failed", log, "session_failed")
          /\ "session_failed" \in TerminalEventTypes
      BY <1>2 DEF Fail, TerminalEventTypes
    <2>2. /\ status' = [status EXCEPT ![s] = "failed"]
          /\ validation' = [validation EXCEPT ![s] = "failed"]
          /\ events' = [events EXCEPT ![s] = Append(log, "session_failed")]
      BY <1>1, <2>1, OutcomeLogged DEF TurnInv, Ownership
    <2>3. /\ HasRoom(Len(log), "session_failed")
          /\ "session_failed" \in DOMAIN Lifecycle!Outcome
          /\ Lifecycle!Outcome["session_failed"] = "failed"
      BY <1>1 DEF HasRoom, EventLimit, TerminalEventTypes, Lifecycle!Outcome
    <2>4. /\ Last(events'[s]) = "session_failed" => Consistent(s)'
          /\ \A t \in Session \ {s} : final'[t] = final[t] /\ validation'[t] = validation[t]
      <3>1. Len(log) = MaxEvents - 1 => Len(events'[s]) = MaxEvents
        <4>1. Len(Append(log, "session_failed")) = Len(log) + 1
          BY <1>1
        <4> QED
          BY <2>2, <4>1, EventLogAssumption DEF TurnInv, Ownership, TypeOK
      <3>2. pending'[s] = {} \/ Len(events'[s]) = MaxEvents
        BY <3>1
      <3> QED
        BY <2>2, <3>2 DEF Consistent, TurnInv, Ownership, TypeOK
    <2> QED
      BY <2>2, <2>3, <2>4, TurnEndKeeps
  <1>3. CASE Settle(s, "canceled", "not_validated", log, "session_canceled")
    <2>1. "session_canceled" \in TerminalEventTypes
      BY DEF TerminalEventTypes
    <2>2. /\ status' = [status EXCEPT ![s] = "canceled"]
          /\ validation' = [validation EXCEPT ![s] = "not_validated"]
          /\ events' = [events EXCEPT ![s] = Append(log, "session_canceled")]
      BY <1>1, <1>3, <2>1, OutcomeLogged DEF TurnInv, Ownership
    <2>3. /\ HasRoom(Len(log), "session_canceled")
          /\ "session_canceled" \in DOMAIN Lifecycle!Outcome
          /\ Lifecycle!Outcome["session_canceled"] = "canceled"
      BY <1>1 DEF HasRoom, EventLimit, TerminalEventTypes, Lifecycle!Outcome
    <2>4. /\ Last(events'[s]) = "session_canceled" => Consistent(s)'
          /\ \A t \in Session \ {s} : final'[t] = final[t] /\ validation'[t] = validation[t]
      <3>1. status'[s] = "canceled" /\ pending'[s] = {}
        BY <2>2 DEF TurnInv, Ownership, TypeOK, Fail, Settle
      <3> QED
        BY <2>2, <3>1 DEF Consistent, TurnInv, Ownership, TypeOK
    <2> QED
      BY <2>2, <2>3, <2>4, TurnEndKeeps
  <1> QED
    BY <1>2, <1>3

LEMMA FailureKeeps ==
  ASSUME TurnInv, NEW s \in Session,
         \/ PlanRefused(s) \/ ProviderFails(s)
         \/ \E raised \in BOOLEAN : Unwind(s, raised)
  PROVE  (\A t \in Session : Sane(t)') /\ [Lifecycle!Next]_(Lifecycle!vars)
  <1>1. /\ Live(s) /\ EndTask(s)
        /\ UNCHANGED <<sessions, messages, pending, rounds, chars, final>>
        /\ \E log \in {events[s], AfterFlush(s)} :
             \/ Fail(s, log)
             \/ Settle(s, "canceled", "not_validated", log, "session_canceled")
    BY DEF PlanRefused, ProbeAnswers, ProviderFails, Unwind, AtCall, Live, LivePC
  <1>2. chars[s] <= MaxOutput /\ messages[s] # <<>> /\ Chained(messages[s]) /\ pending[s] = {}
    BY <1>1, LiveRecord DEF TurnInv, Sane, TextKept, Answered
  <1> QED
    BY <1>1, <1>2, HandlerKeeps

LEMMA ResultKeeps ==
  ASSUME TurnInv, NEW s \in Session, NEW n, NEW ids \in SUBSET ToolId,
         RejectResult(s, n, ids) \/ RequestTools(s, n, ids) \/ Complete(s, n)
  PROVE  (\A t \in Session : Sane(t)') /\ [Lifecycle!Next]_(Lifecycle!vars)
  <1>1. PICK asked \in SUBSET ToolId : Returns(s, n, asked)
    BY DEF RejectResult, RequestTools, Complete
  <1>2. Live(s) /\ EndTask(s) /\ UNCHANGED <<sessions, rounds>>
    BY <1>1 DEF Returns, AtCall, Live, LivePC
  <1>3. chars'[s] <= MaxOutput /\ \A t \in Session \ {s} : chars'[t] = chars[t]
    BY <1>1 DEF Returns, TurnInv, Ownership, TypeOK
  <1>4. /\ messages[s] \in Seq(Messages) /\ messages[s] # <<>> /\ Chained(messages[s])
        /\ ~Asks(Last(messages[s])) /\ pending[s] = {}
    BY <1>2, LiveRecord DEF TurnInv, Sane, Answered, Asks
  <1>5. ASSUME NEW S \in SUBSET ToolId, messages' = [messages EXCEPT ![s] = Append(@, Answer(S))]
        PROVE  /\ messages'[s] # <<>> /\ Chained(messages'[s]) /\ Last(messages'[s]) = Answer(S)
               /\ \A t \in Session \ {s} : messages'[t] = messages[t]
    <2>1. Answer(S) \in Messages
      BY MessageTypes
    <2>2. messages'[s] = Append(messages[s], Answer(S))
          /\ \A t \in Session \ {s} : messages'[t] = messages[t]
      BY <1>5 DEF TurnInv, Ownership, TypeOK
    <2>3. Append(messages[s], Answer(S)) # <<>> /\ Last(Append(messages[s], Answer(S))) = Answer(S)
      BY <1>4, <2>1, Appended
    <2>4. Chained(Append(messages[s], Answer(S)))
      BY <1>4, <2>1, ChainAppend
    <2> QED
      BY <2>2, <2>3, <2>4
  <1>6. AfterFlush(s) \in Seq(EventTypes) /\ Len(AfterFlush(s)) < MaxEvents
    BY <1>2, FlushedLog
  <1>7. CASE RejectResult(s, n, ids)
    <2>1. Fail(s, AfterFlush(s)) /\ UNCHANGED <<messages, pending, final>>
      BY <1>7 DEF RejectResult
    <2> QED
      BY <1>2, <1>3, <1>4, <2>1, HandlerKeeps
  <1>8. CASE RequestTools(s, n, ids)
    <2>1. /\ messages' = [messages EXCEPT ![s] = Append(@, Answer(ids))]
          /\ pending'[s] = ids /\ \A t \in Session \ {s} : pending'[t] = pending[t]
          /\ ids # {} /\ rounds[s] < MaxRounds /\ UNCHANGED final
      BY <1>8 DEF RequestTools, RoundLeft, TurnInv, Ownership, TypeOK
    <2>2. /\ messages'[s] # <<>> /\ Chained(messages'[s]) /\ Last(messages'[s]) = Answer(ids)
          /\ \A t \in Session \ {s} : messages'[t] = messages[t]
      BY <1>5, <2>1
    <2>3. CASE HasRoom(Len(AfterFlush(s)), "tool_requests")
      <3>1. /\ status' = [status EXCEPT ![s] = "waiting_for_tool"]
            /\ events' = [events EXCEPT ![s] = Append(AfterFlush(s), "tool_requests")]
            /\ UNCHANGED validation
        BY <1>8, <2>3 DEF RequestTools
      <3>2. /\ "tool_requests" \in DOMAIN Lifecycle!Outcome
            /\ Lifecycle!Outcome["tool_requests"] = "waiting_for_tool"
        BY DEF Lifecycle!Outcome
      <3>3. Last(events'[s]) = "tool_requests" => Consistent(s)'
        <4>1. status'[s] = "waiting_for_tool"
          BY <3>1 DEF TurnInv, Ownership, TypeOK
        <4> QED
          BY <2>1, <2>2, <4>1 DEF Consistent
      <3> QED
        BY <1>2, <1>3, <2>1, <2>2, <2>3, <3>1, <3>2, <3>3, TurnEndKeeps
    <2>4. CASE ~HasRoom(Len(AfterFlush(s)), "tool_requests")
      <3>1. Fail(s, AfterFlush(s))
        BY <1>8, <2>4 DEF RequestTools
      <3>2. Len(AfterFlush(s)) = MaxEvents - 1
        BY <1>6, <2>4, EventLogAssumption DEF HasRoom, EventLimit, TerminalEventTypes
      <3> QED
        BY <1>2, <1>3, <2>1, <2>2, <3>1, <3>2, HandlerKeeps
    <2> QED
      BY <2>3, <2>4
  <1>9. CASE Complete(s, n)
    <2>1. /\ messages' = [messages EXCEPT ![s] = Append(@, Answer({}))]
          /\ UNCHANGED pending
          /\ final'[s] /\ \A t \in Session \ {s} : final'[t] = final[t]
          /\ Settle(s, "completed", "passed", AfterFlush(s), "session_completed")
      <3>1. final \in [Session -> BOOLEAN] /\ final' = [final EXCEPT ![s] = TRUE]
        BY <1>9 DEF Complete, TurnInv, Ownership, TypeOK
      <3>2. final'[s] /\ \A t \in Session \ {s} : final'[t] = final[t]
        BY <3>1
      <3> QED
        BY <1>9, <3>2 DEF Complete
    <2>2. /\ messages'[s] # <<>> /\ Chained(messages'[s]) /\ Last(messages'[s]) = Answer({})
          /\ \A t \in Session \ {s} : messages'[t] = messages[t]
      <3>1. {} \in SUBSET ToolId
        OBVIOUS
      <3> QED
        BY <1>5, <2>1, <3>1
    <2>3. "session_completed" \in TerminalEventTypes
      BY DEF TerminalEventTypes
    <2>4. /\ status' = [status EXCEPT ![s] = "completed"]
          /\ validation' = [validation EXCEPT ![s] = "passed"]
          /\ events' = [events EXCEPT ![s] = Append(AfterFlush(s), "session_completed")]
      BY <1>6, <2>1, <2>3, OutcomeLogged DEF TurnInv, Ownership
    <2>5. /\ HasRoom(Len(AfterFlush(s)), "session_completed")
          /\ "session_completed" \in DOMAIN Lifecycle!Outcome
          /\ Lifecycle!Outcome["session_completed"] = "completed"
      BY <1>6 DEF HasRoom, EventLimit, TerminalEventTypes, Lifecycle!Outcome
    <2>6. pending'[s] = {} /\ ~Asks(Last(messages'[s]))
      BY <1>4, <2>1, <2>2 DEF Asks, Answer
    <2>7. /\ status'[s] = "completed" /\ validation'[s] = "passed"
          /\ \A t \in Session \ {s} : validation'[t] = validation[t]
      BY <2>4 DEF TurnInv, Ownership, TypeOK
    <2>8. Last(events'[s]) = "session_completed" => Consistent(s)'
      BY <2>1, <2>6, <2>7 DEF Consistent
    <2> QED
      BY <1>2, <1>3, <2>1, <2>2, <2>4, <2>5, <2>6, <2>7, <2>8, TurnEndKeeps
  <1> QED
    BY <1>7, <1>8, <1>9

LEMMA AdvanceKeeps ==
  ASSUME TurnInv, NEW s \in Session, Advance(s)
  PROVE  (\A t \in Session : Sane(t)') /\ [Lifecycle!Next]_(Lifecycle!vars)
  BY QuietTaskKeeps, PlanCallKeeps, PushTextKeeps, FailureKeeps, ResultKeeps DEF Advance

-----------------------------------------------------------------------------
(* The calls.                                                              *)

LEMMA CreateKeeps ==
  ASSUME TurnInv, NEW s \in Session, CreateSession(s)
  PROVE  (\A t \in Session : Sane(t)') /\ Lifecycle!Next
  <1>1. /\ status'[s] = "running" /\ pc'[s] = "new" /\ emitter' = emitter
        /\ events'[s] = <<"session_created", "provider_started">>
        /\ messages'[s] = <<UserMessage>>
        /\ UNCHANGED <<pending, rounds, chars, final, validation>>
        /\ \A t \in Session \ {s} : /\ status'[t] = status[t] /\ events'[t] = events[t]
                                    /\ messages'[t] = messages[t] /\ pc'[t] = pc[t]
    BY DEF CreateSession, StartTask, TurnInv, Ownership, TypeOK
  <1>2. Others(s)
    BY <1>1 DEF Others, Untouched
  <1>3. Sane(s) /\ status[s] = "none" /\ pc[s] # "call"
    BY DEF TurnInv, Ownership, LiveTaskOwned, Live, LivePC, CreateSession
  <1>4. Sane(s)'
    <2>1. Len(<<"session_created", "provider_started">>) = 2
          /\ <<"session_created", "provider_started">> # <<>>
      OBVIOUS
    <2>2. RoomKept(s)'
      BY <1>1, <2>1, SessionsAssumption, EventLogAssumption DEF RoomKept, CallFits
    <2>3. TextKept(s)' /\ RoundsKept(s)'
      BY <1>1, <1>3 DEF Sane, TextKept, RoundsKept
    <2>4. Answered(s)'
      <3>1. Chained(<<UserMessage>>) /\ <<UserMessage>> # <<>>
            /\ Last(<<UserMessage>>).role # "assistant"
        BY DEF Chained, Last, UserMessage
      <3> QED
        BY <1>1, <1>3, <2>1, <3>1 DEF Sane, Answered
    <2>5. Agrees(s)'
      BY <1>1 DEF Agrees, Consistent
    <2> QED
      BY <2>2, <2>3, <2>4, <2>5 DEF Sane
  <1> QED
    BY <1>2, <1>4, OneRecord, OpenImplemented DEF TurnInv, Lifecycle!Next

(* A submission or follow-up passes both checks of its room, or the second *)
(* one refuses it at the very event that takes the log to the reserve.     *)
LEMMA ResumeRoom ==
  ASSUME TypeOK, NEW s \in Session, NEW input \in EventTypes, Resume(s, input)
  PROVE  /\ ~Live(s) /\ Len(events[s]) \in Nat /\ CallFits(Len(events[s]))
         /\ \/ /\ StartTask(s) /\ CallFits(Len(events[s]) + 1)
               /\ events' = [events EXCEPT ![s] = @ \o <<input, "provider_started">>]
               /\ Len(events'[s]) = Len(events[s]) + 2 /\ events'[s] # <<>>
            \/ /\ UNCHANGED <<status, pc, kill>>
               /\ events' = [events EXCEPT ![s] = @ \o <<input>>]
               /\ Len(events[s]) + 1 = MaxEvents - Reserve
               /\ Len(events'[s]) = MaxEvents - Reserve /\ events'[s] # <<>>
               /\ Last(events'[s]) = input
  <1>1. events[s] \in Seq(EventTypes) /\ Len(events[s]) \in Nat
        /\ "provider_started" \in EventTypes
    BY DEF TypeOK, EventTypes
  <1>2. ~Live(s) /\ CallFits(Len(events[s]))
    BY DEF Resume, Schedulable
  <1>3. CASE Schedulable(s, Len(events[s]) + 1)
    <2>1. StartTask(s) /\ CallFits(Len(events[s]) + 1)
          /\ events' = [events EXCEPT ![s] = @ \o <<input, "provider_started">>]
      BY <1>3 DEF Resume, Schedulable, Log
    <2>2. events'[s] = events[s] \o <<input, "provider_started">>
      BY <2>1 DEF TypeOK
    <2>3. Append(events[s], input) \in Seq(EventTypes)
          /\ Len(Append(events[s], input)) = Len(events[s]) + 1
      BY <1>1, Appended
    <2>4. events'[s] = Append(Append(events[s], input), "provider_started")
      BY <1>1, <2>2, AppendedPair
    <2>5. /\ Append(Append(events[s], input), "provider_started") # <<>>
          /\ Len(Append(Append(events[s], input), "provider_started"))
               = Len(Append(events[s], input)) + 1
      BY <1>1, <2>3, Appended
    <2> QED
      BY <1>1, <1>2, <2>1, <2>3, <2>4, <2>5
  <1>4. CASE ~Schedulable(s, Len(events[s]) + 1)
    <2>1. UNCHANGED <<status, pc, kill>> /\ events' = [events EXCEPT ![s] = @ \o <<input>>]
      BY <1>4 DEF Resume, Log
    <2>2. ~CallFits(Len(events[s]) + 1)
      BY <1>4 DEF Resume, Schedulable
    <2>3. Len(events[s]) + 1 = MaxEvents - Reserve
      BY <1>1, <1>2, <2>2, EventLogAssumption DEF CallFits
    <2>4. events'[s] = Append(events[s], input)
      <3>1. Append(events[s], input) = events[s] \o <<input>>
        BY <1>1, Appended
      <3> QED
        BY <2>1, <3>1 DEF TypeOK
    <2>5. /\ Append(events[s], input) # <<>> /\ Last(Append(events[s], input)) = input
          /\ Len(Append(events[s], input)) = Len(events[s]) + 1
      BY <1>1, Appended
    <2> QED
      BY <1>1, <1>2, <2>1, <2>3, <2>4, <2>5
  <1> QED
    BY <1>3, <1>4

(* A resumed session has an answered transcript whose last message is not  *)
(* the model's.                                                            *)
LEMMA ResumedTranscript ==
  ASSUME TurnInv, NEW s \in Session, SubmitToolResults(s) \/ ContinueSession(s)
  PROVE  /\ pending'[s] = {} /\ messages'[s] # <<>> /\ Chained(messages'[s])
         /\ Last(messages'[s]).role # "assistant"
         /\ \A t \in Session \ {s} : messages'[t] = messages[t] /\ pending'[t] = pending[t]
  <1>1. /\ messages[s] \in Seq(Messages) /\ messages[s] # <<>> /\ Chained(messages[s])
    BY DEF TurnInv, Sane, Answered, Ownership, TypeOK, SubmitToolResults, ContinueSession
  <1>2. ASSUME NEW m \in Messages, messages' = [messages EXCEPT ![s] = Append(@, m)],
               m.role # "assistant", Asks(Last(messages[s])) => m = ToolMessages(Last(messages[s]).ids)
        PROVE  /\ messages'[s] # <<>> /\ Chained(messages'[s])
               /\ Last(messages'[s]).role # "assistant"
               /\ \A t \in Session \ {s} : messages'[t] = messages[t]
    <2>1. messages'[s] = Append(messages[s], m)
          /\ \A t \in Session \ {s} : messages'[t] = messages[t]
      BY <1>2 DEF TurnInv, Ownership, TypeOK
    <2>2. Append(messages[s], m) # <<>> /\ Last(Append(messages[s], m)) = m
      BY <1>1, Appended
    <2>3. Chained(Append(messages[s], m))
      BY <1>1, <1>2, ChainAppend
    <2> QED
      BY <1>2, <2>1, <2>2, <2>3
  <1>3. CASE SubmitToolResults(s)
    <2>1. /\ messages' = [messages EXCEPT ![s] = Append(@, ToolMessages(pending[s]))]
          /\ pending'[s] = {} /\ \A t \in Session \ {s} : pending'[t] = pending[t]
          /\ pending[s] \in SUBSET ToolId /\ status[s] = "waiting_for_tool"
          /\ CallFits(Len(events[s]))
      BY <1>3 DEF SubmitToolResults, Resume, Schedulable, TurnInv, Ownership, TypeOK
    <2>2. Consistent(s)
      <3>1. ~(Len(events[s]) = MaxEvents - Reserve)
        BY <2>1, EventLogAssumption DEF CallFits
      <3> QED
        BY <3>1 DEF TurnInv, Sane, Agrees, Stranded
    <2>3. Last(messages[s]) = Answer(pending[s])
      BY <2>1, <2>2 DEF Consistent
    <2>4. /\ ToolMessages(pending[s]) \in Messages
          /\ ToolMessages(pending[s]).role # "assistant"
          /\ ToolMessages(pending[s]) = ToolMessages(Last(messages[s]).ids)
      BY <2>1, <2>3, MessageTypes DEF Answer, ToolMessages
    <2> QED
      BY <1>2, <2>1, <2>4
  <1>4. CASE ContinueSession(s)
    <2>1. /\ messages' = [messages EXCEPT ![s] = Append(@, UserMessage)]
          /\ UNCHANGED pending /\ status[s] = "completed"
      BY <1>4 DEF ContinueSession
    <2>2. pending[s] = {} /\ ~Asks(Last(messages[s]))
      BY <2>1 DEF TurnInv, Sane, Answered
    <2>3. UserMessage \in Messages /\ UserMessage.role # "assistant"
      BY DEF UserMessage, Messages
    <2> QED
      BY <1>2, <2>1, <2>2, <2>3
  <1> QED
    BY <1>3, <1>4

LEMMA ResumeKeeps ==
  ASSUME TurnInv, NEW s \in Session, SubmitToolResults(s) \/ ContinueSession(s)
  PROVE  (\A t \in Session : Sane(t)') /\ Lifecycle!Next
  <1>1. PICK input \in EventTypes :
          /\ Resume(s, input)
          /\ \/ status[s] = "waiting_for_tool" /\ input = "tool_results_received"
             \/ status[s] = "completed" /\ input = "user_input_received"
    BY DEF SubmitToolResults, ContinueSession, EventTypes
  <1>2. /\ s \in sessions /\ status[s] \in {"waiting_for_tool", "completed"}
        /\ UNCHANGED <<sessions, chars, emitter>> /\ Sane(s)
        /\ input = Lifecycle!Input[status[s]] /\ status[s] \in DOMAIN Lifecycle!Input
    BY <1>1 DEF SubmitToolResults, ContinueSession, Found, TurnInv, Lifecycle!Input
  <1>3. /\ ~Live(s) /\ Len(events[s]) \in Nat /\ CallFits(Len(events[s]))
        /\ \/ /\ StartTask(s) /\ CallFits(Len(events[s]) + 1)
              /\ events' = [events EXCEPT ![s] = @ \o <<input, "provider_started">>]
              /\ Len(events'[s]) = Len(events[s]) + 2 /\ events'[s] # <<>>
           \/ /\ UNCHANGED <<status, pc, kill>>
              /\ events' = [events EXCEPT ![s] = @ \o <<input>>]
              /\ Len(events[s]) + 1 = MaxEvents - Reserve
              /\ Len(events'[s]) = MaxEvents - Reserve /\ events'[s] # <<>>
              /\ Last(events'[s]) = input
    BY <1>1, ResumeRoom DEF TurnInv, Ownership
  <1>4. /\ pending'[s] = {} /\ messages'[s] # <<>> /\ Chained(messages'[s])
        /\ Last(messages'[s]).role # "assistant"
        /\ \A t \in Session \ {s} : messages'[t] = messages[t] /\ pending'[t] = pending[t]
    BY ResumedTranscript
  <1>5. rounds'[s] \in Nat /\ rounds'[s] <= MaxRounds
        /\ \A t \in Session \ {s} :
             rounds'[t] = rounds[t] /\ final'[t] = final[t] /\ validation'[t] = validation[t]
    <2>1. CASE SubmitToolResults(s)
      <3>1. rounds' = [rounds EXCEPT ![s] = @ + 1] /\ UNCHANGED <<final, validation>>
            /\ status[s] = "waiting_for_tool"
        BY <2>1 DEF SubmitToolResults
      <3>2. rounds[s] < MaxRounds /\ rounds[s] \in Nat
        BY <1>2, <1>3, <3>1 DEF Sane, RoundsKept, TurnInv, Ownership, TypeOK
      <3> QED
        BY <3>1, <3>2, SessionsAssumption DEF TurnInv, Ownership, TypeOK
    <2>2. CASE ContinueSession(s)
      BY <1>2, <2>2 DEF ContinueSession, Sane, RoundsKept, TurnInv, Ownership, TypeOK
    <2> QED
      BY <2>1, <2>2
  <1>6. /\ \A t \in Session \ {s} : events'[t] = events[t]
        /\ emitter[s] = NoEmitter /\ chars[s] <= MaxOutput
    BY <1>2, <1>3 DEF Sane, TextKept, Live, LivePC, TurnInv, Ownership, TypeOK
  <1>7. CASE /\ StartTask(s) /\ CallFits(Len(events[s]) + 1)
             /\ events' = [events EXCEPT ![s] = @ \o <<input, "provider_started">>]
             /\ Len(events'[s]) = Len(events[s]) + 2 /\ events'[s] # <<>>
    <2>1. /\ status' = [status EXCEPT ![s] = "running"]
          /\ status'[s] = "running" /\ pc'[s] = "new"
          /\ \A t \in Session \ {s} : status'[t] = status[t] /\ pc'[t] = pc[t]
      BY <1>7 DEF StartTask, TurnInv, Ownership, TypeOK
    <2>2. Others(s)
      BY <1>2, <1>4, <1>5, <1>6, <2>1 DEF Others, Untouched
    <2>3. Sane(s)'
      <3>1. RoomKept(s)'
        BY <1>3, <1>7, EventLogAssumption DEF RoomKept, CallFits
      <3>2. TextKept(s)' /\ RoundsKept(s)'
        BY <1>2, <1>5, <1>6, <2>1 DEF TextKept, RoundsKept
      <3>3. Answered(s)' /\ Agrees(s)'
        BY <1>4, <1>7, <2>1 DEF Answered, Agrees, Consistent
      <3> QED
        BY <3>1, <3>2, <3>3 DEF Sane
    <2>4. Lifecycle!Resume(s)
      <3>1. Phase[s] = status[s] /\ Phase' = [Phase EXCEPT ![s] = "running"]
        BY <1>2, <2>1, PhaseOf, PhaseMoves DEF TurnInv, Ownership
      <3> QED
        BY <1>2, <1>7, <3>1 DEF Lifecycle!Resume, Lifecycle!Enter, Lifecycle!Grow
    <2> QED
      BY <2>2, <2>3, <2>4, OneRecord DEF TurnInv, Lifecycle!Next
  <1>8. CASE /\ UNCHANGED <<status, pc, kill>>
             /\ events' = [events EXCEPT ![s] = @ \o <<input>>]
             /\ Len(events[s]) + 1 = MaxEvents - Reserve
             /\ Len(events'[s]) = MaxEvents - Reserve /\ events'[s] # <<>>
             /\ Last(events'[s]) = input
    <2>1. Others(s)
      BY <1>2, <1>4, <1>5, <1>6, <1>8 DEF Others, Untouched
    <2>2. Sane(s)'
      <3>1. RoomKept(s)'
        BY <1>3, <1>8, EventLogAssumption DEF RoomKept
      <3>2. TextKept(s)'
        BY <1>2, <1>3, <1>6, <1>8 DEF TextKept, Live, LivePC
      <3>3. RoundsKept(s)'
        BY <1>5, <1>8, EventLogAssumption DEF RoundsKept, CallFits
      <3>4. Answered(s)'
        BY <1>2, <1>4, <1>8 DEF Answered, Asks
      <3>5. Agrees(s)'
        BY <1>1, <1>2, <1>8 DEF Agrees, Stranded
      <3> QED
        BY <3>1, <3>2, <3>3, <3>4, <3>5 DEF Sane
    <2>3. Lifecycle!RefuseInput(s)
      <3>1. Phase[s] = status[s] /\ Phase' = Phase
        BY <1>2, <1>8, PhaseOf DEF Phase
      <3> QED
        BY <1>2, <1>8, <3>1 DEF Lifecycle!RefuseInput, Lifecycle!Grow
    <2> QED
      BY <2>1, <2>2, <2>3, OneRecord DEF TurnInv, Lifecycle!Next
  <1> QED
    BY <1>3, <1>7, <1>8

(* cancel settles a session that has no live task: its turn ends, or its   *)
(* wait for tool results does.                                             *)
LEMMA CancelRecordKeeps ==
  ASSUME TurnInv, NEW s \in Session, s \in sessions, ~Live(s),
         status[s] \in {"running", "waiting_for_tool"}, CancelRecord(s)
  PROVE  (\A t \in Session : Sane(t)') /\ Lifecycle!Next
  <1>1. /\ events[s] \in Seq(EventTypes) /\ Len(events[s]) < MaxEvents /\ Sane(s)
        /\ messages[s] # <<>> /\ "session_canceled" \in TerminalEventTypes
        /\ "session_canceled" \in EventTypes
    BY DEF TurnInv, Ownership, TypeOK, Sane, RoomKept, Answered, TerminalEventTypes, EventTypes
  <1>2. /\ Settle(s, "canceled", "not_validated", events[s], "session_canceled")
        /\ pending' = [pending EXCEPT ![s] = {}]
        /\ UNCHANGED <<sessions, messages, rounds, chars, final, pc, kill, emitter>>
    BY DEF CancelRecord, task
  <1>3. /\ status' = [status EXCEPT ![s] = "canceled"]
        /\ validation' = [validation EXCEPT ![s] = "not_validated"]
        /\ events' = [events EXCEPT ![s] = Append(events[s], "session_canceled")]
    BY <1>1, <1>2, OutcomeLogged DEF TurnInv, Ownership
  <1>4. Others(s)
    BY <1>2, <1>3 DEF Others, Untouched, TurnInv, Ownership, TypeOK
  <1>5. /\ Append(events[s], "session_canceled") # <<>>
        /\ Last(Append(events[s], "session_canceled")) = "session_canceled"
        /\ Append(events[s], "session_canceled") = events[s] \o <<"session_canceled">>
    BY <1>1, Appended
  <1>6. /\ status'[s] = "canceled" /\ validation'[s] = "not_validated" /\ pending'[s] = {}
        /\ events'[s] # <<>> /\ Last(events'[s]) = "session_canceled"
    BY <1>2, <1>3, <1>5 DEF TurnInv, Ownership, TypeOK
  <1>7. Sane(s)'
    <2>1. RoomKept(s)' /\ TextKept(s)' /\ RoundsKept(s)'
      BY <1>1, <1>2, <1>6 DEF Sane, RoomKept, TextKept, RoundsKept, Live, LivePC
    <2>2. Answered(s)'
      BY <1>1, <1>2, <1>6 DEF Sane, Answered
    <2>3. Agrees(s)'
      BY <1>6 DEF Agrees, Consistent
    <2> QED
      BY <2>1, <2>2, <2>3 DEF Sane
  <1>8. Lifecycle!Next
    <2>1. CASE status[s] = "running"
      <3>1. /\ "session_canceled" \in DOMAIN Lifecycle!Outcome
            /\ Lifecycle!Outcome["session_canceled"] = "canceled"
        BY DEF Lifecycle!Outcome
      <3>2. events' = [events EXCEPT ![s] = @ \o (<<>> \o <<"session_canceled">>)]
        <4>1. <<"session_canceled">> \in Seq(EventTypes)
          BY <1>1
        <4>2. <<>> \o <<"session_canceled">> = <<"session_canceled">>
          BY <4>1, ConcatEmptySeq
        <4> QED
          BY <1>3, <1>5, <4>2
      <3>3. Lifecycle!EndTurn(s)
        BY <1>2, <1>3, <2>1, <3>1, <3>2, EndTurnImplemented DEF TurnInv, Ownership
      <3> QED
        BY <3>3 DEF Lifecycle!Next
    <2>2. CASE status[s] = "waiting_for_tool"
      <3>1. Phase[s] = status[s] /\ Phase' = [Phase EXCEPT ![s] = "canceled"]
        BY <1>2, <1>3, PhaseOf, PhaseMoves DEF TurnInv, Ownership
      <3>2. Lifecycle!CancelPaused(s)
        BY <1>3, <1>5, <2>2, <3>1 DEF Lifecycle!CancelPaused, Lifecycle!Enter, Lifecycle!Grow
      <3> QED
        BY <3>2 DEF Lifecycle!Next
    <2> QED
      BY <2>1, <2>2
  <1> QED
    BY <1>4, <1>7, <1>8, OneRecord DEF TurnInv

LEMMA ForgetKeeps ==
  ASSUME TurnInv, NEW S \in SUBSET sessions, \A s \in S : status[s] # "running",
         sessions' = sessions \ S, UNCHANGED <<status, events, turn, task>>
  PROVE  (\A t \in Session : Sane(t)') /\ Lifecycle!Next
  <1>1. \A t \in Session : Untouched(t)
    BY DEF Untouched, turn, task
  <1>2. \E T \in SUBSET Session : Lifecycle!Forget(T)
    BY ForgetImplemented DEF TurnInv, Ownership
  <1> QED
    BY <1>1, <1>2, UntouchedStaysSane DEF TurnInv, Lifecycle!Next

(* A step that touches neither a record nor the registry.                  *)
LEMMA QuietKeeps ==
  ASSUME TurnInv, UNCHANGED <<sessions, status, events, turn, pc, emitter>>
  PROVE  (\A t \in Session : Sane(t)') /\ UNCHANGED Lifecycle!vars
  <1>1. \A t \in Session : Untouched(t)
    BY DEF Untouched, turn
  <1>2. UNCHANGED Lifecycle!vars
    BY DEF Lifecycle!vars, Phase
  <1> QED
    BY <1>1, <1>2, UntouchedStaysSane DEF TurnInv

LEMMA CancelKeeps ==
  ASSUME TurnInv, NEW s \in Session, (\E c \in Client : Cancel(c, s)) \/ ShutdownCancel(s)
  PROVE  (\A t \in Session : Sane(t)') /\ [Lifecycle!Next]_(Lifecycle!vars)
  <1>1. s \in sessions
    BY DEF Cancel, Found, ShutdownCancel, TurnInv, Registered
  <1>2. CASE \E c \in Callers : CancelTask(c, s)
    BY <1>2, QuietKeeps DEF CancelTask
  <1>3. CASE UNCHANGED <<sessions, status, events, stale, turn, task>>
    BY <1>3, QuietKeeps DEF task
  <1>4. CASE ~Live(s) /\ ~Settled(s) /\ CancelRecord(s)
    <2>1. status[s] \in {"running", "waiting_for_tool"}
      BY <1>1, <1>4 DEF TurnInv, Registered, Ownership, TypeOK, Statuses, Settled, Terminal
    <2> QED
      BY <1>1, <1>4, <2>1, CancelRecordKeeps
  <1>5. CASE ShutdownCancel(s) /\ Expired(s)
    <2>1. /\ sessions' = sessions \ {s} /\ status[s] # "running"
          /\ UNCHANGED <<status, events, turn, task>>
      BY <1>5 DEF ShutdownCancel, Expired
    <2>2. {s} \in SUBSET sessions /\ \A t \in {s} : status[t] # "running"
      BY <1>1, <2>1
    <2> QED
      BY <2>1, <2>2, ForgetKeeps
  <1>6. CASE ShutdownCancel(s) /\ ~Expired(s)
    BY <1>2, <1>3, <1>4, <1>6 DEF ShutdownCancel, Callers
  <1>7. CASE \E c \in Client : Cancel(c, s)
    BY <1>2, <1>4, <1>7 DEF Cancel, Callers
  <1> QED
    BY <1>5, <1>6, <1>7

(* When cancel resumes, its session is settled, or still running.          *)
LEMMA CancelReturnsKeeps ==
  ASSUME TurnInv, NEW s \in Session, NEW c \in Callers, CancelReturns(c, s)
  PROVE  (\A t \in Session : Sane(t)') /\ [Lifecycle!Next]_(Lifecycle!vars)
  <1>1. ~Live(s) /\ Awaited(s) /\ status[s] # "none"
    BY DEF CancelReturns, TurnInv, CancelPending, Awaited, Canceling
  <1>2. CASE Settled(s)
    BY <1>2, QuietKeeps DEF CancelReturns, task
  <1>3. CASE ~Settled(s)
    <2>1. status[s] \in {"running", "waiting_for_tool"} /\ CancelRecord(s)
      BY <1>1, <1>3 DEF Settled, Terminal, Statuses, TurnInv, Ownership, TypeOK, CancelReturns
    <2>2. s \in sessions
      BY <1>1, <2>1 DEF TurnInv, Registered, CancelPending
    <2> QED
      BY <1>1, <2>1, <2>2, CancelRecordKeeps
  <1> QED
    BY <1>2, <1>3

LEMMA CallsKeep ==
  ASSUME TurnInv, NEW s \in Session, Calls(s)
  PROVE  (\A t \in Session : Sane(t)') /\ [Lifecycle!Next]_(Lifecycle!vars)
  <1>1. CASE RecordExpired(s)
    <2>1. /\ s \in sessions /\ sessions' = sessions \ {s} /\ status[s] # "running"
          /\ UNCHANGED <<status, events, turn, task>>
      BY <1>1 DEF RecordExpired, Expired
    <2>2. {s} \in SUBSET sessions /\ \A t \in {s} : status[t] # "running"
      BY <2>1
    <2> QED
      BY <2>1, <2>2, ForgetKeeps
  <1>2. CASE Age(s)
    BY <1>2, QuietKeeps DEF Age, task
  <1> QED
    BY <1>1, <1>2, CreateKeeps, ResumeKeeps, CancelKeeps, CancelReturnsKeeps DEF Calls

(* Every step keeps the records and implements the lifecycle.              *)
LEMMA StepKeeps ==
  ASSUME TurnInv, [Next]_vars
  PROVE  TurnInv' /\ [Lifecycle!Next]_(Lifecycle!vars)
  <1>1. Ownership'
    BY OwnershipStep DEF TurnInv
  <1>2. Registered' /\ CancelPending'
    BY RegisteredStep, CancelPendingStep DEF TurnInv
  <1>3. (\A t \in Session : Sane(t)') /\ [Lifecycle!Next]_(Lifecycle!vars)
    <2>1. ASSUME NEW s \in Session, Calls(s)
          PROVE  (\A t \in Session : Sane(t)') /\ [Lifecycle!Next]_(Lifecycle!vars)
      BY <2>1, CallsKeep
    <2>2. ASSUME NEW s \in Session, Advance(s)
          PROVE  (\A t \in Session : Sane(t)') /\ [Lifecycle!Next]_(Lifecycle!vars)
      BY <2>2, AdvanceKeeps
    <2>3. CASE CreateRefused
      <3>1. /\ sessions' = sessions \ (sessions \ Kept)
            /\ \A s \in sessions \ Kept : status[s] # "running"
            /\ UNCHANGED <<status, events, turn, task>>
        BY <2>3 DEF CreateRefused, Kept, Expired
      <3> QED
        BY <3>1, ForgetKeeps
    <2>4. CASE ShutdownStart \/ ShutdownEnd \/ UNCHANGED vars
      BY <2>4, QuietKeeps DEF ShutdownStart, ShutdownEnd, vars, turn, task
    <2> QED
      BY <2>1, <2>2, <2>3, <2>4 DEF Next
  <1> QED
    BY <1>1, <1>2, <1>3 DEF TurnInv

LEMMA InitTurnInv == Init => TurnInv
  <1> SUFFICES ASSUME Init PROVE TurnInv
    OBVIOUS
  <1>1. Ownership
    BY InitOwnership
  <1>2. Registered /\ CancelPending
    BY DEF Init, Registered, CancelPending, Canceling, Awaited, Live, LivePC
  <1>3. ASSUME NEW s \in Session PROVE Sane(s)
    <2>1. /\ status[s] = "none" /\ events[s] = <<>> /\ messages[s] = <<>> /\ pending[s] = {}
          /\ rounds[s] = 0 /\ chars[s] = 0 /\ pc[s] = "none" /\ emitter[s] = NoEmitter
      BY DEF Init
    <2>2. RoomKept(s) /\ TextKept(s) /\ RoundsKept(s)
      BY <2>1, SessionsAssumption DEF RoomKept, TextKept, RoundsKept
    <2>3. Answered(s) /\ Agrees(s)
      BY <2>1 DEF Answered, Chained, Agrees, Consistent
    <2> QED
      BY <2>2, <2>3 DEF Sane
  <1> QED
    BY <1>1, <1>2, <1>3 DEF TurnInv

-----------------------------------------------------------------------------
(* The inductive invariant.                                                *)
THEOREM TurnInvariant == Spec => []TurnInv
  <1>1. TurnInv /\ [Next]_vars => TurnInv'
    BY StepKeeps
  <1> QED
    BY <1>1, InitTurnInv, PTL DEF Spec

(* A turn that was asked to stop, by a caller or by its timer, neither     *)
(* completes nor asks for tools unless its probe lost what it was asked.   *)
THEOREM NoCompletionAfterCancelThm == Spec => NoCompletionAfterCancel
  <1> DEFINE Silent(t) == AskedToStop(t) /\ status'[t] \in {"completed", "waiting_for_tool"}
                            => LostInProbe(t)
  <1>1. ASSUME TurnInv, [Next]_vars, NEW t \in Session PROVE Silent(t)
    <2> SUFFICES ASSUME AskedToStop(t), status'[t] \in {"completed", "waiting_for_tool"}
                 PROVE  LostInProbe(t)
      OBVIOUS
    <2>1. status[t] = "running" /\ (Canceling(t) \/ t \in fired)
      BY DEF AskedToStop
    <2>2. ASSUME NEW s \in Session, TaskStep(s) PROVE LostInProbe(t)
      <3>1. s = t /\ Live(t) /\ kill[t] = "none"
        BY <2>1, <2>2 DEF TaskStep, OnlyTouches, Progresses, Ends, Dropped
      <3> QED
        BY <1>1, <2>1, <3>1 DEF TurnInv, CancelPending
    <2>3. ASSUME NEW s \in Session, Starts(s) \/ Releases(s) PROVE FALSE
      BY <2>1, <2>3 DEF Starts, Releases, OnlyTouches, Terminal
    <2>4. ASSUME NEW s \in Session, Cancels(s) \/ Aborts(s) PROVE FALSE
      BY <2>1, <2>4 DEF Cancels, Aborts
    <2>5. CASE Idles \/ ShutdownStep
      BY <2>1, <2>5 DEF Idles, ShutdownStep
    <2> QED
      BY <1>1, <2>2, <2>3, <2>4, <2>5, StepKinds DEF CallStep, TurnInv
  <1>2. TurnInv /\ [Next]_vars =>
          [\A s \in Session :
             AskedToStop(s) /\ status'[s] \in {"completed", "waiting_for_tool"}
               => LostInProbe(s)]_vars
    BY <1>1
  <1> QED
    BY <1>2, TurnInvariant, PTL DEF Spec, NoCompletionAfterCancel

(* The tool rounds and the output of a session stay within its limits,     *)
(* whatever its provider returns and however often it is resumed.          *)
THEOREM LimitsRespectedThm == Spec => []LimitsRespected
  <1>1. TurnInv => LimitsRespected
    BY DEF TurnInv, Sane, RoundsKept, TextKept, LimitsRespected
  <1> QED
    BY <1>1, TurnInvariant, PTL

(* Every tool request in a transcript is answered by the message after it, *)
(* and no provider is called with a request unanswered.                    *)
THEOREM TranscriptAnsweredThm == Spec => []TranscriptAnswered
  <1>1. TurnInv => TranscriptAnswered
    BY DEF TurnInv, Ownership, LiveTaskOwned, Sane, Answered, Chained, Asks, ToolMessages,
           TranscriptAnswered
  <1> QED
    BY <1>1, TurnInvariant, PTL

(* The status of a session and its log agree, except for input refused by  *)
(* the second check of _schedule.                                          *)
THEOREM ConsistentUnlessStrandedThm == Spec => []ConsistentUnlessStranded
  <1>1. TurnInv => ConsistentUnlessStranded
    BY DEF TurnInv, Sane, Agrees, ConsistentUnlessStranded
  <1> QED
    BY <1>1, TurnInvariant, PTL

(* The events _ensure_schedulable keeps in reserve and the budget of the   *)
(* emitter suffice: no call is refused an event it needs.                  *)
THEOREM ReserveSufficesThm == Spec => []ReserveSuffices
  <1>1. ASSUME TurnInv, NEW s \in Session
        PROVE  /\ pc[s] = "probe" => EventBudget(Len(events[s]) + 1) >= 2
               /\ ~FlushRaises(s)
               /\ pc[s] = "call" /\ s \in Streaming => \A n \in Fragments : ~PushRaises(s, n)
    <2>1. pc[s] = "probe" => EventBudget(Len(events[s]) + 1) >= 2
      <3> SUFFICES ASSUME pc[s] = "probe" PROVE EventBudget(Len(events[s]) + 1) >= 2
        OBVIOUS
      <3>1. Len(events[s]) \in Nat /\ Len(events[s]) <= MaxEvents - Reserve
        BY <1>1, LiveRecord DEF TurnInv, Sane, RoomKept, Live, LivePC
      <3> QED
        BY <3>1, EventLogAssumption DEF EventBudget, Lesser
    <2>2. ~FlushRaises(s)
      <3>1. CASE Live(s)
        BY <1>1, <3>1, FlushedLog
      <3>2. CASE ~Live(s)
        BY <1>1, <3>2 DEF TurnInv, Sane, TextKept, Live, LivePC, FlushRaises, MustFlush, NoEmitter
      <3> QED
        BY <3>1, <3>2
    <2>3. ASSUME pc[s] = "call", s \in Streaming, NEW n \in Fragments
          PROVE  ~PushRaises(s, n)
      <3>1. /\ emitter[s] \in Emitters /\ MaxOutput - chars[s] \in Nat /\ n \in Nat
            /\ Sound(emitter[s], Len(events[s]), MaxOutput - chars[s])
        BY <1>1, <2>3, SessionsAssumption DEF TurnInv, Sane, TextKept, Ownership, TypeOK
      <3>2. Len(events[s]) \in Nat
        BY <1>1 DEF TurnInv, Ownership, TypeOK
      <3> QED
        BY <3>1, <3>2, FlushHasRoom DEF PushRaises
    <2> QED
      BY <2>1, <2>2, <2>3
  <1>2. TurnInv => ReserveSuffices
    BY <1>1 DEF ReserveSuffices
  <1> QED
    BY <1>2, TurnInvariant, PTL

(* The service implements the lifecycle a consumer is promised: one event  *)
(* log per session that only grows, an outcome event in the very step that *)
(* ends a turn, resumption by input only, and finality.                    *)
THEOREM ImplementsLifecycleThm == Spec => ImplementsLifecycle
  <1>1. Init => Lifecycle!Init
    BY DEF Init, Lifecycle!Init, Phase
  <1>2. TurnInv /\ [Next]_vars => [Lifecycle!Next]_(Lifecycle!vars)
    BY StepKeeps
  <1> QED
    BY <1>1, <1>2, TurnInvariant, PTL DEF Spec, ImplementsLifecycle, Lifecycle!Spec

=============================================================================
