------------------------------ MODULE EventLog ------------------------------
(***************************************************************************)
(* The bounded event log of one session and the emitter that coalesces a   *)
(* provider's text fragments into it (service.py: SessionRecord.add_event  *)
(* and _TextDeltaEmitter).  Operators only: the emitter is a record, the   *)
(* log is represented by its length.  Fragments are represented by their   *)
(* number of characters.                                                   *)
(***************************************************************************)
EXTENDS Integers

CONSTANTS MaxEvents,     \* MAX_EVENTS, 512 in the code
          Reserve,       \* the 8 of _ensure_schedulable's MAX_EVENTS - 8
          StreamBudget,  \* STREAM_EVENT_BUDGET, 256 in the code
          StreamChars    \* STREAM_EVENT_CHARS, 128 in the code

ASSUME EventLogAssumption ==
  /\ MaxEvents \in Nat
  /\ Reserve \in 4 .. MaxEvents
  /\ StreamBudget \in Nat /\ StreamBudget >= 2
  /\ StreamChars \in Nat \ {0}

TerminalEventTypes == {"session_completed", "session_failed", "session_canceled"}

EventTypes == TerminalEventTypes \cup
  {"session_created", "provider_started", "context_reduced", "assistant_text_delta",
   "tool_requests", "tool_results_received", "user_input_received"}

\* Mutant: the last slot is not kept back.
EventLimitShared(type) == MaxEvents - 1

(* One slot is kept back for the event that ends a turn. *)
EventLimit(type) == IF type \in TerminalEventTypes THEN MaxEvents ELSE MaxEvents - 1

HasRoom(len, type) == len < EventLimit(type)

(* The log still has the reserve a provider call may need. *)
CallFits(len) == len < MaxEvents - Reserve

-----------------------------------------------------------------------------
(* The emitter of one provider call.  pending is the text buffered but not *)
(* yet an event, text everything pushed in this call, emitted the events   *)
(* already added for it (emitted_once is emitted > 0).                     *)

Emitters == [budget : Int, chunk : Int, text : Nat, pending : Nat, emitted : Nat]

NoEmitter == [budget |-> 0, chunk |-> 0, text |-> 0, pending |-> 0, emitted |-> 0]

Lesser(a, b) == IF a < b THEN a ELSE b
Greater(a, b) == IF a > b THEN a ELSE b

EventBudget(len) == Lesser(StreamBudget, MaxEvents - len - 1)

\* Mutant: chunks that do not grow with the text a call may still produce.
ChunkCharsFixed(budget, remaining) == StreamChars

ChunkChars(budget, remaining) ==
  Greater(StreamChars, (remaining + (budget - 1) - 1) \div (budget - 1))

NewEmitter(len, remaining) ==
  [budget |-> EventBudget(len), chunk |-> ChunkChars(EventBudget(len), remaining),
   text |-> 0, pending |-> 0, emitted |-> 0]

Buffer(em, n) == [em EXCEPT !.text = @ + n, !.pending = @ + n]

\* Mutant: the first fragment waits for a whole chunk.
FlushDueByChunk(em) == em.pending >= em.chunk

(* push: the first fragment goes out at once, later ones by whole chunks.  *)
FlushDue(em) == em.emitted = 0 \/ em.pending >= em.chunk

(* flush succeeds: there is budget, and the log takes one more delta.      *)
CanFlush(em, len) ==
  /\ em.emitted < em.budget
  /\ HasRoom(len, "assistant_text_delta")

\* Mutant: a flush that takes one chunk off the buffer.
FlushedByChunk(em) == [em EXCEPT !.pending = @ - em.chunk, !.emitted = @ + 1]

Flushed(em) == [em EXCEPT !.pending = 0, !.emitted = @ + 1]

=============================================================================
