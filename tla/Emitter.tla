------------------------------ MODULE Emitter ------------------------------
(***************************************************************************)
(* One streamed provider call seen by its _TextDeltaEmitter, character by  *)
(* character: a call that _schedule admitted, the fragments it pushes and  *)
(* the flush of the finally clause.  Sessions takes the same operators     *)
(* through small sizes; here they run on their own, and are proved, for    *)
(* every size.                                                             *)
(***************************************************************************)
EXTENDS EventLog

CONSTANTS MaxOutput, FragmentSizes

ASSUME EmitterAssumption ==
  /\ MaxOutput \in Nat
  /\ FragmentSizes \subseteq Nat \ {0}

VARIABLES em,    \* the emitter
          used,  \* record.output_chars as the call starts
          first, \* the length of the log as the emitter is made
          len,   \* the length of the log
          open   \* the call has not returned

vars == <<em, used, first, len, open>>

(* _schedule admitted the call, logged provider_started, and planning may  *)
(* have logged context_reduced.                                            *)
Init ==
  /\ first \in {n + k : n \in {m \in 1 .. MaxEvents : CallFits(m)}, k \in {1, 2}}
  /\ used \in 0 .. MaxOutput
  /\ len = first
  /\ em = NewEmitter(first, MaxOutput - used)
  /\ open = TRUE

Accepted(n) == used + em.text + n <= MaxOutput

(* A fragment whose flush would raise: the log refuses its text.           *)
Refused(n) == FlushDue(Buffer(em, n)) /\ ~CanFlush(Buffer(em, n), len)

Push(n) ==
  /\ open /\ Accepted(n) /\ ~Refused(n)
  /\ IF FlushDue(Buffer(em, n))
     THEN em' = Flushed(Buffer(em, n)) /\ len' = len + 1
     ELSE em' = Buffer(em, n) /\ UNCHANGED len
  /\ UNCHANGED <<used, first, open>>

Finish ==
  /\ open /\ open' = FALSE
  /\ IF em.pending > 0 /\ CanFlush(em, len)
     THEN em' = Flushed(em) /\ len' = len + 1
     ELSE UNCHANGED <<em, len>>
  /\ UNCHANGED <<used, first>>

Next == (\E n \in FragmentSizes : Push(n)) \/ Finish

Spec == Init /\ [][Next]_vars

-----------------------------------------------------------------------------
(* No text within the output limit is ever refused by the event budget or  *)
(* by the log, however the provider cuts it into fragments, and all of it  *)
(* has left the buffer when the call returns.                              *)
TextNeverRefused ==
  /\ open => \A n \in FragmentSizes : Accepted(n) => ~Refused(n)
  /\ open /\ em.pending > 0 => CanFlush(em, len)
  /\ ~open => em.pending = 0

(* The first fragment leaves at once, and less than a chunk is held back.  *)
Prompt == em.text > 0 => em.emitted > 0 /\ em.pending < em.chunk

(* However much was streamed, the event that ends the turn has a slot.     *)
RoomForOutcome == \A type \in TerminalEventTypes : HasRoom(len, type)

=============================================================================
