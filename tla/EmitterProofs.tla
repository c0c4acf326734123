--------------------------- MODULE EmitterProofs ---------------------------
(***************************************************************************)
(* For every size of log, reserve, budget, chunk and output: a streamed    *)
(* call never loses text to the event budget.  The arithmetic is that of   *)
(* Sound (EventLogProofs): every delta but the first carries at least a    *)
(* chunk, and budget - 1 chunks hold all the text the call may produce.    *)
(***************************************************************************)
EXTENDS Emitter, EventLogProofs

Remaining == MaxOutput - used

(* What is left of the arithmetic once the call has returned.              *)
Closed ==
  /\ em.pending = 0 /\ em.chunk >= 1 /\ len <= MaxEvents - 1
  /\ em.emitted = 0 => em.text = 0

IInv ==
  /\ em \in Emitters /\ used \in 0 .. MaxOutput /\ len \in Nat /\ open \in BOOLEAN
  /\ open => Sound(em, len, Remaining)
  /\ ~open => Closed

LEMMA RemainingNat ==
  ASSUME IInv
  PROVE  Remaining \in Nat
  BY EmitterAssumption DEF IInv, Remaining

LEMMA InitIInv == Init => IInv
  <1> SUFFICES ASSUME Init PROVE IInv
    OBVIOUS
  <1> USE EventLogAssumption, EmitterAssumption
  <1>1. first \in Nat /\ first + 2 < MaxEvents
    BY DEF Init, CallFits
  <1>2. EventBudget(first) >= 2
    BY <1>1 DEF EventBudget, Lesser
  <1>3. Remaining \in Nat /\ used \in 0 .. MaxOutput /\ len = first /\ open = TRUE
    BY DEF Init, Remaining
  <1>4. em = NewEmitter(first, Remaining)
    BY DEF Init, Remaining
  <1>5. em \in Emitters /\ Sound(em, len, Remaining)
    BY <1>1, <1>2, <1>3, <1>4, NewEmitterSound
  <1> QED
    BY <1>1, <1>3, <1>5 DEF IInv

LEMMA PushIInv ==
  ASSUME IInv, NEW n \in FragmentSizes, Push(n)
  PROVE  IInv'
  <1> DEFINE b == Buffer(em, n)
  <1>1. n \in Nat \ {0} /\ UNCHANGED <<used, open>> /\ open /\ UNCHANGED Remaining
    BY EmitterAssumption DEF Push, Remaining
  <1>2. em \in Emitters /\ len \in Nat /\ Remaining \in Nat /\ Sound(em, len, Remaining)
    BY <1>1, RemainingNat DEF IInv
  <1>3. em.text + n <= Remaining
    BY <1>1, <1>2, EmitterAssumption DEF Push, Accepted, Remaining, IInv, Emitters
  <1>4. b \in Emitters
    BY <1>1, <1>2, BufferFields
  <1>5. Flushed(b) \in Emitters
    <2> HIDE DEF b
    <2> QED
      BY <1>4, FlushedFields
  <1>6. IF FlushDue(b) THEN Sound(Flushed(b), len + 1, Remaining) ELSE Sound(b, len, Remaining)
    BY <1>1, <1>2, <1>3, PushSound
  <1>7. IF FlushDue(b) THEN em' = Flushed(b) /\ len' = len + 1 ELSE em' = b /\ len' = len
    BY DEF Push
  <1> HIDE DEF b
  <1> QED
    BY <1>1, <1>2, <1>4, <1>5, <1>6, <1>7 DEF IInv

LEMMA FinishIInv ==
  ASSUME IInv, Finish
  PROVE  IInv'
  <1> USE EventLogAssumption
  <1>1. open /\ ~open' /\ open' \in BOOLEAN /\ UNCHANGED used
    BY DEF Finish
  <1>2. em \in Emitters /\ len \in Nat /\ Remaining \in Nat /\ Sound(em, len, Remaining)
    BY <1>1, RemainingNat DEF IInv
  <1>3. em.emitted < em.budget /\ CanFlush(em, len)
    BY <1>2, BudgetLeft, FlushHasRoom
  <1>4. CASE em.pending > 0
    <2>1. em' = Flushed(em) /\ len' = len + 1
      BY <1>3, <1>4 DEF Finish
    <2>2. /\ em' \in Emitters /\ em'.chunk = em.chunk /\ em'.pending = 0
          /\ em'.emitted = em.emitted + 1
      BY <1>2, <2>1, FlushedFields
    <2>3. Closed'
      BY <1>2, <1>3, <2>1, <2>2 DEF Closed, Sound, Sized, Emitters
    <2> QED
      BY <1>1, <1>2, <2>1, <2>2, <2>3 DEF IInv
  <1>5. CASE ~(em.pending > 0)
    <2>1. em' = em /\ len' = len /\ em.pending = 0
      BY <1>2, <1>5 DEF Finish, Emitters
    <2>2. Closed'
      BY <1>2, <1>3, <2>1 DEF Closed, Sound, Sized, Counted, Emitters
    <2> QED
      BY <1>1, <1>2, <2>1, <2>2 DEF IInv
  <1> QED
    BY <1>4, <1>5

(* The inductive invariant holds throughout every streamed call.           *)
THEOREM EmitterInvariant == Spec => []IInv
  <1>1. IInv /\ [Next]_vars => IInv'
    <2> SUFFICES ASSUME IInv, [Next]_vars PROVE IInv'
      OBVIOUS
    <2>1. CASE UNCHANGED vars
      BY <2>1 DEF vars, IInv, Closed, Remaining
    <2> QED
      BY <2>1, PushIInv, FinishIInv DEF Next
  <1> QED
    BY <1>1, InitIInv, PTL DEF Spec

(* No text within the output limit is refused, and none stays buffered     *)
(* when the call returns: _TextDeltaEmitter never raises event_limit.      *)
THEOREM TextNeverRefusedThm == Spec => []TextNeverRefused
  <1>1. IInv => TextNeverRefused
    <2> SUFFICES ASSUME IInv PROVE TextNeverRefused
      OBVIOUS
    <2>1. ASSUME open, NEW n \in FragmentSizes PROVE ~Refused(n) /\ CanFlush(em, len)
      BY <2>1, FlushHasRoom, RemainingNat, EmitterAssumption DEF IInv, Refused
    <2>2. open => CanFlush(em, len)
      <3>1. ASSUME open PROVE CanFlush(em, len)
        <4>1. 0 \in Nat
          OBVIOUS
        <4> QED
          BY <3>1, <4>1, FlushHasRoom, RemainingNat DEF IInv
      <3> QED
        BY <3>1
    <2>3. ~open => em.pending = 0
      BY DEF IInv, Closed
    <2> QED
      BY <2>1, <2>2, <2>3 DEF TextNeverRefused
  <1> QED
    BY <1>1, EmitterInvariant, PTL

(* The first fragment is out at once and less than a chunk waits.          *)
THEOREM PromptThm == Spec => []Prompt
  <1>1. IInv => Prompt
    BY DEF IInv, Closed, Sound, Sized, Counted, Emitters, Prompt
  <1> QED
    BY <1>1, EmitterInvariant, PTL

(* The terminal event of the turn always finds the slot kept back for it.  *)
THEOREM RoomForOutcomeThm == Spec => []RoomForOutcome
  <1>1. IInv => RoomForOutcome
    <2> SUFFICES ASSUME IInv PROVE RoomForOutcome
      OBVIOUS
    <2>1. len <= MaxEvents - 1
      <3>1. CASE open
        <4>1. em.emitted < em.budget
          BY <3>1, BudgetLeft, RemainingNat DEF IInv
        <4> QED
          BY <3>1, <4>1, EventLogAssumption DEF IInv, Sound, Sized, Emitters
      <3>2. CASE ~open
        BY <3>2 DEF IInv, Closed
      <3> QED
        BY <3>1, <3>2
    <2> QED
      BY <2>1, EventLogAssumption DEF IInv, RoomForOutcome, HasRoom, EventLimit
  <1> QED
    BY <1>1, EmitterInvariant, PTL

=============================================================================
