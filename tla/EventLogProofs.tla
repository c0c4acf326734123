--------------------------- MODULE EventLogProofs ---------------------------
(***************************************************************************)
(* Facts about the operators of EventLog that the proofs of Emitter and of *)
(* Sessions share.                                                         *)
(***************************************************************************)
EXTENDS EventLog, TLAPS

(* Rounding up: m chunks of (r + m - 1) \div m hold r characters.          *)
LEMMA CeilingCovers ==
  ASSUME NEW r \in Nat, NEW m \in Nat \ {0}
  PROVE  ((r + m - 1) \div m) * m >= r
  <1> DEFINE q == (r + m - 1) \div m
  <1> DEFINE k == (r + m - 1) % m
  <1>1. r + m - 1 \in Nat
    OBVIOUS
  <1>2. q \in Int /\ k \in 0 .. m - 1 /\ r + m - 1 = m * q + k
    BY <1>1
  <1> HIDE DEF q, k
  <1>3. m * q = q * m
    BY <1>2
  <1>4. q * m >= r
    BY <1>2, <1>3
  <1> QED
    BY <1>4 DEF q

LEMMA BufferFields ==
  ASSUME NEW r \in Emitters, NEW n \in Nat
  PROVE  /\ Buffer(r, n) \in Emitters
         /\ Buffer(r, n).budget = r.budget /\ Buffer(r, n).chunk = r.chunk
         /\ Buffer(r, n).text = r.text + n /\ Buffer(r, n).pending = r.pending + n
         /\ Buffer(r, n).emitted = r.emitted
  <1> DEFINE pushed == [r EXCEPT !.text = @ + n]
  <1>1. /\ pushed \in Emitters /\ pushed.budget = r.budget /\ pushed.chunk = r.chunk
        /\ pushed.text = r.text + n /\ pushed.pending = r.pending /\ pushed.emitted = r.emitted
    BY DEF Emitters
  <1>2. Buffer(r, n) = [pushed EXCEPT !.pending = r.pending + n]
    BY DEF Buffer
  <1> HIDE DEF pushed
  <1> QED
    BY <1>1, <1>2 DEF Emitters

LEMMA FlushedFields ==
  ASSUME NEW r \in Emitters
  PROVE  /\ Flushed(r) \in Emitters
         /\ Flushed(r).budget = r.budget /\ Flushed(r).chunk = r.chunk
         /\ Flushed(r).text = r.text /\ Flushed(r).pending = 0
         /\ Flushed(r).emitted = r.emitted + 1
  <1> DEFINE drained == [r EXCEPT !.pending = 0]
  <1>1. /\ drained \in Emitters /\ drained.budget = r.budget /\ drained.chunk = r.chunk
        /\ drained.text = r.text /\ drained.pending = 0 /\ drained.emitted = r.emitted
    BY DEF Emitters
  <1>2. Flushed(r) = [drained EXCEPT !.emitted = r.emitted + 1]
    BY DEF Flushed
  <1> HIDE DEF drained
  <1> QED
    BY <1>1, <1>2 DEF Emitters

LEMMA ProductMonotone ==
  ASSUME NEW a \in Int, NEW b \in Int, NEW c \in Nat, a <= b
  PROVE  a * c <= b * c
  OBVIOUS

(* A new emitter is well formed whenever the call has a budget of two.     *)
LEMMA NewEmitterType ==
  ASSUME NEW n \in Nat, NEW r \in Int, EventBudget(n) >= 2
  PROVE  NewEmitter(n, r) \in Emitters
  <1> DEFINE b == EventBudget(n)
             m == b - 1
  <1>1. b \in Int /\ m \in Nat \ {0}
    BY EventLogAssumption DEF EventBudget, Lesser
  <1>2. ChunkChars(b, r) \in Int
    <2>1. r + m - 1 \in Int
      BY <1>1
    <2> HIDE DEF b, m
    <2>2. (r + m - 1) \div m \in Int
      BY <1>1, <2>1
    <2>3. (r + (b - 1) - 1) \div (b - 1) \in Int
      BY <2>2 DEF m
    <2> QED
      BY <2>3, EventLogAssumption DEF ChunkChars, Greater
  <1> HIDE DEF b
  <1> QED
    BY <1>1, <1>2 DEF NewEmitter, Emitters, b

-----------------------------------------------------------------------------
(* What holds of the emitter of an open call that has remaining characters *)
(* of output, beside a log of len events.  The budget leaves a slot free   *)
(* after the deltas, budget - 1 chunks hold what may be pushed, and the    *)
(* text already emitted fills a chunk per delta but the first.             *)
Sized(em, len, remaining) ==
  /\ em.budget >= 2 /\ len + em.budget <= MaxEvents - 1 + em.emitted
  /\ em.chunk >= 1 /\ em.chunk * (em.budget - 1) >= remaining

Counted(em, remaining) ==
  /\ em.text <= remaining /\ em.pending <= em.text /\ em.emitted <= em.budget
  /\ em.emitted = 0 => em.text = 0
  /\ em.emitted > 0 => /\ em.text - em.pending >= 1 + (em.emitted - 1) * em.chunk
                       /\ em.pending < em.chunk

Sound(em, len, remaining) == Sized(em, len, remaining) /\ Counted(em, remaining)

(* The budget of an open call is never exhausted: with budget deltas out,  *)
(* more text than the call may produce would have been pushed.             *)
LEMMA BudgetLeft ==
  ASSUME NEW em \in Emitters, NEW len \in Nat, NEW remaining \in Nat, Sound(em, len, remaining)
  PROVE  em.emitted < em.budget
  <1> USE DEF Sound, Sized, Counted, Emitters
  <1> SUFFICES ASSUME em.emitted = em.budget
               PROVE  FALSE
    OBVIOUS
  <1>1. em.text - em.pending >= 1 + (em.budget - 1) * em.chunk
    OBVIOUS
  <1>2. (em.budget - 1) * em.chunk = em.chunk * (em.budget - 1)
    OBVIOUS
  <1>3. em.text - em.pending >= 1 + remaining
    BY <1>1, <1>2
  <1> QED
    BY <1>3

(* Neither a fragment nor the final flush of an open call is refused.      *)
LEMMA FlushHasRoom ==
  ASSUME NEW em \in Emitters, NEW len \in Nat, NEW remaining \in Nat, Sound(em, len, remaining),
         NEW n \in Nat
  PROVE  CanFlush(Buffer(em, n), len) /\ CanFlush(em, len)
  <1>1. em.emitted < em.budget
    BY BudgetLeft
  <1>2. Buffer(em, n).emitted = em.emitted /\ Buffer(em, n).budget = em.budget
    BY BufferFields
  <1>3. HasRoom(len, "assistant_text_delta")
    BY <1>1, EventLogAssumption
       DEF Sound, Sized, Emitters, HasRoom, EventLimit, TerminalEventTypes
  <1> QED
    BY <1>1, <1>2, <1>3 DEF CanFlush

LEMMA NewEmitterSound ==
  ASSUME NEW n \in Nat, NEW r \in Nat, EventBudget(n) >= 2
  PROVE  NewEmitter(n, r) \in Emitters /\ Sound(NewEmitter(n, r), n, r)
  <1> DEFINE b == EventBudget(n)
             m == b - 1
             q == (r + m - 1) \div m
             c == ChunkChars(b, r)
  <1>1. b \in Int /\ m \in Nat \ {0} /\ b >= 2 /\ n + b <= MaxEvents - 1
    BY EventLogAssumption DEF EventBudget, Lesser
  <1>2. q \in Int /\ q * m >= r
    <2> HIDE DEF b, m
    <2> QED
      BY <1>1, CeilingCovers
  <1>3. c \in Int /\ c >= 1 /\ c >= q
    <2>1. c = Greater(StreamChars, q)
      BY DEF ChunkChars
    <2> HIDE DEF c, q
    <2> QED
      BY <1>2, <2>1, EventLogAssumption DEF Greater
  <1>4. c * m >= r
    <2> HIDE DEF b, m, q, c
    <2>1. q * m <= c * m
      BY <1>1, <1>2, <1>3, ProductMonotone
    <2> QED
      BY <1>1, <1>2, <1>3, <2>1
  <1>5. NewEmitter(n, r) = [budget |-> b, chunk |-> c, text |-> 0, pending |-> 0, emitted |-> 0]
    BY DEF NewEmitter
  <1>6. c * (b - 1) >= r
    BY <1>4
  <1> DEFINE new == NewEmitter(n, r)
  <1>7. /\ new.budget = b /\ new.chunk = c /\ new.text = 0 /\ new.pending = 0 /\ new.emitted = 0
        /\ new \in Emitters
    <2> HIDE DEF b, m, q, c
    <2> QED
      BY <1>1, <1>3, <1>5 DEF Emitters
  <1> HIDE DEF b, m, q, c, new
  <1>8. Sized(new, n, r)
    BY <1>1, <1>3, <1>6, <1>7, EventLogAssumption DEF Sized
  <1>9. Counted(new, r)
    BY <1>1, <1>7 DEF Counted
  <1> QED
    BY <1>7, <1>8, <1>9 DEF Sound, new

(* A fragment within the output limit keeps the emitter sound, whether its *)
(* text goes out as a delta or waits for a whole chunk.                    *)
LEMMA PushSound ==
  ASSUME NEW em \in Emitters, NEW len \in Nat, NEW remaining \in Nat, Sound(em, len, remaining),
         NEW n \in Nat \ {0}, em.text + n <= remaining
  PROVE  IF FlushDue(Buffer(em, n))
         THEN Sound(Flushed(Buffer(em, n)), len + 1, remaining)
         ELSE Sound(Buffer(em, n), len, remaining)
  <1> DEFINE b == Buffer(em, n)
             f == Flushed(b)
  <1>1. em.emitted < em.budget
    BY BudgetLeft
  <1>2. /\ b \in Emitters
        /\ b.budget = em.budget /\ b.chunk = em.chunk /\ b.emitted = em.emitted
        /\ b.text = em.text + n /\ b.pending = em.pending + n
    BY BufferFields
  <1>3. /\ f \in Emitters
        /\ f.budget = em.budget /\ f.chunk = em.chunk /\ f.emitted = em.emitted + 1
        /\ f.text = em.text + n /\ f.pending = 0
    <2> HIDE DEF b
    <2> QED
      BY <1>2, FlushedFields
  <1> HIDE DEF b, f
  <1> USE DEF Emitters
  <1>4. CASE FlushDue(b)
    <2>1. f.text >= 1 + em.emitted * em.chunk
      <3>1. CASE em.emitted = 0
        BY <1>3, <3>1
      <3>2. CASE em.emitted > 0
        <4>1. em.pending + n >= em.chunk
          BY <1>2, <1>4, <3>2 DEF FlushDue
        <4>2. em.text - em.pending >= 1 + (em.emitted - 1) * em.chunk
          BY <3>2 DEF Sound, Counted
        <4>3. (em.emitted - 1) * em.chunk + em.chunk = em.emitted * em.chunk
              /\ (em.emitted - 1) * em.chunk \in Int
          OBVIOUS
        <4> QED
          BY <1>3, <4>1, <4>2, <4>3
      <3> QED
        BY <3>1, <3>2
    <2>2. (f.emitted - 1) * f.chunk = em.emitted * em.chunk
      BY <1>3
    <2>3. Counted(f, remaining)
      BY <1>1, <1>3, <2>1, <2>2 DEF Sound, Sized, Counted
    <2>4. Sized(f, len + 1, remaining)
      BY <1>3, EventLogAssumption DEF Sound, Sized
    <2> QED
      BY <1>4, <2>3, <2>4 DEF Sound, f, b
  <1>5. CASE ~FlushDue(b)
    <2>1. b.emitted > 0 /\ b.pending < b.chunk
      BY <1>2, <1>5 DEF FlushDue
    <2>2. b.text - b.pending = em.text - em.pending
      BY <1>2
    <2>3. Counted(b, remaining)
      BY <1>2, <2>1, <2>2 DEF Sound, Counted
    <2>4. Sized(b, len, remaining)
      BY <1>2 DEF Sound, Sized
    <2> QED
      BY <1>5, <2>3, <2>4 DEF Sound, b
  <1> QED
    BY <1>4, <1>5

=============================================================================
