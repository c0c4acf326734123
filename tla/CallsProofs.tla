---------------------------- MODULE CallsProofs ----------------------------
(***************************************************************************)
(* Calls for any number of callers, pages, slots and cancellations:        *)
(* nothing outlives a call, and a cancelled call ends as cancelled.        *)
(***************************************************************************)
EXTENDS Calls, FiniteSetTheorems, TLAPS

Results == {"none", "ok", "failed", "canceled"}

Vectors == {DecodeEmbeddings(items) : items \in Batches \cup {Failed}} \cup {<<>>}

Processes == [group : SUBSET {"leader", "descendant"}, reaped : BOOLEAN, escaped : BOOLEAN,
              unread : BOOLEAN, readers : {"none", "running", "canceled", "done"},
              answers : 0 .. Requests]

Points == {"idle", "spawn", "exchange", "gather", "drain", "embed", "done"}

Steps == {"none", "main", "cleanup", "page", "version", "authentication"}

Records ==
  [kind : {"none", "complete", "disposable", "health", "discover", "embed"},
   pc : Points, step : Steps,
   process : Processes, raised : Results, directory : BOOLEAN, result : Results,
   pages : Nat, seen : SUBSET Cursors, vectors : Vectors, cancels : Nat]

(* The process a call no longer exchanges with has ended, and nobody reads *)
(* from it.                                                                *)
Released(call) == call.process.group = {} /\ call.process.readers # "running"

(* A cancellation that met the main run waits out Grok's cleanup.          *)
Canceled(call) == call.step = "cleanup" /\ call.result = "canceled"

Remembers(call) ==
  call.cancels > 0 =>
    /\ call.pc \in {"spawn", "exchange"} => Canceled(call)
    /\ call.pc \in {"gather", "drain"} => Canceled(call) \/ call.raised = "canceled"
    /\ call.pc = "done" => call.result = "canceled"
    /\ call.pc # "embed"

(* An embedding batch needs no process, and if it ends well each text has  *)
(* its own vector.                                                         *)
Embedded(call) ==
  call.kind = "embed" =>
    /\ call.pc \in {"embed", "done"}
    /\ call.result = "ok" => call.vectors = [text \in 1 .. Texts |-> text]

Sound(call) ==
  /\ call.pc # "exchange" => Released(call)
  /\ call.pc = "done" => ~call.directory
  /\ Remembers(call) /\ Embedded(call)

Embedding == {c \in Call : calls[c].pc = "embed"}

(* The inductive invariant. *)
Tidy ==
  /\ calls \in [Call -> Records]
  /\ \A c \in Call : Sound(calls[c])
  /\ active = Cardinality(Embedding) /\ active <= MaxActive

-----------------------------------------------------------------------------
(* One call changes, and keeps or keeps out of its slot.                   *)
LEMMA OneCall ==
  ASSUME Tidy, NEW c \in Call, NEW r \in Records, Sound(r), Set(c, r),
         r.pc = "embed" <=> calls[c].pc = "embed", UNCHANGED active
  PROVE  Tidy'
<1>1. calls' \in [Call -> Records]
  BY DEF Tidy, Set
<1>2. \A d \in Call : calls'[d] = IF d = c THEN r ELSE calls[d]
  BY DEF Tidy, Set
<1>3. \A d \in Call : Sound(calls'[d])
  BY <1>2 DEF Tidy
<1>4. Embedding' = Embedding
  BY <1>2 DEF Embedding
<1> QED BY <1>1, <1>3, <1>4 DEF Tidy

(* A field of a call may be set to any value of its type. *)
LEMMA Update ==
  ASSUME NEW call \in Records
  PROVE  /\ \A kind \in {"none", "complete", "disposable", "health", "discover", "embed"} :
              [call EXCEPT !.kind = kind] \in Records
         /\ \A pc \in Points : [call EXCEPT !.pc = pc] \in Records
         /\ \A step \in Steps : [call EXCEPT !.step = step] \in Records
         /\ \A process \in Processes : [call EXCEPT !.process = process] \in Records
         /\ \A raised \in Results : [call EXCEPT !.raised = raised] \in Records
         /\ \A directory \in BOOLEAN : [call EXCEPT !.directory = directory] \in Records
         /\ \A result \in Results : [call EXCEPT !.result = result] \in Records
         /\ \A pages \in Nat : [call EXCEPT !.pages = pages] \in Records
         /\ \A seen \in SUBSET Cursors : [call EXCEPT !.seen = seen] \in Records
         /\ \A vectors \in Vectors : [call EXCEPT !.vectors = vectors] \in Records
         /\ \A cancels \in Nat : [call EXCEPT !.cancels = cancels] \in Records
BY DEF Records

LEMMA NoProcessTyped ==
  NoProcess \in Processes /\ NoProcess.group = {} /\ NoProcess.readers = "none"
BY DEF NoProcess, Processes, Requests

LEMMA SpawningSound ==
  ASSUME NEW call \in Records, NEW step \in Steps, call.kind # "embed",
         call.cancels > 0 => step = "cleanup" /\ call.result = "canceled"
  PROVE  /\ Spawning(call, step) \in Records /\ Sound(Spawning(call, step))
         /\ Spawning(call, step).pc # "embed"
<1> HIDE DEF NoProcess
<1>1. Spawning(call, step) \in Records
  <2> DEFINE a == [call EXCEPT !.pc = "spawn"]
             b == [a EXCEPT !.step = step]
             d == [b EXCEPT !.raised = "none"]
             e == [d EXCEPT !.process = NoProcess]
             f == [e EXCEPT !.directory = TRUE]
  <2>1. a \in Records BY Update DEF Points
  <2>2. b \in Records BY <2>1, Update
  <2>3. d \in Records BY <2>2, Update DEF Results
  <2>4. e \in Records BY <2>3, Update, NoProcessTyped
  <2>5. f \in Records BY <2>4, Update
  <2>6. Spawning(call, step) = f BY DEF Spawning
  <2> QED BY <2>5, <2>6
<1>2. /\ Spawning(call, step).kind = call.kind
      /\ Spawning(call, step).pc = "spawn" /\ Spawning(call, step).step = step
      /\ Spawning(call, step).process = NoProcess
      /\ Spawning(call, step).result = call.result
      /\ Spawning(call, step).cancels = call.cancels
  BY DEF Spawning, Records
<1> HIDE DEF Spawning
<1> QED BY <1>1, <1>2, NoProcessTyped DEF Sound, Released, Remembers, Canceled, Embedded

LEMMA EndedFields ==
  ASSUME NEW call \in Records, NEW result \in Results
  PROVE  /\ Ended(call, result) \in Records
         /\ Ended(call, result).kind = call.kind
         /\ Ended(call, result).pc = "done" /\ Ended(call, result).process = call.process
         /\ Ended(call, result).directory = FALSE /\ Ended(call, result).result = result
         /\ Ended(call, result).cancels = call.cancels
<1>1. Ended(call, result) \in Records
  <2> DEFINE a == [call EXCEPT !.pc = "done"]
             b == [a EXCEPT !.directory = FALSE]
             d == [b EXCEPT !.result = result]
  <2>1. a \in Records BY Update DEF Points
  <2>2. b \in Records BY <2>1, Update
  <2>3. d \in Records BY <2>2, Update
  <2>4. Ended(call, result) = d BY DEF Ended
  <2> QED BY <2>3, <2>4
<1>2. /\ Ended(call, result).kind = call.kind
      /\ Ended(call, result).pc = "done" /\ Ended(call, result).process = call.process
      /\ Ended(call, result).directory = FALSE /\ Ended(call, result).result = result
      /\ Ended(call, result).cancels = call.cancels
  BY DEF Ended, Records
<1> QED BY <1>1, <1>2

LEMMA EndedSound ==
  ASSUME NEW call \in Records, NEW result \in Results, Released(call),
         call.kind # "embed" \/ result # "ok",
         call.cancels > 0 => result = "canceled"
  PROVE  /\ Ended(call, result) \in Records /\ Sound(Ended(call, result))
         /\ Ended(call, result).pc # "embed"
BY EndedFields DEF Sound, Released, Remembers, Embedded

(* What a runner leads to keeps its type and its promises, when the        *)
(* process is gone and a cancellation is on its way or remembered.         *)
LEMMA AfterSound ==
  ASSUME NEW call \in Records, NEW result \in Results, NEW next \in Cursors \cup {None},
         Released(call), call.kind # "embed",
         call.cancels > 0 => Canceled(call) \/ result = "canceled"
  PROVE  /\ After(call, result, next) \in Records
         /\ Sound(After(call, result, next))
         /\ After(call, result, next).pc # "embed"
<1> USE DEF Results
<1>1. CASE call.step = "main"
  <2> DEFINE judged == [call EXCEPT !.result = result]
  <2>0. judged \in Records BY Update
  <2>1. judged.kind = call.kind /\ judged.cancels = call.cancels /\ judged.result = result BY DEF Records
  <2>2. Spawning(judged, "cleanup") \in Records /\ Sound(Spawning(judged, "cleanup"))
        /\ Spawning(judged, "cleanup").pc # "embed"
    BY <1>1, <2>0, <2>1, SpawningSound DEF Canceled, Steps
  <2>3. After(call, result, next) = AfterMain(call, result)
    BY <1>1 DEF After
  <2> QED BY <1>1, <2>2, <2>3, EndedSound DEF AfterMain, Canceled
<1>2. CASE call.step = "cleanup"
  <2> DEFINE outcome == IF result = "canceled" THEN "canceled" ELSE call.result
  <2>1. After(call, result, next) = Ended(call, outcome)
    BY <1>2 DEF After, AfterCleanup
  <2>2. outcome \in Results BY DEF Records
  <2>3. call.cancels > 0 => outcome = "canceled" BY DEF Canceled
  <2> HIDE DEF outcome
  <2> QED BY <2>1, <2>2, <2>3, EndedSound
<1>3. CASE call.step = "page"
  <2> DEFINE page == [call EXCEPT !.pages = @ + 1, !.seen = @ \cup {next}]
  <2>1. After(call, result, next) = AfterPage(call, result, next)
    BY <1>3 DEF After
  <2>2. ASSUME result = "ok", next # None
        PROVE  /\ Spawning(page, "page") \in Records /\ Sound(Spawning(page, "page"))
               /\ Spawning(page, "page").pc # "embed"
    <3> DEFINE a == [call EXCEPT !.pages = @ + 1]
    <3>0. a \in Records /\ a.seen = call.seen
      <4>1. call.pages + 1 \in Nat BY DEF Records
      <4>2. a \in Records BY <4>1, Update
      <4>3. a.seen = call.seen BY DEF Records
      <4> QED BY <4>2, <4>3
    <3>1. page \in Records /\ page.cancels = call.cancels /\ page.kind = call.kind
      <4>1. call.seen \cup {next} \in SUBSET Cursors BY <2>2 DEF Records
      <4>2. [a EXCEPT !.seen = call.seen \cup {next}] \in Records BY <3>0, <4>1, Update
      <4>3. page = [a EXCEPT !.seen = call.seen \cup {next}] OBVIOUS
      <4>4. page.cancels = call.cancels /\ page.kind = call.kind BY DEF Records
      <4> QED BY <4>2, <4>3, <4>4
    <3>2. ~(call.cancels > 0)
      BY <1>3, <2>2 DEF Canceled
    <3> QED BY <3>1, <3>2, SpawningSound DEF Steps
  <2>3. call.cancels > 0 => result = "canceled"
    BY <1>3 DEF Canceled
  <2> QED BY <2>1, <2>2, <2>3, EndedSound DEF AfterPage
<1>4. CASE call.step \notin {"main", "cleanup", "page"}
  <2>1. After(call, result, next) = AfterProbe(call, result)
    BY <1>4 DEF After
  <2>2. call.cancels > 0 => result = "canceled"
    BY <1>4 DEF Canceled
  <2> QED BY <2>1, <2>2, EndedSound, SpawningSound DEF AfterProbe, Steps
<1> QED BY <1>1, <1>2, <1>3, <1>4

-----------------------------------------------------------------------------
(* Calls of the invariant, and the steps between them.                     *)
LEMMA Typed ==
  ASSUME Tidy, NEW c \in Call
  PROVE  calls[c] \in Records /\ Sound(calls[c])
BY DEF Tidy

LEMMA NoCallSound == NoCall \in Records /\ Sound(NoCall) /\ NoCall.pc = "idle"
<1>1. <<>> \in Vectors BY DEF Vectors
<1> HIDE DEF NoProcess
<1>2. NoCall \in Records
  BY <1>1, NoProcessTyped DEF NoCall, Records, Points, Steps, Results
<1>3. NoCall.process = NoProcess /\ NoCall.pc = "idle" /\ NoCall.cancels = 0
      /\ NoCall.kind = "none"
  BY DEF NoCall
<1> QED BY <1>2, <1>3, NoProcessTyped DEF Sound, Released, Remembers, Embedded

(* The child's own doings change its process record only. *)
LEMMA ProcessStep ==
  ASSUME Tidy, NEW c \in Call, NEW process \in Processes,
         Set(c, [calls[c] EXCEPT !.process = process]), UNCHANGED active,
         calls[c].pc # "exchange" => process.group = {} /\ process.readers # "running"
  PROVE  Tidy'
<1> DEFINE call == calls[c]
           r    == [call EXCEPT !.process = process]
<1>1. call \in Records /\ Sound(call) BY Typed
<1>2. r \in Records BY <1>1, Update
<1>3. /\ r.pc = call.pc /\ r.process = process /\ r.directory = call.directory
      /\ r.step = call.step /\ r.result = call.result /\ r.raised = call.raised
      /\ r.cancels = call.cancels /\ r.kind = call.kind /\ r.vectors = call.vectors
  BY <1>1 DEF Records
<1>4. Set(c, r) OBVIOUS
<1> HIDE DEF r
<1>5. Sound(r) BY <1>1, <1>3 DEF Sound, Released, Remembers, Canceled, Embedded
<1> QED BY <1>2, <1>3, <1>4, <1>5, OneCall

LEMMA KillTyped ==
  ASSUME NEW process \in Processes, NEW unread \in BOOLEAN
  PROVE  /\ Kill(process, unread) \in Processes
         /\ Kill(process, unread).group = {} /\ Kill(process, unread).readers # "running"
BY DEF Kill, Processes

LEMMA LeftSound ==
  ASSUME NEW call \in Records, NEW result \in Results, NEW unread \in BOOLEAN, call.kind # "embed",
         call.cancels > 0 => Canceled(call) \/ result = "canceled"
  PROVE  /\ Left(call, result, unread) \in Records /\ Sound(Left(call, result, unread))
         /\ Left(call, result, unread).pc # "embed"
<1> DEFINE r == Left(call, result, unread)
           k == Kill(call.process, unread)
<1>1. k \in Processes /\ k.group = {} /\ k.readers # "running"
  <2>1. call.process \in Processes BY DEF Records
  <2> QED BY <2>1, KillTyped
<1> HIDE DEF k
<1>2. r \in Records
  <2> DEFINE a == [call EXCEPT !.pc = "gather"]
             b == [a EXCEPT !.process = k]
             d == [b EXCEPT !.raised = result]
  <2>1. a \in Records BY Update DEF Points
  <2>2. b \in Records BY <2>1, <1>1, Update
  <2>3. d \in Records BY <2>2, Update
  <2>4. r = d BY DEF Left, k
  <2> QED BY <2>3, <2>4
<1>3. /\ r.pc = "gather" /\ r.process = k /\ r.raised = result /\ r.step = call.step
      /\ r.result = call.result /\ r.cancels = call.cancels /\ r.kind = call.kind
  BY DEF Left, Records, k
<1> HIDE DEF r
<1>4. Sound(r) BY <1>1, <1>3 DEF Sound, Released, Remembers, Canceled, Embedded
<1> QED BY <1>2, <1>3, <1>4 DEF r

-----------------------------------------------------------------------------
(* One lemma per operation. *)
LEMMA StartTidy ==
  ASSUME Tidy, NEW c \in Call, NEW kind, Start(c, kind)
  PROVE  Tidy'
<1> DEFINE fresh == [NoCall EXCEPT !.kind = kind]
           step  == CASE kind = "health" -> "version" [] kind = "discover" -> "page"
                      [] OTHER -> "main"
           r     == Spawning(fresh, step)
<1>1. kind \in {"none", "complete", "disposable", "health", "discover", "embed"}
        /\ kind # "embed"
  BY CallsAssumption DEF Start
<1>2. fresh \in Records BY <1>1, NoCallSound, Update
<1>3. fresh.cancels = 0 /\ fresh.kind = kind BY DEF NoCall
<1>4. step \in Steps BY DEF Steps
<1> HIDE DEF fresh, step
<1>5. r \in Records /\ Sound(r) /\ r.pc # "embed" BY <1>1, <1>2, <1>3, <1>4, SpawningSound
<1>6. Set(c, r) /\ UNCHANGED active /\ calls[c].pc = "idle" BY DEF Start, fresh, step
<1> HIDE DEF r
<1> QED BY <1>5, <1>6, OneCall

LEMMA SpawnTidy ==
  ASSUME Tidy, NEW c \in Call, Spawn(c)
  PROVE  Tidy'
<1> DEFINE call == calls[c]
           p    == [NoProcess EXCEPT !.group = {"leader"}, !.reaped = FALSE,
                                     !.readers = "running"]
           r    == [call EXCEPT !.pc = "exchange", !.process = p]
<1>1. call \in Records /\ Sound(call) /\ call.pc = "spawn" BY Typed DEF Spawn
<1>0. call.kind # "embed" BY <1>1 DEF Sound, Embedded
<1>2. CASE Set(c, r)
  <2>1. p \in Processes
    <3> DEFINE a == [NoProcess EXCEPT !.group = {"leader"}]
               b == [a EXCEPT !.reaped = FALSE]
               d == [b EXCEPT !.readers = "running"]
    <3> HIDE DEF NoProcess
    <3>1. a \in Processes BY NoProcessTyped DEF Processes
    <3>2. b \in Processes BY <3>1 DEF Processes
    <3>3. d \in Processes BY <3>2 DEF Processes
    <3>4. p = d OBVIOUS
    <3> QED BY <3>3, <3>4
  <2> HIDE DEF p
  <2>2. r \in Records
    <3>1. [call EXCEPT !.pc = "exchange"] \in Records BY <1>1, Update DEF Points
    <3>2. [[call EXCEPT !.pc = "exchange"] EXCEPT !.process = p] \in Records
      BY <2>1, <3>1, Update
    <3> QED BY <3>2
  <2>3. /\ r.pc = "exchange" /\ r.step = call.step /\ r.result = call.result
        /\ r.cancels = call.cancels /\ r.kind = call.kind
    BY <1>1 DEF Records
  <2> HIDE DEF r
  <2>4. Sound(r) BY <1>0, <1>1, <2>3 DEF Sound, Remembers, Canceled, Embedded
  <2>5. UNCHANGED active BY DEF Spawn
  <2> QED BY <1>1, <1>2, <2>2, <2>3, <2>4, <2>5, OneCall
<1>3. CASE Set(c, After(call, "failed", None))
  <2>1. Released(call) /\ (call.cancels > 0 => Canceled(call))
    BY <1>1 DEF Sound, Remembers
  <2>2. "failed" \in Results /\ None \in Cursors \cup {None} BY DEF Results
  <2>3. UNCHANGED active BY DEF Spawn
  <2> QED BY <1>0, <1>1, <1>3, <2>1, <2>2, <2>3, AfterSound, OneCall
<1> QED BY <1>2, <1>3 DEF Spawn

LEMMA ChildTidy ==
  ASSUME Tidy, NEW c \in Call, Fork(c) \/ Exit(c) \/ Reap(c) \/ EscapedExits(c) \/ Answered(c)
  PROVE  Tidy'
<1> DEFINE call == calls[c]
           process == call.process
<1>1. call \in Records /\ Sound(call) BY Typed
<1>2. process \in Processes BY <1>1 DEF Records
<1>3. call.pc # "exchange" => process.group = {} /\ process.readers # "running"
  BY <1>1 DEF Sound, Released
<1>4. UNCHANGED active BY DEF Fork, Exit, Reap, EscapedExits, Answered
<1>5. CASE Fork(c)
  <2>1. call.pc = "exchange" BY <1>5 DEF Fork
  <2>2. CASE Set(c, [calls[c] EXCEPT !.process.group = {"leader", "descendant"}])
    <3>1. [process EXCEPT !.group = {"leader", "descendant"}] \in Processes
      BY <1>2 DEF Processes
    <3>2. Set(c, [calls[c] EXCEPT !.process = [process EXCEPT !.group = {"leader", "descendant"}]])
      BY <2>2
    <3> QED BY <2>1, <3>1, <3>2, <1>4, ProcessStep
  <2>3. CASE Set(c, [calls[c] EXCEPT !.process.escaped = TRUE])
    <3>1. [process EXCEPT !.escaped = TRUE] \in Processes BY <1>2 DEF Processes
    <3>2. Set(c, [calls[c] EXCEPT !.process = [process EXCEPT !.escaped = TRUE]]) BY <2>3
    <3> QED BY <2>1, <3>1, <3>2, <1>4, ProcessStep
  <2> QED BY <1>5, <2>2, <2>3 DEF Fork
<1>6. CASE Exit(c)
  <2>1. PICK m \in process.group : Set(c, [calls[c] EXCEPT !.process.group = @ \ {m}])
    BY <1>6 DEF Exit
  <2> DEFINE q == [process EXCEPT !.group = @ \ {m}]
  <2>2. q \in Processes /\ q.group \subseteq process.group /\ q.readers = process.readers
    BY <1>2 DEF Processes
  <2>3. Set(c, [calls[c] EXCEPT !.process = q]) BY <2>1
  <2> HIDE DEF q
  <2> QED BY <1>3, <1>4, <2>2, <2>3, ProcessStep
<1>7. CASE Reap(c)
  <2> DEFINE q == [process EXCEPT !.reaped = TRUE]
  <2>1. q \in Processes /\ q.group = process.group /\ q.readers = process.readers
    BY <1>2 DEF Processes
  <2>2. Set(c, [calls[c] EXCEPT !.process = q]) BY <1>7 DEF Reap
  <2> HIDE DEF q
  <2> QED BY <1>3, <1>4, <2>1, <2>2, ProcessStep
<1>8. CASE EscapedExits(c)
  <2> DEFINE q == [process EXCEPT !.escaped = FALSE]
  <2>1. q \in Processes /\ q.group = process.group /\ q.readers = process.readers
    BY <1>2 DEF Processes
  <2>2. Set(c, [calls[c] EXCEPT !.process = q]) BY <1>8 DEF EscapedExits
  <2> HIDE DEF q
  <2> QED BY <1>3, <1>4, <2>1, <2>2, ProcessStep
<1>9. CASE Answered(c)
  <2> DEFINE q == [process EXCEPT !.answers = @ + 1]
  <2>1. process.answers < Requests BY <1>9 DEF Answered
  <2>2. q \in Processes BY <1>2, <2>1 DEF Processes, Requests
  <2>3. Set(c, [calls[c] EXCEPT !.process = q]) /\ call.pc = "exchange" BY <1>9 DEF Answered
  <2> HIDE DEF q
  <2> QED BY <1>4, <2>2, <2>3, ProcessStep
<1> QED BY <1>5, <1>6, <1>7, <1>8, <1>9

LEMMA ExchangeOver ==
  ASSUME Tidy, NEW c \in Call, ExchangeEnds(c) \/ HandshakeEnds(c) \/ CutShort(c)
  PROVE  Tidy'
<1> DEFINE call == calls[c]
<1>1. call \in Records /\ Sound(call) /\ call.pc = "exchange" /\ UNCHANGED active
  BY Typed DEF ExchangeEnds, HandshakeEnds, CutShort
<1>2. PICK result \in {"ok", "failed"}, unread \in BOOLEAN : Set(c, Left(call, result, unread))
  BY DEF ExchangeEnds, HandshakeEnds, CutShort
<1>3. result \in Results BY DEF Results
<1>4. (call.cancels > 0 => Canceled(call)) /\ call.kind # "embed"
  BY <1>1 DEF Sound, Remembers, Embedded
<1> QED BY <1>1, <1>2, <1>3, <1>4, LeftSound, OneCall

LEMMA GatherTidy ==
  ASSUME Tidy, NEW c \in Call, Gather(c)
  PROVE  Tidy'
<1> DEFINE call == calls[c]
           p    == [call.process EXCEPT !.readers = "done"]
           r    == [call EXCEPT !.pc = "drain", !.process = p]
<1>1. call \in Records /\ Sound(call) /\ call.pc = "gather" BY Typed DEF Gather
<1>2. p \in Processes /\ p.group = call.process.group /\ p.readers = "done"
  <2>1. call.process \in Processes BY <1>1 DEF Records
  <2> QED BY <2>1 DEF Processes
<1>3. Set(c, r) /\ UNCHANGED active BY DEF Gather
<1> HIDE DEF p
<1>4. r \in Records
  <2>1. [call EXCEPT !.pc = "drain"] \in Records BY <1>1, Update DEF Points
  <2>2. [[call EXCEPT !.pc = "drain"] EXCEPT !.process = p] \in Records BY <1>2, <2>1, Update
  <2> QED BY <2>2
<1>5. /\ r.pc = "drain" /\ r.process = p /\ r.step = call.step /\ r.result = call.result
      /\ r.raised = call.raised /\ r.cancels = call.cancels /\ r.kind = call.kind
  BY <1>1 DEF Records
<1> HIDE DEF r
<1>6. Sound(r) BY <1>1, <1>2, <1>5 DEF Sound, Released, Remembers, Canceled, Embedded
<1> QED BY <1>1, <1>3, <1>4, <1>5, <1>6, OneCall

LEMMA DrainTidy ==
  ASSUME Tidy, NEW c \in Call, Drain(c)
  PROVE  Tidy'
<1> DEFINE call == calls[c]
<1>1. call \in Records /\ Sound(call) /\ call.pc = "drain" /\ UNCHANGED active
  BY Typed DEF Drain
<1>2. PICK next \in Cursors \cup {None} : Set(c, After(call, call.raised, next)) BY DEF Drain
<1>3. call.raised \in Results BY <1>1 DEF Records
<1>4. /\ Released(call) /\ call.kind # "embed"
      /\ call.cancels > 0 => Canceled(call) \/ call.raised = "canceled"
  BY <1>1 DEF Sound, Remembers, Embedded
<1> QED BY <1>1, <1>2, <1>3, <1>4, AfterSound, OneCall

-----------------------------------------------------------------------------
(* The slots of the embedding service. *)
LEMMA SlotsFinite == ASSUME Tidy PROVE IsFiniteSet(Embedding)
BY CallsAssumption, FS_Subset DEF Embedding

LEMMA SlotFreed ==
  ASSUME Tidy, NEW c \in Call, NEW r \in Records, Sound(r), Set(c, r),
         calls[c].pc = "embed", r.pc # "embed", active' = active - 1
  PROVE  Tidy'
<1>1. calls' \in [Call -> Records] BY DEF Tidy, Set
<1>2. \A d \in Call : calls'[d] = IF d = c THEN r ELSE calls[d] BY DEF Tidy, Set
<1>3. \A d \in Call : Sound(calls'[d]) BY <1>2 DEF Tidy
<1>4. Embedding' = Embedding \ {c} BY <1>2 DEF Embedding
<1>5. c \in Embedding BY DEF Embedding
<1>6. Cardinality(Embedding \ {c}) = Cardinality(Embedding) - 1
  BY <1>5, SlotsFinite, FS_RemoveElement
<1>7. Cardinality(Embedding) \in Nat BY SlotsFinite, FS_CardinalityType
<1>8. active' = Cardinality(Embedding') /\ active' <= MaxActive
  BY <1>4, <1>6, <1>7, CallsAssumption DEF Tidy
<1> QED BY <1>1, <1>3, <1>8 DEF Tidy

LEMMA SlotTaken ==
  ASSUME Tidy, NEW c \in Call, NEW r \in Records, Sound(r), Set(c, r),
         calls[c].pc # "embed", r.pc = "embed", active < MaxActive, active' = active + 1
  PROVE  Tidy'
<1>1. calls' \in [Call -> Records] BY DEF Tidy, Set
<1>2. \A d \in Call : calls'[d] = IF d = c THEN r ELSE calls[d] BY DEF Tidy, Set
<1>3. \A d \in Call : Sound(calls'[d]) BY <1>2 DEF Tidy
<1>4. Embedding' = Embedding \cup {c} BY <1>2 DEF Embedding
<1>5. c \notin Embedding BY DEF Embedding
<1>6. Cardinality(Embedding \cup {c}) = Cardinality(Embedding) + 1
  BY <1>5, SlotsFinite, FS_AddElement
<1>7. Cardinality(Embedding) \in Nat BY SlotsFinite, FS_CardinalityType
<1>8. active' = Cardinality(Embedding') /\ active' <= MaxActive
  BY <1>4, <1>6, <1>7, CallsAssumption DEF Tidy
<1> QED BY <1>1, <1>3, <1>8 DEF Tidy

LEMMA CancelTidy ==
  ASSUME Tidy, NEW c \in Call, Cancel(c)
  PROVE  Tidy'
<1> DEFINE was  == calls[c]
           call == [was EXCEPT !.cancels = @ + 1]
<1>1. was \in Records /\ Sound(was) BY Typed
<1>2. was.cancels + 1 \in Nat BY <1>1 DEF Records
<1>3. call \in Records BY <1>1, <1>2, Update
<1>4. call.pc = was.pc /\ call.process = was.process /\ call.kind = was.kind BY <1>1 DEF Records
<1>5. "canceled" \in Results /\ None \in Cursors \cup {None} BY DEF Results
<1>6. \/ call.pc \in {"spawn", "gather", "drain"} /\ Set(c, After(call, "canceled", None))
         /\ UNCHANGED active
      \/ call.pc = "exchange" /\ UNCHANGED active
         /\ \E unread \in BOOLEAN : Set(c, Left(call, "canceled", unread))
      \/ call.pc = "embed" /\ Set(c, Ended(call, "canceled")) /\ active' = active - 1
  BY DEF Cancel
<1> HIDE DEF call
<1>7. call.pc # "exchange" => Released(call) BY <1>1, <1>4 DEF Sound, Released
<1>11. call.pc # "embed" /\ call.pc # "done" => call.kind # "embed"
  BY <1>1, <1>4 DEF Sound, Embedded
<1>8. CASE call.pc \in {"spawn", "gather", "drain"} /\ Set(c, After(call, "canceled", None))
           /\ UNCHANGED active
  BY <1>3, <1>4, <1>5, <1>7, <1>8, <1>11, AfterSound, OneCall
<1>9. CASE call.pc = "exchange" /\ UNCHANGED active
           /\ \E unread \in BOOLEAN : Set(c, Left(call, "canceled", unread))
  BY <1>3, <1>4, <1>5, <1>9, <1>11, LeftSound, OneCall
<1>10. CASE call.pc = "embed" /\ Set(c, Ended(call, "canceled")) /\ active' = active - 1
  BY <1>3, <1>4, <1>5, <1>7, <1>10, EndedSound, SlotFreed
<1> QED BY <1>6, <1>8, <1>9, <1>10

LEMMA EmbedTidy ==
  ASSUME Tidy, NEW c \in Call, Embed(c)
  PROVE  Tidy'
<1> DEFINE a == [NoCall EXCEPT !.kind = "embed"]
           r == [NoCall EXCEPT !.kind = "embed", !.pc = "embed"]
<1>1. a \in Records BY NoCallSound, Update
<1>2. [a EXCEPT !.pc = "embed"] \in Records BY <1>1, Update DEF Points
<1>3. r \in Records BY <1>2
<1>4. /\ r.pc = "embed" /\ r.process = NoProcess /\ r.cancels = 0 /\ r.result = "none"
  BY DEF NoCall
<1>5. Set(c, r) /\ calls[c].pc # "embed" /\ active < MaxActive /\ active' = active + 1
  BY DEF Embed
<1> HIDE DEF r, NoProcess
<1>6. Sound(r) BY <1>4, NoProcessTyped DEF Sound, Released, Remembers, Embedded
<1> QED BY <1>3, <1>4, <1>5, <1>6, SlotTaken

(* Whatever the order, repetitions and omissions of an answer, each text   *)
(* gets the vector made for it or the answer is refused.                   *)
LEMMA DecodedInOrder ==
  ASSUME NEW items \in Batches \cup {Failed}, DecodeEmbeddings(items) # Failed
  PROVE  DecodeEmbeddings(items) = [text \in 1 .. Texts |-> text]
<1>1. /\ Len(items) = Texts
      /\ {items[i].index : i \in 1 .. Texts} = 1 .. Texts
      /\ DecodeEmbeddings(items) =
           [text \in 1 .. Texts |->
              items[CHOOSE i \in 1 .. Texts : items[i].index = text].vector]
  BY DEF DecodeEmbeddings
<1>2. \A i \in DOMAIN items : items[i].vector = items[i].index
  BY CallsAssumption DEF Failed
<1>3. ASSUME NEW text \in 1 .. Texts
      PROVE  items[CHOOSE i \in 1 .. Texts : items[i].index = text].vector = text
  <2> DEFINE k == CHOOSE i \in 1 .. Texts : items[i].index = text
  <2>1. \E i \in 1 .. Texts : items[i].index = text BY <1>1
  <2>2. k \in 1 .. Texts /\ items[k].index = text BY <2>1
  <2>3. k \in DOMAIN items BY <1>1, <2>2
  <2> QED BY <1>2, <2>2, <2>3
<1> QED BY <1>1, <1>3

LEMMA EmbedEndsTidy ==
  ASSUME Tidy, NEW c \in Call, EmbedEnds(c)
  PROVE  Tidy'
<1> DEFINE call == calls[c]
<1>1. call \in Records /\ Sound(call) /\ call.pc = "embed" BY Typed DEF EmbedEnds
<1>2. PICK items \in Batches \cup {Failed} :
        Set(c, [Ended(call, IF DecodeEmbeddings(items) = Failed THEN "failed" ELSE "ok")
                  EXCEPT !.vectors = DecodeEmbeddings(items)])
  BY DEF EmbedEnds
<1> DEFINE result  == IF DecodeEmbeddings(items) = Failed THEN "failed" ELSE "ok"
           vectors == DecodeEmbeddings(items)
           e       == Ended(call, result)
           r       == [e EXCEPT !.vectors = vectors]
<1>3. result \in Results BY DEF Results
<1>4. vectors \in Vectors BY DEF Vectors
<1>5. Set(c, r) BY <1>2
<1>6. active' = active - 1 BY DEF EmbedEnds
<1> HIDE DEF result, vectors
<1>7. Released(call) /\ call.cancels = 0
  <2>1. call.cancels \in Nat BY <1>1 DEF Records
  <2> QED BY <1>1, <2>1 DEF Sound, Remembers
<1>8. /\ e \in Records /\ e.pc = "done" /\ e.process = call.process /\ e.directory = FALSE
      /\ e.result = result /\ e.cancels = call.cancels
  BY <1>1, <1>3, EndedFields
<1> HIDE DEF e
<1>9. r \in Records BY <1>4, <1>8, Update
<1>10. /\ r.pc = "done" /\ r.process = call.process /\ r.directory = FALSE /\ r.result = result
       /\ r.cancels = 0 /\ r.vectors = vectors
  BY <1>7, <1>8 DEF Records
<1> HIDE DEF r
<1>11. result = "ok" => vectors = [text \in 1 .. Texts |-> text]
  BY DecodedInOrder DEF result, vectors
<1>12. Sound(r) BY <1>7, <1>10, <1>11 DEF Sound, Released, Remembers, Embedded
<1> QED BY <1>1, <1>5, <1>6, <1>9, <1>10, <1>12, SlotFreed

LEMMA TakeTidy ==
  ASSUME Tidy, NEW c \in Call, Take(c)
  PROVE  Tidy'
<1>1. calls[c].pc = "done" /\ Set(c, NoCall) /\ UNCHANGED active BY DEF Take
<1> QED BY <1>1, NoCallSound, OneCall

-----------------------------------------------------------------------------
LEMMA InitTidy == Init => Tidy
<1> SUFFICES ASSUME Init PROVE Tidy OBVIOUS
<1>1. calls \in [Call -> Records] /\ \A c \in Call : Sound(calls[c])
  BY NoCallSound DEF Init
<1>2. Embedding = {} BY NoCallSound DEF Init, Embedding
<1>3. active = 0 /\ 0 <= MaxActive BY CallsAssumption DEF Init
<1> QED BY <1>1, <1>2, <1>3, FS_EmptySet DEF Tidy

LEMMA NextTidy == Tidy /\ [Next]_vars => Tidy'
<1> SUFFICES ASSUME Tidy, [Next]_vars PROVE Tidy' OBVIOUS
<1>1. CASE UNCHANGED vars BY <1>1 DEF vars, Tidy, Embedding
<1>2. CASE Next
  <2>1. PICK c \in Call :
          \/ \E kind \in Kinds[c] : Start(c, kind)
          \/ Embed(c) \/ Answered(c) \/ Runner(c) \/ Cancel(c) \/ Take(c)
          \/ Fork(c) \/ Exit(c) \/ Reap(c) \/ EscapedExits(c)
    BY <1>2 DEF Next
  <2>2. CASE \E kind \in Kinds[c] : Start(c, kind) BY <2>2, StartTidy
  <2>3. CASE Runner(c)
    BY <2>3, SpawnTidy, ExchangeOver, GatherTidy, DrainTidy, EmbedEndsTidy DEF Runner
  <2> QED BY <2>1, <2>2, <2>3, ChildTidy, EmbedTidy, CancelTidy, TakeTidy
<1> QED BY <1>1, <1>2

(* Every reachable state is tidy: the strengthening the two theorems below *)
(* rest on, for any number of callers and cancellations.                   *)
THEOREM TidyInvariant == Spec => []Tidy
BY InitTidy, NextTidy, PTL DEF Spec

(* Nothing outlives a call: a runner that left the exchange leaves no live *)
(* process of its group and no reader, a call that is over leaves no       *)
(* directory, and the slots counted are the batches in flight, however     *)
(* often the call is cancelled in the middle of its clean-up (finally of   *)
(* run_process and run_json_rpc_process, complete, embed).                 *)
THEOREM LeavesNothingBehind == Spec => []NothingLeftBehind
<1>1. Tidy => NothingLeftBehind
  BY DEF Tidy, Sound, Released, Embedding, NothingLeftBehind
<1> QED BY <1>1, TidyInvariant, PTL

(* A call that was cancelled, at whichever await, is never seen to end as  *)
(* anything else: not as Grok's cleanup run, not as a failure it met, not  *)
(* as an answer already in hand (AfterMain, AfterCleanup, the finallys).   *)
THEOREM CancellationWins == Spec => []CancelWins
<1>1. Tidy => CancelWins
  BY DEF Tidy, Sound, Remembers, CancelWins
<1> QED BY <1>1, TidyInvariant, PTL

(* Each text of a batch gets its own vector, however the provider lists    *)
(* them, or the batch fails (decode_embeddings, checked_vectors).          *)
THEOREM VectorsInOrder == Spec => []EachTextItsVector
<1>1. Tidy => EachTextItsVector
  BY DEF Tidy, Sound, Embedded, EachTextItsVector
<1> QED BY <1>1, TidyInvariant, PTL
=============================================================================
