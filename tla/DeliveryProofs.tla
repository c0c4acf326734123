--------------------------- MODULE DeliveryProofs ---------------------------
(***************************************************************************)
(* Delivery for any provider, any route, any frames and any losses: what a *)
(* client has of the log, and what it is told when a stream ends; and that *)
(* the answer of a turn is what the provider meant.                        *)
(*                                                                         *)
(* What was meant is a flattening of all that was said, and FlattenSeq is  *)
(* recursive: the section on it shows that its recursion is well defined   *)
(* and what appending one more sequence does.  Induction over lengths is   *)
(* by least counterexample.                                                *)
(***************************************************************************)
EXTENDS Delivery, FiniteSetTheorems, SequenceTheorems, WellFoundedInduction, TLAPS

IsSeq(s) == \E S : s \in Seq(S)

(* The sequence numbers of a log are its positions. *)
IsLog(log) == IsSeq(log) /\ \A i \in 1 .. Len(log) : log[i].sequence = i

(* The entries of part are those of log after the first skipped. *)
PieceOf(part, log, skipped) ==
  /\ IsSeq(part) /\ skipped + Len(part) <= Len(log)
  /\ \A i \in 1 .. Len(part) : part[i] = log[skipped + i]

Extends(log, older) == IsLog(log) /\ PieceOf(older, log, 0)

LEMMA LengthType == ASSUME NEW s, IsSeq(s) PROVE Len(s) \in Nat
BY DEF IsSeq

LEMMA Appended ==
  ASSUME NEW s, NEW e, IsSeq(s)
  PROVE  /\ IsSeq(Append(s, e)) /\ Len(Append(s, e)) = Len(s) + 1
         /\ \A i \in 1 .. Len(s) : Append(s, e)[i] = s[i]
         /\ Append(s, e)[Len(s) + 1] = e
<1>1. PICK S : s \in Seq(S) BY DEF IsSeq
<1>2. s \in Seq(S \cup {e}) BY <1>1, SeqMonotonic
<1> QED BY <1>2, AppendProperties DEF IsSeq

LEMMA LoggedExtends ==
  ASSUME NEW log, NEW older, Extends(log, older), NEW type, NEW text, NEW requests
  PROVE  Extends(Logged(log, type, text, requests), older)
<1> DEFINE e == [sequence |-> Len(log) + 1, type |-> type, text |-> text, requests |-> requests]
           new == Append(log, e)
<1>1. /\ IsSeq(new) /\ Len(new) = Len(log) + 1 /\ \A i \in 1 .. Len(log) : new[i] = log[i]
      /\ new[Len(log) + 1] = e
  BY Appended DEF Extends, IsLog
<1>2. e.sequence = Len(log) + 1 OBVIOUS
<1>3. Len(log) \in Nat /\ Len(older) \in Nat BY LengthType DEF Extends, IsLog, PieceOf
<1> HIDE DEF e, new
<1>4. IsLog(new)
  <2> SUFFICES ASSUME NEW i \in 1 .. Len(new) PROVE new[i].sequence = i BY <1>1 DEF IsLog
  <2>1. CASE i = Len(log) + 1 BY <1>1, <1>2, <2>1
  <2>2. CASE i \in 1 .. Len(log) BY <1>1, <2>2 DEF Extends, IsLog
  <2> QED BY <1>1, <1>3, <2>1, <2>2
<1>5. PieceOf(older, new, 0)
  <2>1. \A i \in 1 .. Len(older) : i \in 1 .. Len(log) /\ older[i] = log[i]
    BY <1>3 DEF Extends, PieceOf
  <2> QED BY <1>1, <1>3, <2>1 DEF Extends, PieceOf
<1> QED BY <1>4, <1>5 DEF Extends, Logged, e, new

LEMMA LoggedExtendsOwn ==
  ASSUME NEW log, IsLog(log)
  PROVE  Extends(log, log)
BY LengthType DEF Extends, IsLog, PieceOf

-----------------------------------------------------------------------------
(* A call under way only adds to the log. *)
OnItsWay(way) ==
  DOMAIN way = {"call", "events", "raised"} /\ Extends(way.events, session.events)

LEMMA WayStarts ==
  ASSUME IsLog(session.events), NEW c
  PROVE  OnItsWay(Way(c))
<1>1. Extends(session.events, session.events) BY LoggedExtendsOwn
<1> QED BY <1>1 DEF Way, OnItsWay

LEMMA RaisedOnWay ==
  ASSUME NEW way, OnItsWay(way)
  PROVE  OnItsWay([way EXCEPT !.raised = TRUE])
BY DEF OnItsWay

LEMMA EventsOnWay == ASSUME NEW way, OnItsWay(way) PROVE Extends(way.events, session.events)
BY DEF OnItsWay

LEMMA FlushOnWay ==
  ASSUME NEW way, OnItsWay(way)
  PROVE  OnItsWay(Flush(way))
<1> DEFINE em == way.call.em
           n  == Len(way.call.pushed)
           log == Logged(way.events, "assistant_text_delta",
                    SubSeq(way.call.pushed, n - em.pending + 1, n), <<>>)
           next == [way EXCEPT !.call.em = Flushed(@), !.events = log]
<1>1. Extends(log, session.events) BY LoggedExtends, EventsOnWay
<1> HIDE DEF log
<1>2. DOMAIN next = DOMAIN way /\ next.events = log BY DEF OnItsWay
<1>3. OnItsWay(next) BY <1>1, <1>2 DEF OnItsWay
<1>4. Flush(way) \in {way, [way EXCEPT !.raised = TRUE], next} BY DEF Flush, log
<1> HIDE DEF next
<1> QED BY <1>3, <1>4, RaisedOnWay

LEMMA PushOnWay ==
  ASSUME NEW way, OnItsWay(way), NEW text
  PROVE  OnItsWay(Push(way, text))
<1> DEFINE pushed == [way EXCEPT !.call.em = Buffer(@, Len(text)), !.call.pushed = @ \o text]
<1>1. DOMAIN pushed = DOMAIN way /\ pushed.events = way.events BY DEF OnItsWay
<1>2. OnItsWay(pushed) BY <1>1 DEF OnItsWay
<1>3. Push(way, text) \in {[way EXCEPT !.raised = TRUE], Flush(pushed), pushed} BY DEF Push
<1> HIDE DEF pushed
<1> QED BY <1>2, <1>3, RaisedOnWay, FlushOnWay

LEMMA FrameOnWay ==
  ASSUME NEW way, OnItsWay(way), NEW frame
  PROVE  OnItsWay(TakeFrame(way, frame))
<1> DEFINE accepted == [way EXCEPT !.call.decoder = Accept(@, frame)]
<1>1. DOMAIN accepted = DOMAIN way /\ accepted.events = way.events BY DEF OnItsWay
<1>2. OnItsWay(accepted) BY <1>1 DEF OnItsWay
<1>3. TakeFrame(way, frame)
        \in {[way EXCEPT !.raised = TRUE], Push(accepted, frame.text), accepted}
  BY DEF TakeFrame
<1> HIDE DEF accepted
<1> QED BY <1>2, <1>3, RaisedOnWay, PushOnWay

-----------------------------------------------------------------------------
SessionShape == DOMAIN session = {"route", "found", "status", "chars", "answer", "events"}

(* What a step of the session does to the log, whatever it is. *)
Grows == SessionShape' /\ Extends(session'.events, session.events)

LEMMA EndsGrow ==
  ASSUME SessionShape, NEW way, OnItsWay(way), NEW status, NEW type, Ends(way, status, type)
  PROVE  Grows
<1> DEFINE log == Logged(way.events, type, <<>>, <<>>)
<1>1. Extends(log, session.events) BY LoggedExtends, EventsOnWay
<1>2. session' = [session EXCEPT !.status = status, !.events = log] BY DEF Ends
<1> HIDE DEF log
<1>3. SessionShape' /\ session'.events = log BY <1>2 DEF SessionShape
<1> QED BY <1>1, <1>3 DEF Grows

LEMMA FailsGrow ==
  ASSUME SessionShape, NEW way, OnItsWay(way), Fails(way)
  PROVE  Grows
BY FlushOnWay, EndsGrow DEF Fails

LEMMA OutcomeGrows ==
  ASSUME SessionShape, NEW way, OnItsWay(way), NEW result, Outcome(way, result)
  PROVE  Grows
<1>1. CASE Fails(way) BY <1>1, FailsGrow
<1>2. CASE ~Fails(way)
  <2> DEFINE log == IF result.requests = <<>>
                    THEN Logged(way.events, "session_completed", result.text, <<>>)
                    ELSE Logged(way.events, "tool_requests", <<>>, result.requests)
             chars  == session.chars + OutputSize(result)
             status == IF result.requests = <<>> THEN "completed" ELSE "waiting_for_tool"
  <2>1. Extends(log, session.events) BY LoggedExtends, EventsOnWay
  <2>2. session' = [session EXCEPT !.chars = chars, !.answer = result, !.status = status,
                                   !.events = log]
    BY <1>2 DEF Outcome
  <2> HIDE DEF log, chars, status
  <2>3. SessionShape' /\ session'.events = log BY <2>2 DEF SessionShape
  <2> QED BY <2>1, <2>3 DEF Grows
<1> QED BY <1>1, <1>2

LEMMA ClosesGrow ==
  ASSUME SessionShape, NEW way, OnItsWay(way), Closes(way)
  PROVE  Grows
BY FlushOnWay, FailsGrow, OutcomeGrows DEF Closes

(* The log only grows: no step of the session takes back or renumbers what *)
(* a client may have.                                                      *)
LEMMA SessionGrows ==
  ASSUME SessionShape, IsLog(session.events), Session
  PROVE  Grows /\ UNCHANGED <<stream, received>>
<1>1. UNCHANGED <<stream, received>>
  BY DEF Session, Receive, StreamCloses, Respond, CallFails, Cancel, Resume, Expire, Reading
<1>2. CASE Receive
  <2>1. PICK frame \in Wire[call.turn] :
          LET way == TakeFrame(Way([call EXCEPT !.said = Append(@, frame)]), frame)
          IN IF way.raised THEN Fails(way)
             ELSE session' = [session EXCEPT !.events = way.events] /\ call' = way.call
    BY <1>2 DEF Receive
  <2> DEFINE way == TakeFrame(Way([call EXCEPT !.said = Append(@, frame)]), frame)
  <2>2. OnItsWay(way) BY WayStarts, FrameOnWay
  <2>3. Fails(way) \/ session' = [session EXCEPT !.events = way.events] BY <2>1
  <2> HIDE DEF way
  <2>4. CASE Fails(way) BY <1>1, <2>2, <2>4, FailsGrow
  <2>5. CASE session' = [session EXCEPT !.events = way.events]
    <3>1. SessionShape' /\ session'.events = way.events BY <2>5 DEF SessionShape
    <3> QED BY <1>1, <2>2, <3>1 DEF Grows, OnItsWay
  <2> QED BY <1>1, <2>3, <2>4, <2>5
<1>3. CASE StreamCloses BY <1>1, <1>3, WayStarts, ClosesGrow DEF StreamCloses
<1>4. CASE Respond
  <2>1. PICK payload \in Payloads[session.route.adapter] :
          Outcome(Way([call EXCEPT !.said = <<payload>>]), Decoded(session.route, payload))
    BY <1>4 DEF Respond
  <2> QED BY <1>1, <2>1, WayStarts, OutcomeGrows
<1>5. CASE CallFails BY <1>1, <1>5, WayStarts, FailsGrow DEF CallFails
<1>6. CASE Cancel BY <1>1, <1>6, WayStarts, FlushOnWay, EndsGrow DEF Cancel
<1>7. CASE Resume
  <2> DEFINE input == IF session.status = "completed" THEN "user_input_received"
                      ELSE "tool_results_received"
             first == Logged(session.events, input, <<>>, <<>>)
             log   == Logged(first, "provider_started", <<>>, <<>>)
  <2>1. Extends(first, session.events) BY LoggedExtendsOwn, LoggedExtends
  <2> HIDE DEF first
  <2>2. Extends(log, session.events) BY <2>1, LoggedExtends
  <2>3. session' = [session EXCEPT !.status = "running", !.events = log]
    BY <1>7 DEF Resume, first
  <2> HIDE DEF log
  <2>4. SessionShape' /\ session'.events = log BY <2>3 DEF SessionShape
  <2> QED BY <1>1, <2>2, <2>4 DEF Grows
<1>8. CASE Expire
  <2>1. session' = [session EXCEPT !.found = FALSE] BY <1>8 DEF Expire
  <2>2. SessionShape' /\ session'.events = session.events BY <2>1 DEF SessionShape
  <2> QED BY <1>1, <2>2, LoggedExtendsOwn DEF Grows
<1> QED BY <1>2, <1>3, <1>4, <1>5, <1>6, <1>7, <1>8 DEF Session

-----------------------------------------------------------------------------
(* What the client has, then what is in flight, then what the gateway is   *)
(* about to send: consecutive pieces of the log.                           *)
Aligned ==
  /\ Connected =>
       /\ PieceOf(stream.net, session.events, Len(received))
       /\ stream.cursor = Len(received) + Len(stream.net)
  /\ stream.pc = "yield" =>
       PieceOf(stream.batch, session.events, stream.cursor) /\ stream.batch # <<>>

(* The inductive invariant. *)
Consistent ==
  /\ SessionShape /\ IsLog(session.events)
  /\ PieceOf(received, session.events, 0)
  /\ DOMAIN stream = {"pc", "cursor", "batch", "net"}
  /\ stream.pc \in {"closed", "gone", "poll", "yield", "check", "ended", "aborted"}
  /\ Aligned

(* What the property says of a step. *)
Faithful ==
  /\ IsPrefix(received', session'.events)
  /\ stream'.pc # "confused"
  /\ stream.pc # "ended" /\ stream'.pc = "ended" =>
       ~Running /\ stream'.cursor = Len(session.events)

LEMMA EmptyPiece ==
  ASSUME NEW log, IsSeq(log), NEW skipped \in 0 .. Len(log)
  PROVE  IsSeq(<<>>) /\ Len(<<>>) = 0 /\ PieceOf(<<>>, log, skipped)
<1>1. IsSeq(<<>>) /\ Len(<<>>) = 0 BY EmptySeq DEF IsSeq
<1>2. Len(log) \in Nat BY LengthType
<1> QED BY <1>1, <1>2 DEF PieceOf

(* A piece of a log stays a piece of what extends it. *)
LEMMA PieceKept ==
  ASSUME NEW log, NEW older, Extends(log, older), NEW part, NEW skipped \in Nat,
         PieceOf(part, older, skipped)
  PROVE  PieceOf(part, log, skipped)
<1>1. Len(part) \in Nat /\ Len(older) \in Nat /\ Len(log) \in Nat
  BY LengthType DEF Extends, IsLog, PieceOf
<1>2. \A i \in 1 .. Len(part) : skipped + i \in 1 .. Len(older) BY <1>1 DEF PieceOf
<1>3. \A i \in 1 .. Len(part) : part[i] = older[skipped + i] BY DEF PieceOf
<1>4. \A k \in 1 .. Len(older) : older[k] = log[k] BY <1>1 DEF Extends, PieceOf
<1>5. \A i \in 1 .. Len(part) : part[i] = log[skipped + i] BY <1>2, <1>3, <1>4
<1> QED BY <1>1, <1>5 DEF Extends, PieceOf

LEMMA PieceIsPrefix ==
  ASSUME NEW part, NEW log, IsSeq(log), PieceOf(part, log, 0)
  PROVE  IsPrefix(part, log)
<1> DEFINE S == {part[i] : i \in 1 .. Len(part)}
<1>1. Len(part) \in Nat /\ Len(log) \in Nat /\ Len(part) <= Len(log)
  BY LengthType DEF PieceOf
<1>2. \A i \in 1 .. Len(part) : part[i] = log[i] BY <1>1 DEF PieceOf
<1>3. \A i \in 1 .. Len(part) : part[i] \in S /\ log[i] \in S BY <1>2
<1> HIDE DEF S
<1> DEFINE a == SubSeq(part, 1, Len(part))
           b == SubSeq(log, 1, Len(part))
<1>4. /\ a \in Seq(S) /\ Len(a) = Len(part) /\ \A i \in 1 .. Len(part) : a[i] = part[i]
  BY <1>1, <1>3, SubSeqProperties
<1>5. /\ b \in Seq(S) /\ Len(b) = Len(part) /\ \A i \in 1 .. Len(part) : b[i] = log[i]
  BY <1>1, <1>3, SubSeqProperties
<1>6. a = b BY <1>1, <1>2, <1>4, <1>5, SeqEqual
<1> QED BY <1>1, <1>6 DEF IsPrefix

(* The tail of a piece is the piece one further. *)
LEMMA PieceTail ==
  ASSUME NEW part, NEW log, IsSeq(log), NEW skipped \in Nat, PieceOf(part, log, skipped),
         part # <<>>
  PROVE  /\ Len(part) \in Nat \ {0} /\ Len(Tail(part)) = Len(part) - 1
         /\ Head(part) = log[skipped + 1] /\ skipped + 1 <= Len(log)
         /\ PieceOf(Tail(part), log, skipped + 1)
<1>1. PICK S : part \in Seq(S) BY DEF PieceOf, IsSeq
<1>2. /\ Tail(part) \in Seq(S) /\ Len(Tail(part)) = Len(part) - 1
      /\ \A i \in 1 .. Len(Tail(part)) : Tail(part)[i] = part[i + 1]
  BY <1>1, HeadTailProperties
<1>3. Len(part) \in Nat \ {0} BY <1>1, EmptySeq
<1>4. Head(part) = part[1] BY <1>1
<1>5. Len(log) \in Nat BY LengthType
<1>6. skipped + Len(part) <= Len(log) /\ \A i \in 1 .. Len(part) : part[i] = log[skipped + i]
  BY DEF PieceOf
<1>7. \A i \in 1 .. Len(Tail(part)) : Tail(part)[i] = log[skipped + 1 + i]
  BY <1>2, <1>3, <1>6
<1> QED BY <1>2, <1>3, <1>4, <1>5, <1>6, <1>7 DEF PieceOf, IsSeq

(* A piece and the entry after it. *)
LEMMA PieceLonger ==
  ASSUME NEW part, NEW log, IsSeq(log), NEW skipped \in Nat, PieceOf(part, log, skipped),
         skipped + Len(part) + 1 <= Len(log)
  PROVE  LET longer == Append(part, log[skipped + Len(part) + 1])
         IN PieceOf(longer, log, skipped) /\ Len(longer) = Len(part) + 1
<1> DEFINE e == log[skipped + Len(part) + 1]
           longer == Append(part, e)
<1>1. /\ IsSeq(longer) /\ Len(longer) = Len(part) + 1 /\ longer[Len(part) + 1] = e
      /\ \A i \in 1 .. Len(part) : longer[i] = part[i]
  BY Appended DEF PieceOf
<1>2. Len(part) \in Nat /\ Len(log) \in Nat BY LengthType DEF PieceOf
<1> HIDE DEF longer
<1>3. ASSUME NEW i \in 1 .. Len(longer) PROVE longer[i] = log[skipped + i]
  <2>1. CASE i = Len(part) + 1 BY <1>1, <1>2, <2>1
  <2>2. CASE i \in 1 .. Len(part) BY <1>1, <2>2 DEF PieceOf
  <2> QED BY <1>1, <1>2, <2>1, <2>2
<1> QED BY <1>1, <1>2, <1>3 DEF PieceOf, longer

-----------------------------------------------------------------------------
(* The steps. *)
LEMMA Lengths ==
  ASSUME Consistent
  PROVE  /\ IsSeq(session.events) /\ Len(session.events) \in Nat /\ Len(received) \in Nat
         /\ Len(received) <= Len(session.events) /\ IsPrefix(received, session.events)
         /\ Connected => /\ Len(stream.net) \in Nat /\ stream.cursor \in Nat
                         /\ stream.cursor <= Len(session.events)
<1>1. IsSeq(session.events) /\ Len(session.events) \in Nat
  BY LengthType DEF Consistent, IsLog
<1>2. /\ Len(received) \in Nat /\ Len(received) <= Len(session.events)
      /\ IsPrefix(received, session.events)
  BY <1>1, LengthType, PieceIsPrefix DEF Consistent, PieceOf
<1>3. Connected => /\ Len(stream.net) \in Nat /\ stream.cursor \in Nat
                   /\ stream.cursor <= Len(session.events)
  BY <1>1, <1>2, LengthType DEF Consistent, Aligned, PieceOf
<1> QED BY <1>1, <1>2, <1>3

LEMMA SessionStep ==
  ASSUME Consistent, Session
  PROVE  Consistent' /\ Faithful
<1>1. Grows /\ UNCHANGED <<stream, received>> BY SessionGrows DEF Consistent
<1>2. SessionShape' /\ IsLog(session'.events) BY <1>1 DEF Grows, Extends
<1>3. PieceOf(received, session'.events, 0) BY <1>1, PieceKept DEF Consistent, Grows
<1>4. Aligned'
  <2>1. Connected =>
          /\ PieceOf(stream.net, session'.events, Len(received))
          /\ stream.cursor = Len(received) + Len(stream.net)
    BY <1>1, Lengths, PieceKept DEF Consistent, Aligned, Grows
  <2>2. stream.pc = "yield" =>
          PieceOf(stream.batch, session'.events, stream.cursor) /\ stream.batch # <<>>
    BY <1>1, Lengths, PieceKept DEF Consistent, Aligned, Grows, Connected
  <2> QED BY <1>1, <2>1, <2>2 DEF Aligned, Connected
<1>5. Consistent' BY <1>1, <1>2, <1>3, <1>4 DEF Consistent
<1>6. IsPrefix(received', session'.events) BY <1>1, <1>2, <1>3, PieceIsPrefix DEF IsLog
<1> QED BY <1>1, <1>5, <1>6 DEF Faithful, Consistent

LEMMA ConnectStep ==
  ASSUME Consistent, Connect
  PROVE  Consistent' /\ Faithful
<1>1. UNCHANGED <<session, received>> BY DEF Connect
<1>2. CASE stream' = [NoStream EXCEPT !.pc = "poll", !.cursor = Len(received)]
  <2>1. /\ stream'.pc = "poll" /\ stream'.cursor = Len(received) /\ stream'.net = <<>>
        /\ DOMAIN stream' = {"pc", "cursor", "batch", "net"}
    BY <1>2 DEF NoStream
  <2>2. PieceOf(<<>>, session.events, Len(received)) /\ Len(<<>>) = 0 BY Lengths, EmptyPiece
  <2>3. Aligned' BY <1>1, <2>1, <2>2, Lengths DEF Aligned
  <2> QED BY <1>1, <2>1, <2>3, Lengths DEF Consistent, Faithful, SessionShape
<1>3. CASE stream' = [NoStream EXCEPT !.pc = "gone"]
  <2>1. stream'.pc = "gone" /\ DOMAIN stream' = {"pc", "cursor", "batch", "net"}
    BY <1>3 DEF NoStream
  <2>2. Aligned' BY <2>1 DEF Aligned, Connected
  <2> QED BY <1>1, <2>1, <2>2, Lengths DEF Consistent, Faithful, SessionShape
<1> QED BY <1>2, <1>3 DEF Connect

(* What follows the cursor, when something does. *)
LEMMA UnsentPiece ==
  ASSUME Consistent, Connected
  PROVE  /\ PieceOf(Unsent, session.events, stream.cursor)
         /\ Unsent = <<>> => stream.cursor = Len(session.events)
<1> DEFINE n == Len(session.events)
           m == stream.cursor
<1>1. n \in Nat /\ m \in Nat /\ m <= n BY Lengths
<1>2. PICK S : session.events \in Seq(S) BY Lengths DEF IsSeq
<1>3. \A i \in m + 1 .. n : session.events[i] \in S BY <1>1, <1>2, ElementOfSeq
<1>4. /\ Unsent \in Seq(S) /\ Len(Unsent) = IF m + 1 <= n THEN n - (m + 1) + 1 ELSE 0
      /\ \A i \in 1 .. n - (m + 1) + 1 : Unsent[i] = session.events[m + 1 + i - 1]
  <2> DEFINE first == m + 1
  <2>1. first \in Int /\ n \in Int /\ \A i \in first .. n : session.events[i] \in S
    BY <1>1, <1>3
  <2>2. Unsent = SubSeq(session.events, first, n) BY DEF Unsent
  <2> HIDE DEF first, n
  <2>3. /\ Unsent \in Seq(S) /\ Len(Unsent) = IF first <= n THEN n - first + 1 ELSE 0
        /\ \A i \in 1 .. n - first + 1 : Unsent[i] = session.events[first + i - 1]
    BY <2>1, <2>2, SubSeqProperties
  <2> QED BY <2>3 DEF first, n
<1>5. Len(Unsent) = n - m BY <1>1, <1>4
<1>6. \A i \in 1 .. Len(Unsent) : Unsent[i] = session.events[m + i] BY <1>1, <1>4, <1>5
<1>7. Unsent = <<>> => m = n BY <1>1, <1>5, EmptySeq
<1> QED BY <1>1, <1>4, <1>5, <1>6, <1>7 DEF PieceOf, IsSeq

LEMMA PollStep ==
  ASSUME Consistent, Poll
  PROVE  Consistent' /\ Faithful
<1>1. UNCHANGED <<session, received>> /\ stream.pc = "poll" BY DEF Poll
<1>2. Connected BY <1>1 DEF Connected
<1>3. CASE stream' = [stream EXCEPT !.pc = "yield", !.batch = Unsent] /\ Unsent # <<>>
  <2>1. /\ stream'.pc = "yield" /\ stream'.batch = Unsent /\ stream'.net = stream.net
        /\ stream'.cursor = stream.cursor /\ DOMAIN stream' = DOMAIN stream
    BY <1>3 DEF Consistent
  <2>2. Aligned' BY <1>1, <1>2, <1>3, <2>1, UnsentPiece DEF Consistent, Aligned
  <2> QED BY <1>1, <2>1, <2>2, Lengths DEF Consistent, Faithful, SessionShape
<1>4. CASE /\ stream' = [stream EXCEPT !.pc = "aborted"]
  <2>1. /\ stream'.pc = "aborted" /\ stream'.net = stream.net
        /\ stream'.cursor = stream.cursor /\ DOMAIN stream' = DOMAIN stream
    BY <1>4 DEF Consistent
  <2>2. Aligned' BY <1>1, <1>2, <2>1 DEF Consistent, Aligned
  <2> QED BY <1>1, <2>1, <2>2, Lengths DEF Consistent, Faithful, SessionShape
<1>5. CASE ~Running /\ stream' = [stream EXCEPT !.pc = "ended"] /\ Unsent = <<>>
  <2>1. /\ stream'.pc = "ended" /\ stream'.net = stream.net
        /\ stream'.cursor = stream.cursor /\ DOMAIN stream' = DOMAIN stream
    BY <1>5 DEF Consistent
  <2>2. Aligned' BY <1>1, <1>2, <2>1 DEF Consistent, Aligned
  <2>3. stream'.cursor = Len(session.events) BY <1>2, <1>5, <2>1, UnsentPiece
  <2> QED BY <1>1, <1>5, <2>1, <2>2, <2>3, Lengths DEF Consistent, Faithful, SessionShape
<1> QED BY <1>3, <1>4, <1>5 DEF Poll

LEMMA YieldStep ==
  ASSUME Consistent, Yield
  PROVE  Consistent' /\ Faithful
<1> DEFINE event == Head(stream.batch)
           last  == Len(stream.batch) = 1
<1>1. /\ UNCHANGED <<session, received>> /\ stream.pc = "yield"
      /\ stream' = [pc |-> IF last THEN "check" ELSE "yield", cursor |-> event.sequence,
                    batch |-> Tail(stream.batch), net |-> Append(stream.net, event)]
  BY DEF Yield
<1>2. Connected BY <1>1 DEF Connected
<1>3. /\ PieceOf(stream.net, session.events, Len(received))
      /\ stream.cursor = Len(received) + Len(stream.net)
      /\ PieceOf(stream.batch, session.events, stream.cursor) /\ stream.batch # <<>>
  BY <1>1, <1>2 DEF Consistent, Aligned
<1>4. /\ Len(stream.batch) \in Nat \ {0} /\ Len(Tail(stream.batch)) = Len(stream.batch) - 1
      /\ event = session.events[stream.cursor + 1]
      /\ stream.cursor + 1 <= Len(session.events)
      /\ PieceOf(Tail(stream.batch), session.events, stream.cursor + 1)
  BY <1>2, <1>3, Lengths, PieceTail
<1>5. event.sequence = stream.cursor + 1
  BY <1>2, <1>4, Lengths DEF Consistent, IsLog
<1> HIDE DEF event
<1>6. /\ PieceOf(Append(stream.net, event), session.events, Len(received))
      /\ Len(Append(stream.net, event)) = Len(stream.net) + 1
  BY <1>2, <1>3, <1>4, Lengths, PieceLonger
<1>7. ~last => Tail(stream.batch) # <<>>
  <2>1. Len(<<>>) = 0 BY EmptySeq
  <2>2. ~last => Len(Tail(stream.batch)) # 0 BY <1>4
  <2> QED BY <2>1, <2>2
<1>8. /\ stream'.pc = IF last THEN "check" ELSE "yield"
      /\ stream'.cursor = stream.cursor + 1 /\ stream'.batch = Tail(stream.batch)
      /\ stream'.net = Append(stream.net, event)
      /\ DOMAIN stream' = {"pc", "cursor", "batch", "net"}
  BY <1>1, <1>5
<1> HIDE DEF last
<1>9. stream'.cursor = Len(received) + Len(stream'.net)
  BY <1>2, <1>3, <1>6, <1>8, Lengths
<1>10. Aligned' BY <1>1, <1>4, <1>6, <1>7, <1>8, <1>9 DEF Aligned
<1> QED BY <1>1, <1>8, <1>10, Lengths DEF Consistent, Faithful, SessionShape

LEMMA CheckStep ==
  ASSUME Consistent, Check
  PROVE  Consistent' /\ Faithful
<1>1. UNCHANGED <<session, received>> /\ Connected BY DEF Check, Connected
<1>2. /\ stream'.pc \in {"poll", "aborted"} /\ stream'.net = stream.net
      /\ stream'.cursor = stream.cursor /\ DOMAIN stream' = DOMAIN stream
  BY DEF Check, Consistent
<1>3. Aligned' BY <1>1, <1>2 DEF Consistent, Aligned
<1> QED BY <1>1, <1>2, <1>3, Lengths DEF Consistent, Faithful, SessionShape

LEMMA DeliverStep ==
  ASSUME Consistent, Deliver
  PROVE  Consistent' /\ Faithful
<1> DEFINE event == Head(stream.net)
<1>1. UNCHANGED session /\ Connected /\ stream.net # <<>> BY DEF Deliver
<1>2. /\ PieceOf(stream.net, session.events, Len(received))
      /\ stream.cursor = Len(received) + Len(stream.net)
  BY <1>1 DEF Consistent, Aligned
<1>3. /\ Len(stream.net) \in Nat \ {0} /\ Len(Tail(stream.net)) = Len(stream.net) - 1
      /\ event = session.events[Len(received) + 1]
      /\ Len(received) + 1 <= Len(session.events)
      /\ PieceOf(Tail(stream.net), session.events, Len(received) + 1)
  BY <1>1, <1>2, Lengths, PieceTail
<1>4. event.sequence = Len(received) + 1 BY <1>3, Lengths DEF Consistent, IsLog
<1>5. received' = Append(received, event) /\ stream' = [stream EXCEPT !.net = Tail(@)]
  BY <1>4 DEF Deliver
<1> HIDE DEF event
<1>6. PieceOf(received', session.events, 0) /\ Len(received') = Len(received) + 1
  BY <1>3, <1>5, Lengths, PieceLonger DEF Consistent
<1>7. /\ stream'.pc = stream.pc /\ stream'.net = Tail(stream.net) /\ stream'.batch = stream.batch
      /\ stream'.cursor = stream.cursor /\ DOMAIN stream' = DOMAIN stream
  BY <1>5 DEF Consistent
<1>8. stream'.cursor = Len(received') + Len(stream'.net)
  <2>1. Len(received) \in Nat /\ Len(stream.net) \in Nat BY <1>3, Lengths
  <2>2. Len(stream'.net) = Len(stream.net) - 1 BY <1>3, <1>7
  <2>3. stream'.cursor = Len(received) + Len(stream.net) BY <1>2, <1>7
  <2>4. Len(received') = Len(received) + 1 BY <1>6
  <2>5. Len(received') + Len(stream'.net) = (Len(received) + 1) + (Len(stream.net) - 1)
    BY <2>2, <2>4
  <2>6. (Len(received) + 1) + (Len(stream.net) - 1) = Len(received) + Len(stream.net)
    <3>1. \A a, b \in Nat : (a + 1) + (b - 1) = a + b OBVIOUS
    <3> QED BY <2>1, <3>1, Zenon
  <2> QED BY <2>3, <2>5, <2>6
<1>9. Aligned' BY <1>1, <1>3, <1>6, <1>7, <1>8 DEF Consistent, Aligned
<1>10. IsPrefix(received', session.events) BY <1>6, Lengths, PieceIsPrefix
<1> QED BY <1>1, <1>6, <1>7, <1>9, <1>10 DEF Consistent, Faithful, SessionShape

LEMMA DisconnectStep ==
  ASSUME Consistent, Over \/ Lose
  PROVE  Consistent' /\ Faithful
<1>1. UNCHANGED <<session, received>> /\ stream' = NoStream BY DEF Over, Lose
<1>2. stream'.pc = "closed" /\ DOMAIN stream' = {"pc", "cursor", "batch", "net"}
  BY <1>1 DEF NoStream
<1>3. Aligned' BY <1>2 DEF Aligned, Connected
<1> QED BY <1>1, <1>2, <1>3, Lengths DEF Consistent, Faithful, SessionShape

LEMMA InitConsistent == Init => Consistent
<1> SUFFICES ASSUME Init PROVE Consistent OBVIOUS
<1> DEFINE first == Logged(<<>>, "session_created", <<>>, <<>>)
           log   == Logged(first, "provider_started", <<>>, <<>>)
<1>1. IsLog(<<>>) /\ IsSeq(<<>>) /\ Len(<<>>) = 0 BY EmptySeq DEF IsLog, IsSeq
<1>2. IsLog(log) BY <1>1, LoggedExtendsOwn, LoggedExtends DEF Extends
<1> HIDE DEF log
<1>3. SessionShape /\ session.events = log BY DEF Init, SessionShape, log
<1>4. received = <<>> /\ stream = NoStream BY DEF Init
<1>5. PieceOf(<<>>, log, 0) BY <1>2, LengthType, EmptyPiece DEF IsLog
<1>6. stream.pc = "closed" /\ DOMAIN stream = {"pc", "cursor", "batch", "net"}
  BY <1>4 DEF NoStream
<1>7. Aligned BY <1>6 DEF Aligned, Connected
<1> QED BY <1>2, <1>3, <1>4, <1>5, <1>6, <1>7 DEF Consistent

LEMMA NextConsistent ==
  ASSUME Consistent, [Next]_vars
  PROVE  Consistent' /\ (UNCHANGED vars \/ Faithful)
<1>1. CASE UNCHANGED vars
  BY <1>1 DEF vars, Consistent, Aligned, SessionShape, Connected
<1>2. CASE Next
  BY <1>2, SessionStep, ConnectStep, PollStep, YieldStep, CheckStep, DeliverStep,
     DisconnectStep DEF Next, Gateway, Client
<1> QED BY <1>1, <1>2

(* What the client has, what is in flight and what the gateway is about to *)
(* send are consecutive pieces of a log that only grows.                   *)
THEOREM ConsistentInvariant == Spec => []Consistent
<1>1. Consistent /\ [Next]_vars => Consistent' BY NextConsistent
<1> QED BY <1>1, InitConsistent, PTL DEF Spec

(* For any provider, route, frames and losses a client has a gapless       *)
(* prefix of the log, is never sent an event it does not expect, and a     *)
(* stream that ends by itself has sent the whole log of a session that is  *)
(* not running (stream() of gateway.py, streamEvents of transport.ts).     *)
THEOREM StreamsFaithfully == Spec => StreamFaithful
<1>1. Consistent /\ [Next]_vars => [Faithful]_vars BY NextConsistent
<1>2. Consistent /\ [Next]_vars =>
        [/\ IsPrefix(received', session'.events)
         /\ stream'.pc # "confused"
         /\ stream.pc # "ended" /\ stream'.pc = "ended" =>
              ~Running /\ stream'.cursor = Len(session.events)]_vars
  BY <1>1 DEF Faithful
<1> QED BY <1>2, ConsistentInvariant, PTL DEF Spec, StreamFaithful

-----------------------------------------------------------------------------
LEMMA Least ==
  ASSUME NEW S \in SUBSET Nat, S # {}
  PROVE  \E n \in S : \A m \in S : n <= m
<1>1. PICK n \in S : \A m \in S : ~(<<m, n>> \in OpToRel(<, Nat))
  BY NatLessThanWellFounded, WFMin
<1>2. \A m \in S : ~(m < n) BY <1>1 DEF OpToRel
<1> QED BY <1>2

-----------------------------------------------------------------------------
(* flat[i] is the first i of seqs, one after the other. *)
Flattens(flat, seqs, n) ==
  flat = [i \in 1 .. n |-> IF i = 1 THEN seqs[i] ELSE flat[i - 1] \o seqs[i]]

Flat(seqs, n) == CHOOSE flat : Flattens(flat, seqs, n)

LEMMA FlattenIs ==
  ASSUME NEW seqs, NEW n, Len(seqs) = n
  PROVE  /\ n = 0 => FlattenSeq(seqs) = seqs
         /\ n # 0 => FlattenSeq(seqs) = Flat(seqs, n)[n]
BY DEF FlattenSeq, Flattens, Flat

LEMMA FlattensApart ==
  ASSUME NEW flat, NEW seqs, NEW n \in Nat
  PROVE  Flattens(flat, seqs, n) <=>
           /\ flat = [i \in 1 .. n |-> flat[i]]
           /\ \A i \in 1 .. n : flat[i] = IF i = 1 THEN seqs[i] ELSE flat[i - 1] \o seqs[i]
<1> DEFINE body == [i \in 1 .. n |-> IF i = 1 THEN seqs[i] ELSE flat[i - 1] \o seqs[i]]
<1>1. ASSUME flat = body
      PROVE  /\ flat = [i \in 1 .. n |-> flat[i]]
             /\ \A i \in 1 .. n : flat[i] = IF i = 1 THEN seqs[i] ELSE flat[i - 1] \o seqs[i]
  <2>1. \A i \in 1 .. n : body[i] = IF i = 1 THEN seqs[i] ELSE flat[i - 1] \o seqs[i] OBVIOUS
  <2>2. body = [i \in 1 .. n |-> body[i]] OBVIOUS
  <2> HIDE DEF body
  <2> QED BY <1>1, <2>1, <2>2
<1>2. ASSUME flat = [i \in 1 .. n |-> flat[i]],
             \A i \in 1 .. n : flat[i] = IF i = 1 THEN seqs[i] ELSE flat[i - 1] \o seqs[i]
      PROVE  flat = body
  BY <1>2
<1> QED BY <1>1, <1>2 DEF Flattens

LEMMA FlatExists ==
  ASSUME NEW seqs, NEW n \in Nat
  PROVE  Flattens(Flat(seqs, n), seqs, n)
<1> DEFINE Missing == {m \in Nat : ~\E flat : Flattens(flat, seqs, m)}
<1> SUFFICES ASSUME Missing # {} PROVE FALSE BY DEF Flat
<1>1. PICK m \in Missing : \A k \in Missing : m <= k
  <2> HIDE DEF Missing
  <2>1. Missing \in SUBSET Nat BY DEF Missing
  <2> QED BY <2>1, Least
<1>2. m # 0
  <2>1. Flattens(<<>>, seqs, 0) BY DEF Flattens
  <2> QED BY <2>1
<1>3. m - 1 \in Nat /\ m - 1 \notin Missing BY <1>1, <1>2
<1>4. PICK flat : Flattens(flat, seqs, m - 1) BY <1>3
<1> DEFINE more == [i \in 1 .. m |-> IF i < m THEN flat[i]
                                     ELSE IF i = 1 THEN seqs[i] ELSE flat[i - 1] \o seqs[i]]
<1>5. /\ more = [i \in 1 .. m |-> more[i]]
      /\ \A i \in 1 .. m : more[i] = IF i < m THEN flat[i]
                                     ELSE IF i = 1 THEN seqs[i] ELSE flat[i - 1] \o seqs[i]
  OBVIOUS
<1>6. \A i \in 1 .. m - 1 : flat[i] = IF i = 1 THEN seqs[i] ELSE flat[i - 1] \o seqs[i]
  BY <1>3, <1>4, FlattensApart
<1> HIDE DEF more
<1>7. ASSUME NEW i \in 1 .. m
      PROVE  more[i] = IF i = 1 THEN seqs[i] ELSE more[i - 1] \o seqs[i]
  <2>1. i # 1 => i - 1 \in 1 .. m /\ i - 1 < m OBVIOUS
  <2>2. i # 1 => more[i - 1] = flat[i - 1] BY <1>5, <2>1
  <2>3. CASE i < m
    <3>1. i \in 1 .. m - 1 BY <2>3
    <3> QED BY <1>5, <1>6, <2>2, <2>3, <3>1
  <2>4. CASE ~(i < m) BY <1>5, <2>2, <2>4
  <2> QED BY <2>3, <2>4
<1>8. Flattens(more, seqs, m) BY <1>5, <1>7, FlattensApart
<1> QED BY <1>8

LEMMA FlatSteps ==
  ASSUME NEW seqs, NEW n \in Nat, NEW i \in 1 .. n
  PROVE  Flat(seqs, n)[i] = IF i = 1 THEN seqs[i] ELSE Flat(seqs, n)[i - 1] \o seqs[i]
BY FlatExists, FlattensApart

(* Two sequences that start alike are alike flattened that far. *)
LEMMA FlatsAgree ==
  ASSUME NEW s, NEW t, NEW n \in Nat, NEW m \in Nat, n <= m, \A i \in 1 .. n : s[i] = t[i],
         n # 0
  PROVE  Flat(s, n)[n] = Flat(t, m)[n]
<1> DEFINE Differ == {i \in 1 .. n : Flat(s, n)[i] # Flat(t, m)[i]}
<1> SUFFICES ASSUME Differ # {} PROVE FALSE OBVIOUS
<1>1. PICK i \in Differ : \A k \in Differ : i <= k
  <2>1. Differ \in SUBSET Nat OBVIOUS
  <2> HIDE DEF Differ
  <2> QED BY <2>1, Least
<1>2. i \in 1 .. n /\ i \in 1 .. m /\ Flat(s, n)[i] # Flat(t, m)[i] OBVIOUS
<1>3. i - 1 \notin Differ BY <1>1
<1>4. i # 1 => Flat(s, n)[i - 1] = Flat(t, m)[i - 1] BY <1>2, <1>3
<1>5. Flat(s, n)[i] = IF i = 1 THEN s[i] ELSE Flat(s, n)[i - 1] \o s[i] BY <1>2, FlatSteps
<1>6. Flat(t, m)[i] = IF i = 1 THEN t[i] ELSE Flat(t, m)[i - 1] \o t[i] BY <1>2, FlatSteps
<1> HIDE DEF Differ
<1> QED BY <1>2, <1>4, <1>5, <1>6

LEMMA EmptyFlat == FlattenSeq(<<>>) = <<>>
BY EmptySeq, FlattenIs

LEMMA EmptyText == IsSeq(<<>>) /\ Len(<<>>) = 0
BY EmptySeq DEF IsSeq

LEMMA EmptyBefore ==
  ASSUME NEW s, IsSeq(s)
  PROVE  <<>> \o s = s /\ s \o <<>> = s
BY ConcatEmptySeq DEF IsSeq

LEMMA OneFlat ==
  ASSUME NEW seqs, Len(seqs) = 1
  PROVE  FlattenSeq(seqs) = seqs[1]
<1>1. FlattenSeq(seqs) = Flat(seqs, 1)[1]
  <2>1. 1 # 0 OBVIOUS
  <2> QED BY <2>1, FlattenIs
<1>2. Flat(seqs, 1)[1] = seqs[1] BY FlatSteps
<1> QED BY <1>1, <1>2

(* What comes last in a sequence comes last in what it flattens to. *)
LEMMA FlattenAppend ==
  ASSUME NEW seqs, IsSeq(seqs), NEW s, IsSeq(s)
  PROVE  FlattenSeq(Append(seqs, s)) = FlattenSeq(seqs) \o s
<1> DEFINE n    == Len(seqs)
           more == Append(seqs, s)
<1>1. n \in Nat BY LengthType
<1>2. Len(more) = n + 1 /\ \A i \in 1 .. n : more[i] = seqs[i]
  BY Appended
<1>3. more[n + 1] = s BY Appended
<1>4. FlattenSeq(more) = Flat(more, n + 1)[n + 1]
  <2>1. n + 1 # 0 BY <1>1
  <2> HIDE DEF more
  <2> QED BY <1>2, <2>1, FlattenIs
<1> HIDE DEF more
<1>5. Flat(more, n + 1)[n + 1] = IF n = 0 THEN s ELSE Flat(more, n + 1)[n] \o s
  <2>1. Flat(more, n + 1)[n + 1] =
          IF n + 1 = 1 THEN more[n + 1] ELSE Flat(more, n + 1)[(n + 1) - 1] \o more[n + 1]
    BY <1>1, FlatSteps
  <2>2. (n + 1) - 1 = n /\ (n + 1 = 1 <=> n = 0) BY <1>1
  <2> QED BY <1>3, <2>1, <2>2
<1>6. CASE n = 0
  <2>1. seqs = <<>> BY <1>6, EmptySeq DEF IsSeq
  <2> QED BY <1>4, <1>5, <1>6, <2>1, EmptyFlat, EmptyBefore DEF more
<1>7. CASE n # 0
  <2>1. FlattenSeq(seqs) = Flat(seqs, n)[n] BY <1>7, FlattenIs
  <2>2. Flat(seqs, n)[n] = Flat(more, n + 1)[n] BY <1>1, <1>2, <1>7, FlatsAgree
  <2> QED BY <1>4, <1>5, <1>7, <2>1, <2>2 DEF more
<1> QED BY <1>6, <1>7

(* Nothing comes of sequences that are empty but for the last. *)
LEMMA LastFlat ==
  ASSUME NEW seqs, NEW n \in Nat \ {0}, Len(seqs) = n, IsSeq(seqs[n]),
         \A i \in 1 .. n - 1 : seqs[i] = <<>>
  PROVE  FlattenSeq(seqs) = seqs[n]
<1> DEFINE Other == {i \in 1 .. n - 1 : Flat(seqs, n)[i] # <<>>}
<1>1. Other = {}
  <2> SUFFICES ASSUME Other # {} PROVE FALSE OBVIOUS
  <2>1. PICK i \in Other : \A k \in Other : i <= k
    <3>1. Other \in SUBSET Nat OBVIOUS
    <3> HIDE DEF Other
    <3> QED BY <3>1, Least
  <2>2. i \in 1 .. n /\ seqs[i] = <<>> /\ Flat(seqs, n)[i] # <<>> OBVIOUS
  <2>3. i - 1 \notin Other BY <2>1
  <2>4. i # 1 => Flat(seqs, n)[i - 1] = <<>> BY <2>2, <2>3
  <2>5. Flat(seqs, n)[i] = IF i = 1 THEN seqs[i] ELSE Flat(seqs, n)[i - 1] \o seqs[i]
    BY <2>2, FlatSteps
  <2> QED BY <2>2, <2>4, <2>5, EmptyText, EmptyBefore
<1>2. FlattenSeq(seqs) = Flat(seqs, n)[n] BY FlattenIs
<1>3. Flat(seqs, n)[n] = IF n = 1 THEN seqs[n] ELSE Flat(seqs, n)[n - 1] \o seqs[n]
  BY FlatSteps
<1>4. n # 1 => Flat(seqs, n)[n - 1] = <<>> BY <1>1
<1> QED BY <1>2, <1>3, <1>4, EmptyBefore

-----------------------------------------------------------------------------
(* The members of a finite set of numbers can be put in order. *)
Ordered(s) == \A i, j \in DOMAIN s : i < j => s[i] < s[j]

LEMMA InOrderIs ==
  ASSUME NEW S \in SUBSET Nat, IsFiniteSet(S)
  PROVE  InOrder(S) \in [1 .. Cardinality(S) -> S]
<1> DEFINE Orders(T) == {s \in [1 .. Cardinality(T) -> T] : Ordered(s)}
           Bad == {n \in Nat : \E T \in SUBSET Nat : /\ IsFiniteSet(T) /\ Cardinality(T) = n
                                                     /\ Orders(T) = {}}
<1>1. Bad = {}
  <2> SUFFICES ASSUME Bad # {} PROVE FALSE OBVIOUS
  <2>1. PICK n \in Bad : \A m \in Bad : n <= m
    <3>1. Bad \in SUBSET Nat OBVIOUS
    <3> HIDE DEF Bad
    <3> QED BY <3>1, Least
  <2>2. PICK T \in SUBSET Nat : IsFiniteSet(T) /\ Cardinality(T) = n /\ Orders(T) = {}
    OBVIOUS
  <2>3. T # {}
    <3>1. ASSUME T = {} PROVE FALSE
      <4>1. Cardinality(T) = 0 BY <3>1, FS_EmptySet
      <4>2. <<>> \in [1 .. 0 -> T] /\ DOMAIN <<>> = {} BY <3>1
      <4>3. <<>> \in Orders(T) BY <4>1, <4>2 DEF Ordered
      <4> QED BY <2>2, <4>3
    <3> QED BY <3>1
  <2>4. PICK x \in T : \A y \in T : x <= y BY <2>3, Least
  <2>5. IsFiniteSet(T \ {x}) /\ Cardinality(T \ {x}) = n - 1 /\ n - 1 \in Nat
    <3>1. IsFiniteSet(T \ {x}) /\ Cardinality(T \ {x}) = Cardinality(T) - 1
      BY <2>2, FS_RemoveElement
    <3>2. Cardinality(T \ {x}) \in Nat BY <3>1, FS_CardinalityType
    <3> QED BY <2>2, <3>1, <3>2
  <2>6. PICK t \in [1 .. n - 1 -> T \ {x}] : Ordered(t)
    <3>1. n - 1 \notin Bad BY <2>1, <2>5
    <3>2. T \ {x} \in SUBSET Nat OBVIOUS
    <3>3. Orders(T \ {x}) # {} BY <2>5, <3>1, <3>2
    <3> QED BY <2>5, <3>3
  <2> DEFINE s == [i \in 1 .. n |-> IF i = 1 THEN x ELSE t[i - 1]]
  <2>7. n \in Nat /\ \A i \in 1 .. n : i # 1 => i - 1 \in 1 .. n - 1 BY <2>5
  <2>8. \A i \in 1 .. n : i # 1 => t[i - 1] \in T /\ x < t[i - 1]
    <3> TAKE i \in 1 .. n
    <3> HAVE i # 1
    <3>1. t[i - 1] \in T \ {x} BY <2>6, <2>7
    <3>2. t[i - 1] \in Nat /\ x \in Nat /\ x <= t[i - 1] /\ x # t[i - 1] BY <2>4, <3>1
    <3> QED BY <3>1, <3>2
  <2>9. s \in [1 .. n -> T] BY <2>8
  <2>10. ASSUME NEW i \in 1 .. n, NEW j \in 1 .. n, i < j PROVE s[i] < s[j]
    <3>1. j # 1 /\ s[j] = t[j - 1] BY <2>7, <2>10
    <3>2. CASE i = 1 BY <2>8, <3>1, <3>2
    <3>3. CASE i # 1
      <4>1. s[i] = t[i - 1] BY <3>3
      <4>2. i - 1 \in 1 .. n - 1 /\ j - 1 \in 1 .. n - 1 /\ i - 1 < j - 1
        BY <2>7, <2>10, <3>1, <3>3
      <4>3. DOMAIN t = 1 .. n - 1 BY <2>6
      <4>4. t[i - 1] < t[j - 1] BY <2>6, <4>2, <4>3 DEF Ordered
      <4> QED BY <3>1, <4>1, <4>4
    <3> QED BY <3>2, <3>3
  <2>11. Ordered(s)
    <3>1. DOMAIN s = 1 .. n OBVIOUS
    <3> HIDE DEF s
    <3> QED BY <2>10, <3>1 DEF Ordered
  <2>12. s \in Orders(T) BY <2>2, <2>9, <2>11
  <2> QED BY <2>2, <2>12
<1>2. Cardinality(S) \in Nat BY FS_CardinalityType
<1>3. Orders(S) # {} BY <1>1, <1>2
<1> QED BY <1>3 DEF InOrder, Ordered

(* One member needs no choice of an order. *)
LEMMA OneOrNone ==
  /\ SetToSeq({}) = <<>>
  /\ \A x : SetToSeq({x}) = <<x>>
<1>1. SetToSeq({}) = <<>>
  <2>1. Cardinality({}) = 0 BY FS_EmptySet
  <2>2. \A f \in [1 .. 0 -> {}] : f = <<>> OBVIOUS
  <2>3. <<>> \in [1 .. 0 -> {}] /\ IsInjective(<<>>) BY DEF IsInjective
  <2> QED BY <2>1, <2>2, <2>3 DEF SetToSeq
<1>2. ASSUME NEW x PROVE SetToSeq({x}) = <<x>>
  <2>1. Cardinality({x}) = 1 BY FS_Singleton
  <2>2. \A f \in [1 .. 1 -> {x}] : f = <<x>>
    <3> TAKE f \in [1 .. 1 -> {x}]
    <3>1. f \in Seq({x}) /\ Len(f) = 1 /\ f[1] = x OBVIOUS
    <3>2. <<x>> \in Seq({x}) /\ Len(<<x>>) = 1 /\ <<x>>[1] = x OBVIOUS
    <3>3. \A i \in 1 .. Len(f) : f[i] = <<x>>[i] BY <3>1, <3>2

    <3> QED BY <3>1, <3>2, <3>3, SeqEqual
  <2>3. <<x>> \in [1 .. 1 -> {x}] OBVIOUS
  <2>4. \A f \in [1 .. 1 -> {x}] : IsInjective(f) BY DEF IsInjective
  <2>5. (CHOOSE f \in [1 .. 1 -> {x}] : IsInjective(f)) = <<x>> BY <2>2, <2>3, <2>4
  <2> QED BY <2>1, <2>5 DEF SetToSeq
<1> QED BY <1>1, <1>2

-----------------------------------------------------------------------------
(* What is joined of all that was said grows with what is said.            *)
OnDomain(m, s) == m = [i \in DOMAIN s |-> m[i]]

(* m and more are the images of s and of Append(s, x), entry by entry. *)
LEMMA MappedAppend ==
  ASSUME NEW s, IsSeq(s), NEW x, NEW m, NEW more,
         OnDomain(m, s), OnDomain(more, Append(s, x)),
         \A i \in 1 .. Len(s) : more[i] = m[i]
  PROVE  IsSeq(m) /\ more = Append(m, more[Len(s) + 1])
<1> DEFINE n == Len(s)
           last == more[n + 1]
<1>1. n \in Nat /\ DOMAIN s = 1 .. n BY LengthType DEF IsSeq
<1>2. DOMAIN Append(s, x) = 1 .. n + 1
  <2>1. IsSeq(Append(s, x)) /\ Len(Append(s, x)) = n + 1 BY Appended
  <2> QED BY <2>1 DEF IsSeq
<1> DEFINE S == {m[i] : i \in 1 .. n} \cup {last}
<1>3. m \in Seq(S) /\ Len(m) = n
  <2>1. \A i \in 1 .. n : m[i] \in S OBVIOUS
  <2> HIDE DEF S
  <2>2. m \in [1 .. n -> S] BY <1>1, <2>1 DEF OnDomain
  <2> QED BY <1>1, <2>2
<1>4. more \in Seq(S) /\ Len(more) = n + 1
  <2>1. \A i \in 1 .. n + 1 : more[i] \in S
    <3> TAKE i \in 1 .. n + 1
    <3>1. i = n + 1 \/ i \in 1 .. n BY <1>1
    <3> QED BY <3>1
  <2> HIDE DEF S, last
  <2>2. more \in [1 .. n + 1 -> S] BY <1>2, <2>1 DEF OnDomain
  <2> QED BY <1>1, <2>2
<1>5. last \in S OBVIOUS
<1> HIDE DEF S, last, n
<1>6. /\ Append(m, last) \in Seq(S) /\ Len(Append(m, last)) = n + 1
      /\ \A i \in 1 .. n : Append(m, last)[i] = m[i]
      /\ Append(m, last)[n + 1] = last
  BY <1>3, <1>5, AppendProperties
<1>7. ASSUME NEW i \in 1 .. n + 1 PROVE more[i] = Append(m, last)[i]
  <2>1. i = n + 1 \/ i \in 1 .. n BY <1>1
  <2> QED BY <1>6, <2>1 DEF n, last
<1>8. more = Append(m, last) BY <1>4, <1>6, <1>7, SeqEqual
<1> QED BY <1>3, <1>8 DEF IsSeq, last, n

Texts(said)        == Joined(said, LAMBDA chunk : chunk.text)
Parts(said, index) == Joined(said, LAMBDA chunk : SetToSeq({f \in chunk.fragments : f.index = index}))
Names(parts)       == Joined(parts, LAMBDA f : f.name)
Args(parts)        == Joined(parts, LAMBDA f : f.arguments)

LEMMA NothingJoined ==
  /\ Texts(<<>>) = <<>> /\ Names(<<>>) = <<>> /\ Args(<<>>) = <<>> /\ Deltas(<<>>) = <<>>
  /\ \A index : Parts(<<>>, index) = <<>>
<1>1. DOMAIN <<>> = {} OBVIOUS
<1>2. \A f : DOMAIN f = {} /\ f = [i \in {} |-> f[i]] => f = <<>> OBVIOUS
<1>3. Texts(<<>>) = <<>> BY <1>1, EmptyFlat DEF Texts, Joined
<1>4. Names(<<>>) = <<>> BY <1>1, EmptyFlat DEF Names, Joined
<1>5. Args(<<>>) = <<>> BY <1>1, EmptyFlat DEF Args, Joined
<1>6. Deltas(<<>>) = <<>> BY <1>1, EmptyFlat DEF Deltas, Joined
<1>7. ASSUME NEW index PROVE Parts(<<>>, index) = <<>> BY <1>1, EmptyFlat DEF Parts, Joined
<1> QED BY <1>3, <1>4, <1>5, <1>6, <1>7

LEMMA DomainGrows ==
  ASSUME NEW s, IsSeq(s), NEW x
  PROVE  /\ DOMAIN s = 1 .. Len(s)
         /\ DOMAIN Append(s, x) = 1 .. Len(s) + 1
         /\ Len(s) \in Nat /\ Len(s) + 1 \in 1 .. Len(s) + 1
         /\ \A i \in 1 .. Len(s) : i \in 1 .. Len(s) + 1 /\ Append(s, x)[i] = s[i]
         /\ Append(s, x)[Len(s) + 1] = x
<1>1. Len(s) \in Nat /\ DOMAIN s = 1 .. Len(s) BY DEF IsSeq
<1>2. DOMAIN Append(s, x) = 1 .. Len(s) + 1
  <2>1. IsSeq(Append(s, x)) /\ Len(Append(s, x)) = Len(s) + 1 BY Appended
  <2> QED BY <2>1 DEF IsSeq
<1> QED BY <1>1, <1>2, Appended

LEMMA TextsAppend ==
  ASSUME NEW said, IsSeq(said), NEW chunk, IsSeq(chunk.text)
  PROVE  Texts(Append(said, chunk)) = Texts(said) \o chunk.text
<1> DEFINE m == [i \in DOMAIN said |-> said[i].text]
           more == [i \in DOMAIN Append(said, chunk) |-> Append(said, chunk)[i].text]
<1>1. \A i \in 1 .. Len(said) : more[i] = m[i] BY DomainGrows
<1>2. more[Len(said) + 1] = chunk.text BY DomainGrows
<1>3. OnDomain(m, said) /\ OnDomain(more, Append(said, chunk)) BY DEF OnDomain
<1>4. Texts(said) = FlattenSeq(m) /\ Texts(Append(said, chunk)) = FlattenSeq(more)
  BY DEF Texts, Joined
<1> HIDE DEF m, more
<1>5. IsSeq(m) /\ more = Append(m, chunk.text) BY <1>1, <1>2, <1>3, MappedAppend
<1> QED BY <1>4, <1>5, FlattenAppend

LEMMA NamesAppend ==
  ASSUME NEW parts, IsSeq(parts), NEW f, IsSeq(f.name)
  PROVE  Names(Append(parts, f)) = Names(parts) \o f.name
<1> DEFINE m == [i \in DOMAIN parts |-> parts[i].name]
           more == [i \in DOMAIN Append(parts, f) |-> Append(parts, f)[i].name]
<1>1. \A i \in 1 .. Len(parts) : more[i] = m[i] BY DomainGrows
<1>2. more[Len(parts) + 1] = f.name BY DomainGrows
<1>3. OnDomain(m, parts) /\ OnDomain(more, Append(parts, f)) BY DEF OnDomain
<1>4. Names(parts) = FlattenSeq(m) /\ Names(Append(parts, f)) = FlattenSeq(more)
  BY DEF Names, Joined
<1> HIDE DEF m, more
<1>5. IsSeq(m) /\ more = Append(m, f.name) BY <1>1, <1>2, <1>3, MappedAppend
<1> QED BY <1>4, <1>5, FlattenAppend

LEMMA ArgsAppend ==
  ASSUME NEW parts, IsSeq(parts), NEW f, IsSeq(f.arguments)
  PROVE  Args(Append(parts, f)) = Args(parts) \o f.arguments
<1> DEFINE m == [i \in DOMAIN parts |-> parts[i].arguments]
           more == [i \in DOMAIN Append(parts, f) |-> Append(parts, f)[i].arguments]
<1>1. \A i \in 1 .. Len(parts) : more[i] = m[i] BY DomainGrows
<1>2. more[Len(parts) + 1] = f.arguments BY DomainGrows
<1>3. OnDomain(m, parts) /\ OnDomain(more, Append(parts, f)) BY DEF OnDomain
<1>4. Args(parts) = FlattenSeq(m) /\ Args(Append(parts, f)) = FlattenSeq(more)
  BY DEF Args, Joined
<1> HIDE DEF m, more
<1>5. IsSeq(m) /\ more = Append(m, f.arguments) BY <1>1, <1>2, <1>3, MappedAppend
<1> QED BY <1>4, <1>5, FlattenAppend

DeltaOf(event) == IF event.type = "assistant_text_delta" THEN event.text ELSE <<>>

LEMMA DeltasAppend ==
  ASSUME NEW events, IsSeq(events), NEW event, IsSeq(DeltaOf(event))
  PROVE  Deltas(Append(events, event)) = Deltas(events) \o DeltaOf(event)
<1> DEFINE m == [i \in DOMAIN events |-> DeltaOf(events[i])]
           more == [i \in DOMAIN Append(events, event) |-> DeltaOf(Append(events, event)[i])]
<1>1. \A i \in 1 .. Len(events) : more[i] = m[i] BY DomainGrows
<1>2. more[Len(events) + 1] = DeltaOf(event) BY DomainGrows
<1>3. OnDomain(m, events) /\ OnDomain(more, Append(events, event)) BY DEF OnDomain
<1>4. Deltas(events) = FlattenSeq(m) /\ Deltas(Append(events, event)) = FlattenSeq(more)
  BY DEF Deltas, Joined, DeltaOf
<1> HIDE DEF m, more
<1>5. IsSeq(m) /\ more = Append(m, DeltaOf(event)) BY <1>1, <1>2, <1>3, MappedAppend
<1> QED BY <1>4, <1>5, FlattenAppend

(* What a chunk says of one call. *)
PartOf(chunk, index) == SetToSeq({f \in chunk.fragments : f.index = index})

LEMMA PartIs ==
  ASSUME NEW chunk, FrameShape(chunk), NEW index
  PROVE  /\ IsSeq(PartOf(chunk, index))
         /\ (\A f \in chunk.fragments : f.index # index) => PartOf(chunk, index) = <<>>
         /\ \A f \in chunk.fragments : f.index = index => PartOf(chunk, index) = <<f>>
<1> DEFINE named == {f \in chunk.fragments : f.index = index}
<1>1. (\A f \in chunk.fragments : f.index # index) => named = {} OBVIOUS
<1>2. \A f \in chunk.fragments : f.index = index => named = {f} BY DEF FrameShape
<1>3. PartOf(chunk, index) = SetToSeq(named) BY DEF PartOf
<1> HIDE DEF named
<1>4. \A f : IsSeq(<<f>>)
  <2> TAKE f
  <2>1. <<f>> \in Seq({f}) OBVIOUS
  <2> QED BY <2>1 DEF IsSeq
<1>5. CASE \A f \in chunk.fragments : f.index # index
  <2>1. PartOf(chunk, index) = <<>> BY <1>1, <1>3, <1>5, OneOrNone
  <2> QED BY <1>5, <2>1, EmptyText
<1>6. CASE \E f \in chunk.fragments : f.index = index
  <2>1. ASSUME NEW f \in chunk.fragments, f.index = index PROVE PartOf(chunk, index) = <<f>>
    BY <1>2, <1>3, <2>1, OneOrNone
  <2> QED BY <1>4, <1>6, <2>1
<1> QED BY <1>5, <1>6

LEMMA PartsAppend ==
  ASSUME NEW said, IsSeq(said), NEW chunk, FrameShape(chunk), NEW index
  PROVE  Parts(Append(said, chunk), index) = Parts(said, index) \o PartOf(chunk, index)
<1> DEFINE m == [i \in DOMAIN said |-> PartOf(said[i], index)]
           more == [i \in DOMAIN Append(said, chunk) |-> PartOf(Append(said, chunk)[i], index)]
<1>1. \A i \in 1 .. Len(said) : more[i] = m[i] BY DomainGrows
<1>2. more[Len(said) + 1] = PartOf(chunk, index) BY DomainGrows
<1>3. OnDomain(m, said) /\ OnDomain(more, Append(said, chunk)) BY DEF OnDomain
<1>4. Parts(said, index) = FlattenSeq(m) /\ Parts(Append(said, chunk), index) = FlattenSeq(more)
  BY DEF Parts, Joined, PartOf
<1> HIDE DEF m, more
<1>5. IsSeq(m) /\ more = Append(m, PartOf(chunk, index)) BY <1>1, <1>2, <1>3, MappedAppend
<1> QED BY <1>4, <1>5, PartIs, FlattenAppend

-----------------------------------------------------------------------------
(* The entry of a call is what its parts say, read off one after the other. *)
HeardCall(entry, parts) ==
  /\ IsSeq(parts) /\ IsSeq(entry.name) /\ IsSeq(entry.arguments)
  /\ entry = [id |-> entry.id, name |-> Names(parts), arguments |-> Args(parts)]
  /\ \A i \in 1 .. Len(parts) : parts[i].id \in {None, entry.id}
  /\ entry.id # None => \E i \in 1 .. Len(parts) : parts[i].id = entry.id

Indices(said) == {f.index : f \in UNION {chunk.fragments : chunk \in Range(said)}}

(* The decoder has taken what was said, and none of it was in vain. *)
HeardEnd(said, decoder) ==
  /\ \A i \in 1 .. Len(said) :
       /\ ~said[i].error /\ said[i].model \in {None, decoder.model}
       /\ ~decoder.refusal => ~said[i].refusal
       /\ decoder.finish = None => said[i].finish = None
  /\ decoder.finish # None => \E k \in 1 .. Len(said) :
       /\ said[k].choices /\ said[k].finish = decoder.finish
       /\ \A i \in 1 .. Len(said) : i # k => said[i].finish = None
       /\ \A i \in 1 .. Len(said) : k < i => ~said[i].choices

Heard(said, decoder) ==
  /\ IsSeq(said) /\ \A i \in 1 .. Len(said) : FrameShape(said[i])
  /\ IsSeq(decoder.text) /\ decoder.text = Texts(said)
  /\ DOMAIN decoder.calls = Indices(said)
  /\ Indices(said) \in SUBSET Nat /\ IsFiniteSet(Indices(said))
  /\ \A index \in Nat : HeardCall(Entry(decoder, index), Parts(said, index))
  /\ HeardEnd(said, decoder)

LEMMA NothingHeard == Heard(<<>>, NewDecoder)
<1>1. NewDecoder.calls = <<>> /\ NewDecoder.text = <<>> /\ NewDecoder.finish = None
  BY DEF NewDecoder
<1>2. Indices(<<>>) = {} /\ DOMAIN <<>> = {} BY DEF Indices, Range
<1>3. ASSUME NEW index \in Nat PROVE HeardCall(Entry(NewDecoder, index), Parts(<<>>, index))
  <2>1. Entry(NewDecoder, index) = NewCallEntry BY <1>1, <1>2 DEF Entry
  <2>2. Parts(<<>>, index) = <<>> BY NothingJoined
  <2>3. /\ NewCallEntry = [id |-> NewCallEntry.id, name |-> <<>>, arguments |-> <<>>]
        /\ NewCallEntry.name = <<>> /\ NewCallEntry.arguments = <<>> /\ NewCallEntry.id = None
    BY DEF NewCallEntry
  <2> QED BY <2>1, <2>2, <2>3, NothingJoined, EmptyText DEF HeardCall
<1>4. HeardEnd(<<>>, NewDecoder) BY <1>1, EmptyText DEF HeardEnd
<1> QED BY <1>1, <1>2, <1>3, <1>4, EmptyText, NothingJoined, FS_EmptySet DEF Heard

LEMMA ConcatType ==
  ASSUME NEW s, IsSeq(s), NEW t, IsSeq(t)
  PROVE  IsSeq(s \o t)
<1>1. PICK S : s \in Seq(S) BY DEF IsSeq
<1>2. PICK T : t \in Seq(T) BY DEF IsSeq
<1>3. s \in Seq(S \cup T) /\ t \in Seq(S \cup T) BY <1>1, <1>2, SeqMonotonic
<1> QED BY <1>3, ConcatProperties DEF IsSeq

LEMMA ShapeType ==
  ASSUME NEW chunk, FrameShape(chunk)
  PROVE  /\ IsSeq(chunk.text)
         /\ \A f \in chunk.fragments : f.index \in Nat /\ IsSeq(f.name) /\ IsSeq(f.arguments)
BY DEF FrameShape, Text, IsSeq

(* One more part of a call. *)
Merged(entry, f) ==
  [id |-> IF f.id = None THEN entry.id ELSE f.id,
   name |-> entry.name \o f.name, arguments |-> entry.arguments \o f.arguments]

LEMMA OnePartMore ==
  ASSUME NEW entry, NEW parts, HeardCall(entry, parts), NEW f, IsSeq(f.name), IsSeq(f.arguments),
         None \in {f.id, entry.id} \/ f.id = entry.id
  PROVE  HeardCall(Merged(entry, f), parts \o <<f>>)
<1> DEFINE more == Append(parts, f)
           new == Merged(entry, f)
<1>1. parts \o <<f>> = more
  <2>1. PICK S : parts \in Seq(S) BY DEF HeardCall, IsSeq
  <2>2. parts \in Seq(S \cup {f}) BY <2>1, SeqMonotonic
  <2> QED BY <2>2, AppendIsConcat
<1>2. IsSeq(parts) BY DEF HeardCall
<1>3. /\ IsSeq(more) /\ Len(more) = Len(parts) + 1 /\ Len(parts) \in Nat
      /\ \A i \in 1 .. Len(parts) : more[i] = parts[i]
      /\ more[Len(parts) + 1] = f
  BY <1>2, Appended, LengthType
<1>4. Names(more) = Names(parts) \o f.name /\ Args(more) = Args(parts) \o f.arguments
  BY <1>2, NamesAppend, ArgsAppend
<1>5. /\ new.id = IF f.id = None THEN entry.id ELSE f.id
      /\ new.name = entry.name \o f.name /\ new.arguments = entry.arguments \o f.arguments
      /\ new = [id |-> new.id, name |-> new.name, arguments |-> new.arguments]
  BY DEF Merged
<1>6. entry.name = Names(parts) /\ entry.arguments = Args(parts) BY DEF HeardCall
<1>7. IsSeq(new.name) /\ IsSeq(new.arguments) BY <1>5, ConcatType DEF HeardCall
<1> HIDE DEF new, more
<1>8. new = [id |-> new.id, name |-> Names(more), arguments |-> Args(more)]
  BY <1>4, <1>5, <1>6
<1>9. ASSUME NEW i \in 1 .. Len(more) PROVE more[i].id \in {None, new.id}
  <2>1. i \in 1 .. Len(parts) \/ i = Len(parts) + 1 BY <1>3
  <2>2. \A k \in 1 .. Len(parts) : parts[k].id \in {None, entry.id} BY DEF HeardCall
  <2>3. ASSUME entry.id # None PROVE entry.id = new.id BY <1>5, <2>3
  <2>4. f.id \in {None, new.id} BY <1>5
  <2> QED BY <1>3, <2>1, <2>2, <2>3, <2>4
<1>10. ASSUME new.id # None PROVE \E i \in 1 .. Len(more) : more[i].id = new.id
  <2>1. CASE f.id # None
    <3>1. Len(parts) + 1 \in 1 .. Len(more) BY <1>3
    <3> QED BY <1>3, <1>5, <2>1, <3>1
  <2>2. CASE f.id = None
    <3>1. entry.id = new.id BY <1>5, <2>2
    <3>2. PICK i \in 1 .. Len(parts) : parts[i].id = entry.id BY <1>10, <3>1 DEF HeardCall
    <3>3. i \in 1 .. Len(more) BY <1>3
    <3> QED BY <1>3, <3>1, <3>2, <3>3
  <2> QED BY <2>1, <2>2
<1> QED BY <1>1, <1>3, <1>7, <1>8, <1>9, <1>10 DEF HeardCall, new

LEMMA IndicesAppend ==
  ASSUME NEW said, IsSeq(said), NEW chunk
  PROVE  Indices(Append(said, chunk)) = Indices(said) \cup {f.index : f \in chunk.fragments}
<1> DEFINE more == Append(said, chunk)
<1>1. Range(more) = Range(said) \cup {chunk}
  <2>1. \A i \in 1 .. Len(said) + 1 : i \in 1 .. Len(said) \/ i = Len(said) + 1
    BY DomainGrows
  <2>2. ASSUME NEW x \in Range(more) PROVE x \in Range(said) \cup {chunk}
    <3>1. PICK i \in DOMAIN more : x = more[i] BY DEF Range
    <3> QED BY <2>1, <3>1, DomainGrows DEF Range
  <2>3. ASSUME NEW x \in Range(said) PROVE x \in Range(more)
    <3>1. PICK i \in DOMAIN said : x = said[i] BY DEF Range
    <3>2. i \in DOMAIN more /\ more[i] = x BY <3>1, DomainGrows
    <3> QED BY <3>2 DEF Range
  <2>4. chunk \in Range(more)
    <3>1. Len(said) + 1 \in DOMAIN more /\ more[Len(said) + 1] = chunk BY DomainGrows
    <3> QED BY <3>1 DEF Range
  <2> QED BY <2>2, <2>3, <2>4
<1> HIDE DEF more
<1> QED BY <1>1 DEF Indices, more

(* What accept makes of a chunk. *)
AcceptedAs(new, decoder, chunk) ==
  /\ new.text = decoder.text \o chunk.text
  /\ new.finish = chunk.finish /\ new.refusal = (decoder.refusal \/ chunk.refusal)
  /\ new.model = IF chunk.model = None THEN decoder.model ELSE chunk.model
  /\ DOMAIN new.calls = {f.index : f \in chunk.fragments} \cup DOMAIN decoder.calls
  /\ \A f \in chunk.fragments : Entry(new, f.index) = Merged(Entry(decoder, f.index), f)
  /\ \A index : (\A f \in chunk.fragments : f.index # index) =>
       Entry(new, index) = Entry(decoder, index)

LEMMA AcceptIs ==
  ASSUME NEW decoder, NEW chunk, FrameShape(chunk), chunk.choices
  PROVE  AcceptedAs(Accept(decoder, chunk), decoder, chunk)
<1> DEFINE named == {f.index : f \in chunk.fragments}
           chosen(index) == CHOOSE f \in chunk.fragments : f.index = index
           calls == [index \in named \cup DOMAIN decoder.calls |->
                       IF index \in named THEN Merged(Entry(decoder, chosen(index).index), chosen(index))
                       ELSE decoder.calls[index]]
           new == [text |-> decoder.text \o chunk.text, calls |-> calls, finish |-> chunk.finish,
                   model |-> IF chunk.model = None THEN decoder.model ELSE chunk.model,
                   refusal |-> decoder.refusal \/ chunk.refusal]
<1>1. Accept(decoder, chunk) = new BY DEF Accept, Merged
<1>2. ASSUME NEW f \in chunk.fragments PROVE f.index \in named /\ chosen(f.index) = f
  BY DEF FrameShape
<1> HIDE DEF chosen
<1>3. DOMAIN calls = named \cup DOMAIN decoder.calls OBVIOUS
<1>4. ASSUME NEW f \in chunk.fragments
      PROVE  f.index \in DOMAIN calls /\ calls[f.index] = Merged(Entry(decoder, f.index), f)
  BY <1>2
<1>5. ASSUME NEW index, index \notin named
      PROVE  /\ index \in DOMAIN calls <=> index \in DOMAIN decoder.calls
             /\ index \in DOMAIN calls => calls[index] = decoder.calls[index]
  BY <1>5
<1> HIDE DEF calls
<1>6. new.calls = calls OBVIOUS
<1>7. \A f \in chunk.fragments : Entry(new, f.index) = Merged(Entry(decoder, f.index), f)
  BY <1>4, <1>6 DEF Entry
<1>8. ASSUME NEW index, \A f \in chunk.fragments : f.index # index
      PROVE  Entry(new, index) = Entry(decoder, index)
  <2>1. index \notin named BY <1>8
  <2> QED BY <1>5, <1>6, <2>1 DEF Entry
<1>9. /\ new.text = decoder.text \o chunk.text
      /\ new.finish = chunk.finish /\ new.refusal = (decoder.refusal \/ chunk.refusal)
      /\ new.model = IF chunk.model = None THEN decoder.model ELSE chunk.model
  OBVIOUS
<1> HIDE DEF new
<1> QED BY <1>1, <1>3, <1>6, <1>7, <1>8, <1>9 DEF AcceptedAs

LEMMA HeardEndMore ==
  ASSUME NEW said, IsSeq(said), NEW decoder, HeardEnd(said, decoder),
         \A i \in 1 .. Len(said) : FrameShape(said[i]),
         NEW chunk, FrameShape(chunk), Acceptable(decoder, chunk), NEW new,
         new.model = IF chunk.model = None THEN decoder.model ELSE chunk.model,
         IF chunk.choices
         THEN new.finish = chunk.finish /\ new.refusal = (decoder.refusal \/ chunk.refusal)
         ELSE new.finish = decoder.finish /\ new.refusal = decoder.refusal
  PROVE  HeardEnd(Append(said, chunk), new)
<1> DEFINE more == Append(said, chunk)
           n == Len(said)
<1>1. /\ n \in Nat /\ Len(more) = n + 1 /\ more[n + 1] = chunk
      /\ \A i \in 1 .. n : more[i] = said[i] /\ i \in 1 .. Len(more)
      /\ n + 1 \in 1 .. Len(more)
      /\ \A i \in 1 .. Len(more) : i \in 1 .. n \/ i = n + 1
  <2>1. n \in Nat /\ Len(more) = n + 1 /\ more[n + 1] = chunk /\ \A i \in 1 .. n : more[i] = said[i]
    BY Appended, LengthType
  <2> HIDE DEF more, n
  <2> QED BY <2>1
<1> HIDE DEF more, n
<1>2. ~chunk.choices => chunk.finish = None /\ ~chunk.refusal BY DEF FrameShape
<1>3. chunk.choices => decoder.finish = None BY DEF Acceptable
<1>4. ~chunk.error /\ (chunk.model = None \/ decoder.model \in {None, chunk.model})
  BY DEF Acceptable
<1>5. ASSUME NEW i \in 1 .. Len(more)
      PROVE  /\ ~more[i].error /\ more[i].model \in {None, new.model}
             /\ ~new.refusal => ~more[i].refusal
             /\ new.finish = None => more[i].finish = None
  <2>1. CASE i = n + 1 BY <1>1, <1>2, <1>4, <2>1
  <2>2. CASE i \in 1 .. n
    <3>1. /\ ~said[i].error /\ said[i].model \in {None, decoder.model}
          /\ ~decoder.refusal => ~said[i].refusal
          /\ decoder.finish = None => said[i].finish = None
      BY <2>2 DEF HeardEnd, n
    <3>2. decoder.model = None \/ decoder.model = new.model BY <1>4
    <3>3. new.finish = None => decoder.finish = None BY <1>3
    <3> QED BY <1>1, <2>2, <3>1, <3>2, <3>3
  <2> QED BY <1>1, <2>1, <2>2
<1>6. ASSUME new.finish # None
      PROVE  \E k \in 1 .. Len(more) :
               /\ more[k].choices /\ more[k].finish = new.finish
               /\ \A i \in 1 .. Len(more) : i # k => more[i].finish = None
               /\ \A i \in 1 .. Len(more) : k < i => ~more[i].choices
  <2>1. CASE chunk.choices
    <3>1. \A i \in 1 .. n : said[i].finish = None BY <1>3, <2>1 DEF HeardEnd, n
    <3>2. \A i \in 1 .. Len(more) : i # n + 1 => more[i].finish = None BY <1>1, <3>1
    <3>3. \A i \in 1 .. Len(more) : ~(n + 1 < i) BY <1>1
    <3> QED BY <1>1, <2>1, <3>2, <3>3
  <2>2. CASE ~chunk.choices
    <3>1. PICK k \in 1 .. n :
            /\ said[k].choices /\ said[k].finish = decoder.finish
            /\ \A i \in 1 .. n : i # k => said[i].finish = None
            /\ \A i \in 1 .. n : k < i => ~said[i].choices
      BY <1>6, <2>2 DEF HeardEnd, n
    <3>2. \A i \in 1 .. Len(more) : i # k => more[i].finish = None BY <1>1, <1>2, <2>2, <3>1
    <3>3. \A i \in 1 .. Len(more) : k < i => ~more[i].choices BY <1>1, <2>2, <3>1
    <3> QED BY <1>1, <2>2, <3>1, <3>2, <3>3
  <2> QED BY <2>1, <2>2
<1> QED BY <1>5, <1>6 DEF HeardEnd, more

LEMMA ShapesAppend ==
  ASSUME NEW said, IsSeq(said), \A i \in 1 .. Len(said) : FrameShape(said[i]),
         NEW chunk, FrameShape(chunk)
  PROVE  IsSeq(Append(said, chunk)) /\ \A i \in 1 .. Len(Append(said, chunk)) : FrameShape(Append(said, chunk)[i])
<1> DEFINE more == Append(said, chunk)
<1>1. /\ IsSeq(more) /\ Len(more) = Len(said) + 1 /\ Len(said) \in Nat
      /\ \A i \in 1 .. Len(said) : more[i] = said[i]
      /\ more[Len(said) + 1] = chunk
  BY Appended, LengthType
<1> HIDE DEF more
<1>2. ASSUME NEW i \in 1 .. Len(more) PROVE FrameShape(more[i])
  <2>1. i \in 1 .. Len(said) \/ i = Len(said) + 1 BY <1>1
  <2> QED BY <1>1, <2>1
<1> QED BY <1>1, <1>2 DEF more

(* What the decoder has is what was said, chunk by chunk (accept). *)
LEMMA HeardMore ==
  ASSUME NEW said, NEW decoder, Heard(said, decoder), NEW chunk, FrameShape(chunk),
         Acceptable(decoder, chunk)
  PROVE  Heard(Append(said, chunk), Accept(decoder, chunk))
<1> DEFINE more  == Append(said, chunk)
           new   == Accept(decoder, chunk)
           named == {f.index : f \in chunk.fragments}
<1>1. IsSeq(said) /\ \A i \in 1 .. Len(said) : FrameShape(said[i]) BY DEF Heard
<1>2. IsSeq(more) /\ \A i \in 1 .. Len(more) : FrameShape(more[i]) BY <1>1, ShapesAppend
<1>3. IsSeq(chunk.text) /\ Texts(more) = Texts(said) \o chunk.text
  BY <1>1, ShapeType, TextsAppend
<1>4. Indices(more) = Indices(said) \cup named BY <1>1, IndicesAppend
<1>5. named \in SUBSET Nat BY ShapeType
<1>6. IsFiniteSet(named)
  <2> DEFINE indexOf == [f \in chunk.fragments |-> f.index]
  <2>1. indexOf \in Surjection(chunk.fragments, named) BY DEF Surjection
  <2> HIDE DEF indexOf
  <2> QED BY <2>1, FS_Surjection DEF FrameShape
<1>7. Indices(more) \in SUBSET Nat /\ IsFiniteSet(Indices(more))
  BY <1>4, <1>5, <1>6, FS_Union DEF Heard
<1>8. ASSUME NEW index
      PROVE  Parts(more, index) = Parts(said, index) \o PartOf(chunk, index)
  BY <1>1, PartsAppend
<1>9. CASE chunk.choices
  <2>1. AcceptedAs(new, decoder, chunk) BY <1>9, AcceptIs
  <2> HIDE DEF new, more
  <2>2. HeardEnd(more, new)
    BY <1>1, <1>9, <2>1, HeardEndMore DEF Heard, more, AcceptedAs
  <2>3. IsSeq(new.text) /\ new.text = Texts(more)
    BY <1>3, <2>1, ConcatType DEF Heard, AcceptedAs
  <2>4. DOMAIN new.calls = Indices(more) BY <1>4, <2>1 DEF Heard, AcceptedAs
  <2>5. ASSUME NEW index \in Nat PROVE HeardCall(Entry(new, index), Parts(more, index))
    <3>1. HeardCall(Entry(decoder, index), Parts(said, index)) BY DEF Heard
    <3>2. CASE \A f \in chunk.fragments : f.index # index
      <4>1. PartOf(chunk, index) = <<>> BY <3>2, PartIs
      <4>2. Parts(said, index) \o <<>> = Parts(said, index) BY <3>1, EmptyBefore DEF HeardCall
      <4> QED BY <1>8, <2>1, <3>1, <3>2, <4>1, <4>2 DEF AcceptedAs
    <3>3. CASE \E f \in chunk.fragments : f.index = index
      <4>1. PICK f \in chunk.fragments : f.index = index BY <3>3
      <4>2. PartOf(chunk, index) = <<f>> BY <4>1, PartIs
      <4>3. None \in {f.id, Entry(decoder, index).id} \/ f.id = Entry(decoder, index).id
        BY <1>9, <4>1 DEF Acceptable
      <4>4. HeardCall(Merged(Entry(decoder, index), f), Parts(said, index) \o <<f>>)
        BY <3>1, <4>1, <4>3, OnePartMore, ShapeType
      <4> QED BY <1>8, <2>1, <4>1, <4>2, <4>4 DEF AcceptedAs
    <3> QED BY <3>2, <3>3
  <2> QED BY <1>2, <1>7, <2>2, <2>3, <2>4, <2>5 DEF Heard, new, more
<1>10. CASE ~chunk.choices
  <2>1. /\ new.text = decoder.text /\ new.calls = decoder.calls
        /\ new.finish = decoder.finish /\ new.refusal = decoder.refusal
        /\ new.model = IF chunk.model = None THEN decoder.model ELSE chunk.model
    BY <1>10 DEF Accept
  <2> HIDE DEF new, more
  <2>2. HeardEnd(more, new) BY <1>1, <1>10, <2>1, HeardEndMore DEF Heard, more
  <2>3. chunk.text = <<>> /\ chunk.fragments = {} BY <1>10 DEF FrameShape
  <2>4. IsSeq(new.text) /\ new.text = Texts(more)
    <3>1. Texts(said) \o <<>> = Texts(said) BY EmptyBefore DEF Heard
    <3> QED BY <1>3, <2>1, <2>3, <3>1 DEF Heard
  <2>5. DOMAIN new.calls = Indices(more) BY <1>4, <2>1, <2>3 DEF Heard
  <2>6. ASSUME NEW index \in Nat PROVE HeardCall(Entry(new, index), Parts(more, index))
    <3>1. HeardCall(Entry(decoder, index), Parts(said, index)) BY DEF Heard
    <3>2. PartOf(chunk, index) = <<>> BY <2>3, PartIs
    <3>3. Parts(said, index) \o <<>> = Parts(said, index) BY <3>1, EmptyBefore DEF HeardCall
    <3>4. Entry(new, index) = Entry(decoder, index) BY <2>1 DEF Entry
    <3> QED BY <1>8, <3>1, <3>2, <3>3, <3>4
  <2> QED BY <1>2, <1>7, <2>2, <2>4, <2>5, <2>6 DEF Heard, new, more
<1> QED BY <1>9, <1>10

(* The answer the decoder is complete with is the one that was streamed. *)
LEMMA CompleteIsHeard ==
  ASSUME NEW said, NEW decoder, Heard(said, decoder), Complete(decoder).accepted
  PROVE  /\ Complete(decoder).text = StreamedAnswer(said).text
         /\ Complete(decoder).requests = StreamedAnswer(said).requests
         /\ StreamFinished(said)
<1> DEFINE order   == InOrder(DOMAIN decoder.calls)
           calls   == [i \in DOMAIN order |-> decoder.calls[order[i]]]
           message == [text |-> decoder.text, finish |-> decoder.finish,
                       refusal |-> decoder.refusal, reasoning |-> <<>>, calls |-> calls]
<1>1. Complete(decoder) = CheckedModel(decoder.model, DecodeChat(message, FALSE)) BY DEF Complete
<1>2. /\ message.text = decoder.text /\ message.finish = decoder.finish
      /\ message.refusal = decoder.refusal /\ message.calls = calls
  OBVIOUS
<1> HIDE DEF message, calls
<1>3. decoder.model \in {None, Model} /\ Complete(decoder) = DecodeChat(message, FALSE)
  <2>1. ~Refused.accepted BY DEF Refused
  <2>2. Complete(decoder) # Refused BY <2>1
  <2> QED BY <1>1, <2>2 DEF CheckedModel
<1>4. /\ decoder.finish \in Whole /\ ~decoder.refusal
      /\ \A i \in DOMAIN calls : SoundCall(calls[i])
      /\ Complete(decoder) = Result(decoder.text, calls)
  <2>1. ~Refused.accepted BY DEF Refused
  <2>2. DecodeChat(message, FALSE) # Refused BY <1>3, <2>1
  <2>3. Content(message, FALSE) = decoder.text BY <1>2 DEF Content
  <2> QED BY <1>2, <1>3, <2>2, <2>3 DEF DecodeChat
<1>5. Complete(decoder).text = decoder.text /\ Complete(decoder).requests = calls
  BY <1>4 DEF Result
<1>6. order \in [1 .. Cardinality(Indices(said)) -> Indices(said)] /\ order = InOrder(Indices(said))
  BY InOrderIs DEF Heard
<1> HIDE DEF order
<1>7. ASSUME NEW i \in DOMAIN order PROVE calls[i] = StreamedCall(said, order[i])
  <2> DEFINE index == order[i]
             parts == Parts(said, index)
             entry == decoder.calls[index]
  <2>1. index \in Indices(said) /\ index \in Nat /\ index \in DOMAIN decoder.calls
    BY <1>6 DEF Heard
  <2>2. Entry(decoder, index) = entry BY <2>1 DEF Entry
  <2>3. HeardCall(entry, parts) BY <2>1, <2>2 DEF Heard
  <2>4. calls[i] = entry BY DEF calls
  <2>5. entry.id # None BY <1>4, <2>4 DEF calls, SoundCall
  <2> DEFINE ids == {f.id : f \in Range(parts)} \ {None}
  <2>6. ids = {entry.id}
    <3>1. DOMAIN parts = 1 .. Len(parts) BY <2>3 DEF HeardCall, IsSeq
    <3>2. \A f \in Range(parts) : f.id \in {None, entry.id} BY <2>3, <3>1 DEF HeardCall, Range
    <3>3. \E f \in Range(parts) : f.id = entry.id BY <2>3, <2>5, <3>1 DEF HeardCall, Range
    <3> QED BY <2>5, <3>2, <3>3
  <2>7. StreamedCall(said, index) =
          [id |-> CHOOSE id \in ids : TRUE, name |-> Names(parts), arguments |-> Args(parts)]
    BY DEF StreamedCall, Parts, Names, Args
  <2> HIDE DEF ids, parts, index, entry
  <2>8. (CHOOSE id \in ids : TRUE) = entry.id BY <2>6
  <2>9. entry = [id |-> entry.id, name |-> Names(parts), arguments |-> Args(parts)]
    BY <2>3 DEF HeardCall
  <2> QED BY <2>4, <2>7, <2>8, <2>9 DEF index
<1>8. StreamedAnswer(said) =
        [text |-> Texts(said), requests |-> [i \in DOMAIN order |-> StreamedCall(said, order[i])]]
  BY <1>6 DEF StreamedAnswer, Indices, Texts
<1>9. calls = [i \in DOMAIN order |-> StreamedCall(said, order[i])]
  BY <1>7 DEF calls
<1>10. StreamFinished(said)
  <2>1. decoder.finish # None BY <1>4, AnswersAssumption
  <2>2. HeardEnd(said, decoder) /\ DOMAIN said = 1 .. Len(said) /\ Len(said) \in Nat
    BY DEF Heard, IsSeq
  <2>3. PICK k \in 1 .. Len(said) :
          /\ said[k].choices /\ said[k].finish = decoder.finish
          /\ \A i \in 1 .. Len(said) : i # k => said[i].finish = None
          /\ \A i \in 1 .. Len(said) : k < i => ~said[i].choices
    BY <2>1, <2>2 DEF HeardEnd
  <2>4. {i \in DOMAIN said : said[i].choices /\ said[i].finish \in Whole} = {k}
    BY <1>4, <2>2, <2>3, AnswersAssumption
  <2>5. ASSUME NEW i \in DOMAIN said, NEW j \in DOMAIN said, i < j /\ said[j].choices
        PROVE  said[i].finish = None
    <3>1. ~(k < j) /\ i # k BY <2>2, <2>3, <2>5
    <3> QED BY <2>2, <2>3, <3>1
  <2>6. \A chunk \in Range(said) : ~chunk.error /\ ~chunk.refusal /\ chunk.model \in {None, Model}
    BY <1>3, <1>4, <2>2 DEF HeardEnd, Range
  <2>7. Cardinality({k}) = 1 BY FS_Singleton
  <2> QED BY <2>4, <2>5, <2>6, <2>7 DEF StreamFinished
<1> QED BY <1>5, <1>8, <1>9, <1>10 DEF Heard

-----------------------------------------------------------------------------
(* A decoded answer is what the provider meant, from no refused, unfinished *)
(* or foreign one.                                                          *)
TakenFor(result, route, said) ==
  /\ result.text = Meant(route, said).text /\ result.requests = Meant(route, said).requests
  /\ Finished(route, said)

LEMMA TextType == ASSUME NEW s, Text(s) PROVE IsSeq(s)
BY DEF Text, IsSeq

LEMMA ResultIs ==
  /\ ~Refused.accepted
  /\ \A text, requests : Result(text, requests).text = text /\ Result(text, requests).requests = requests
BY DEF Refused, Result

LEMMA ChatTaken ==
  ASSUME NEW message, NEW opted, DecodeChat(message, opted).accepted
  PROVE  /\ message.finish \in Whole /\ ~message.refusal
         /\ DecodeChat(message, opted).requests = message.calls
         /\ DecodeChat(message, opted).text =
              IF Blank(message.text) /\ message.calls = <<>> THEN message.reasoning ELSE message.text
<1> DEFINE content == Content(message, opted)
<1>1. DecodeChat(message, opted) # Refused BY ResultIs
<1>2. /\ message.finish \in Whole /\ ~message.refusal
      /\ ~Blank(content) \/ message.calls # <<>>
      /\ DecodeChat(message, opted) = Result(content, message.calls)
  BY <1>1 DEF DecodeChat
<1>3. content = IF Blank(message.text) /\ message.calls = <<>> THEN message.reasoning ELSE message.text
  BY <1>2 DEF Content
<1> QED BY <1>2, <1>3, ResultIs

LEMMA EnvelopeTaken ==
  ASSUME NEW envelope, ParseEnvelope(envelope).accepted
  PROVE  /\ envelope # None
         /\ ParseEnvelope(envelope).text = Strip(envelope.text)
         /\ ParseEnvelope(envelope).requests = envelope.calls
<1>1. ParseEnvelope(envelope) # Refused BY ResultIs
<1> QED BY <1>1, ResultIs DEF ParseEnvelope

CallsOf(envelopes) == Joined(envelopes, LAMBDA envelope : envelope.calls)

(* Only the last of the envelopes asks for tools. *)
LEMMA CallsOfLast ==
  ASSUME NEW envelopes, IsSeq(envelopes), envelopes # <<>>,
         \A i \in 1 .. Len(envelopes) - 1 : envelopes[i].calls = <<>>,
         Len(envelopes) = 1 \/ IsSeq(envelopes[Len(envelopes)].calls)
  PROVE  CallsOf(envelopes) = envelopes[Len(envelopes)].calls
<1> DEFINE n == Len(envelopes)
           m == [i \in DOMAIN envelopes |-> envelopes[i].calls]
<1>1. n \in Nat \ {0} /\ DOMAIN envelopes = 1 .. n BY EmptySeq DEF IsSeq
<1>2. /\ m[n] = envelopes[n].calls
      /\ \A i \in 1 .. n - 1 : m[i] = <<>>
  BY <1>1
<1>3. Len(m) = n
  <2>1. m = [i \in 1 .. n |-> m[i]] BY <1>1
  <2>2. n \in Nat BY <1>1
  <2> HIDE DEF m, n
  <2> QED BY <2>1, <2>2
<1>4. CallsOf(envelopes) = FlattenSeq(m) BY DEF CallsOf, Joined
<1> HIDE DEF m
<1>5. CASE n = 1 BY <1>2, <1>3, <1>4, <1>5, OneFlat
<1>6. CASE IsSeq(envelopes[n].calls) BY <1>1, <1>2, <1>3, <1>4, <1>6, LastFlat
<1> QED BY <1>5, <1>6

LEMMA OneEnvelope ==
  ASSUME NEW envelope
  PROVE  CallsOf(<<envelope>>) = envelope.calls /\ Last(<<envelope>>) = envelope
<1>1. <<envelope>> \in Seq({envelope}) /\ Len(<<envelope>>) = 1 /\ <<envelope>>[1] = envelope
  OBVIOUS
<1>2. <<envelope>> # <<>> /\ IsSeq(<<envelope>>) BY <1>1, EmptySeq DEF IsSeq
<1>3. \A i \in 1 .. Len(<<envelope>>) - 1 : FALSE BY <1>1
<1>4. CallsOf(<<envelope>>) = envelope.calls BY <1>1, <1>2, <1>3, CallsOfLast
<1>5. Last(<<envelope>>) = envelope BY <1>1 DEF Last
<1> QED BY <1>4, <1>5

Adapters == {"lmstudio", "openrouter", "codex", "claude", "grok"}

LEMMA MeantByEnvelopes ==
  ASSUME NEW route, route.adapter \in {"codex", "claude", "grok"}, NEW payload
  PROVE  LET envelopes == Envelopes(route.adapter, payload)
         IN /\ Meant(route, <<payload>>).requests = CallsOf(envelopes)
            /\ Meant(route, <<payload>>).text = Strip(Last(envelopes).text)
            /\ Finished(route, <<payload>>) <=>
                 /\ route.adapter # "codex" => ~payload.error
                 /\ route.adapter = "grok" => payload.stop \in {None, "end_turn", "stop", "tool_use"}
<1>1. ~Streams(route) /\ ~ChatForm(route) BY DEF Streams, ChatForm
<1>2. <<payload>>[1] = payload OBVIOUS
<1> QED BY <1>1, <1>2 DEF Meant, Finished, CallsOf

LEMMA ChatMeant ==
  ASSUME NEW route, ChatForm(route), NEW payload, NEW opted,
         CheckedModel(payload.model, DecodeChat(payload, opted)).accepted,
         route.adapter = "openrouter" => payload.upstream \in {None, Upstream}
  PROVE  TakenFor(CheckedModel(payload.model, DecodeChat(payload, opted)), route, <<payload>>)
<1> DEFINE chat == DecodeChat(payload, opted)
           taken == CheckedModel(payload.model, chat)
<1>1. taken # Refused BY ResultIs
<1>2. payload.model \in {None, Model} /\ taken = chat BY <1>1 DEF CheckedModel
<1>3. /\ payload.finish \in Whole /\ ~payload.refusal /\ chat.requests = payload.calls
      /\ chat.text = IF Blank(payload.text) /\ payload.calls = <<>> THEN payload.reasoning
                     ELSE payload.text
  BY <1>2, ChatTaken
<1> HIDE DEF taken, chat
<1>4. ~Streams(route) /\ <<payload>>[1] = payload BY DEF ChatForm
<1>5. /\ Meant(route, <<payload>>).requests = payload.calls
      /\ Meant(route, <<payload>>).text =
           IF Blank(payload.text) /\ payload.calls = <<>> THEN payload.reasoning ELSE payload.text
  BY <1>4 DEF Meant
<1>6. Finished(route, <<payload>>) BY <1>2, <1>3, <1>4 DEF Finished
<1> QED BY <1>2, <1>3, <1>5, <1>6 DEF TakenFor, taken, chat

(* An answer in one piece, on every adapter. *)
LEMMA DecodedIsMeant ==
  ASSUME NEW route \in Routes, ~Streams(route), NEW payload \in Payloads[route.adapter],
         Decoded(route, payload).accepted
  PROVE  TakenFor(Decoded(route, payload), route, <<payload>>)
<1> DEFINE result == Decoded(route, payload)
<1>1. route.adapter \in Adapters BY DeliveryAssumption DEF Adapters
<1>2. CASE route.adapter = "lmstudio"
  <2>1. ChatForm(route) BY <1>2 DEF ChatForm
  <2>2. result = CheckedModel(payload.model, DecodeChat(payload, route.schema /\ route.tools = {}))
    BY <1>2 DEF Decoded, DecodeLMStudio
  <2> QED BY <1>2, <2>1, <2>2, ChatMeant
<1>3. CASE route.adapter = "openrouter"
  <2>1. ChatForm(route) BY <1>3 DEF ChatForm
  <2>2. result = DecodeOpenRouter(payload) BY <1>3 DEF Decoded
  <2>3. DecodeOpenRouter(payload) # Refused BY <2>2, ResultIs
  <2>4. /\ payload.upstream \in {None, Upstream}
        /\ result = CheckedModel(payload.model, DecodeChat(payload, FALSE))
    BY <2>2, <2>3 DEF DecodeOpenRouter
  <2> QED BY <2>1, <2>4, ChatMeant
<1>4. CASE route.adapter = "codex"
  <2>1. result = ParseEnvelope(payload) BY <1>4 DEF Decoded
  <2>2. Envelopes(route.adapter, payload) = <<payload>> BY <1>4 DEF Envelopes
  <2> QED BY <1>4, <2>1, <2>2, EnvelopeTaken, MeantByEnvelopes, OneEnvelope DEF TakenFor
<1>5. ASSUME route.adapter \in {"claude", "grok"}, payload.structured # None,
             result = ParseEnvelope(payload.structured), ~payload.error,
             route.adapter = "grok" => payload.stop \in {None, "end_turn", "stop", "tool_use"}
      PROVE  TakenFor(result, route, <<payload>>)
  <2>1. Envelopes(route.adapter, payload) = <<payload.structured>> BY <1>5 DEF Envelopes
  <2> QED BY <1>5, <2>1, EnvelopeTaken, MeantByEnvelopes, OneEnvelope DEF TakenFor
<1>6. ASSUME route.adapter \in {"claude", "grok"}, payload.structured = None, ~payload.error,
             route.adapter = "grok" => payload.stop \in {None, "end_turn", "stop", "tool_use"},
             payload.texts # <<>>, result = ParseEnvelope(payload.texts[Len(payload.texts)]),
             \A i \in 1 .. Len(payload.texts) - 1 : payload.texts[i].calls = <<>>
      PROVE  TakenFor(result, route, <<payload>>)
  <2> DEFINE texts == payload.texts
             last  == texts[Len(texts)]
  <2>1. Envelopes(route.adapter, payload) = texts BY <1>6 DEF Envelopes
  <2>2. Text(texts) /\ \A envelope \in Range(texts) \ {None} : Text(envelope.calls)
    BY <1>6, DeliveryAssumption
  <2>3. IsSeq(texts) BY <2>2, TextType
  <2>4. last # None /\ result.text = Strip(last.text) /\ result.requests = last.calls
    BY <1>6, EnvelopeTaken
  <2>5. Len(texts) \in DOMAIN texts BY <1>6, <2>3, EmptySeq DEF IsSeq
  <2>6. IsSeq(last.calls) BY <2>2, <2>4, <2>5, TextType DEF Range
  <2>7. CallsOf(texts) = last.calls BY <1>6, <2>3, <2>6, CallsOfLast
  <2>8. Last(texts) = last BY DEF Last
  <2> QED BY <1>6, <2>1, <2>4, <2>7, <2>8, MeantByEnvelopes DEF TakenFor
<1>7. CASE route.adapter = "claude"
  <2>1. result = DecodeClaude(payload) BY <1>7 DEF Decoded
  <2>2. DecodeClaude(payload) # Refused BY <2>1, ResultIs
  <2>3. ~payload.error BY <2>2 DEF DecodeClaude
  <2>4. CASE payload.structured # None BY <1>5, <1>7, <2>1, <2>3, <2>4 DEF DecodeClaude
  <2>5. CASE payload.structured = None
    <3>1. Len(payload.texts) = 1 /\ result = ParseEnvelope(Head(payload.texts))
      BY <2>1, <2>2, <2>3, <2>5 DEF DecodeClaude
    <3>2. IsSeq(payload.texts) BY <1>7, TextType, DeliveryAssumption
    <3>3. payload.texts # <<>> /\ Head(payload.texts) = payload.texts[1]
      BY <3>1, <3>2, EmptySeq DEF IsSeq
    <3>4. \A i \in 1 .. Len(payload.texts) - 1 : FALSE BY <3>1
    <3> QED BY <1>6, <1>7, <2>3, <2>5, <3>1, <3>3, <3>4
  <2> QED BY <2>4, <2>5
<1>8. CASE route.adapter = "grok"
  <2>1. result = DecodeGrok(payload) BY <1>8 DEF Decoded
  <2>2. DecodeGrok(payload) # Refused BY <2>1, ResultIs
  <2>3. ~payload.error /\ payload.stop \in {None, "end_turn", "stop", "tool_use"}
    BY <2>2 DEF DecodeGrok
  <2>4. CASE payload.structured # None BY <1>5, <1>8, <2>1, <2>3, <2>4 DEF DecodeGrok
  <2>5. CASE payload.structured = None
    <3> DEFINE texts == payload.texts
    <3>1. result = TextEnvelopes(texts) BY <2>1, <2>3, <2>5 DEF DecodeGrok
    <3>2. TextEnvelopes(texts) # Refused BY <3>1, ResultIs
    <3>3. /\ Len(texts) \in 1 .. MaxEnvelopes /\ result = ParseEnvelope(texts[Len(texts)])
          /\ \A i \in DOMAIN texts : i < Len(texts) => texts[i].calls = <<>>
      BY <3>1, <3>2 DEF TextEnvelopes
    <3>4. IsSeq(texts) BY <1>8, TextType, DeliveryAssumption
    <3>5. \A i \in 1 .. Len(texts) - 1 : i \in DOMAIN texts /\ i < Len(texts)
      BY <3>4 DEF IsSeq
    <3>6. texts # <<>> BY <3>3, <3>4, EmptySeq, AnswersAssumption
    <3> QED BY <1>6, <1>8, <2>3, <2>5, <3>3, <3>5, <3>6
  <2> QED BY <2>4, <2>5
<1> QED BY <1>1, <1>2, <1>3, <1>4, <1>7, <1>8 DEF Adapters

-----------------------------------------------------------------------------
(* The events of a turn start with the last provider_started of the log. *)
StartsAt(events, k) ==
  /\ k \in 1 .. Len(events) /\ events[k].type = "provider_started"
  /\ \A i \in 1 .. Len(events) : k < i => events[i].type # "provider_started"

Begun(events) == IsSeq(events) /\ \E k : StartsAt(events, k)

LEMMA SinceIs ==
  ASSUME NEW events, IsSeq(events), NEW k, StartsAt(events, k)
  PROVE  TurnEvents(events) = SubSeq(events, k, Len(events))
<1> DEFINE starts == {i \in DOMAIN events : events[i].type = "provider_started"}
<1>1. DOMAIN events = 1 .. Len(events) /\ Len(events) \in Nat BY DEF IsSeq
<1>2. k \in starts /\ k \in Nat BY <1>1 DEF StartsAt
<1>3. \A i \in starts : i \in Nat /\ ~(k < i) BY <1>1 DEF StartsAt
<1>4. \A i \in starts : k >= i BY <1>2, <1>3
<1>5. \A i \in starts : (\A j \in starts : i >= j) => i = k BY <1>2, <1>3
<1> HIDE DEF starts
<1>6. Max(starts) = k BY <1>2, <1>4, <1>5 DEF Max
<1> QED BY <1>6 DEF TurnEvents, starts

LEMMA PieceAppend ==
  ASSUME NEW s, IsSeq(s), NEW k \in 1 .. Len(s) + 1, NEW e
  PROVE  SubSeq(Append(s, e), k, Len(s) + 1) = Append(SubSeq(s, k, Len(s)), e)
<1>1. PICK S : s \in Seq(S) BY DEF IsSeq
<1> DEFINE T == S \cup {e}
           n == Len(s)
           more == Append(s, e)
           old == SubSeq(s, k, n)
           new == SubSeq(more, k, n + 1)
<1>2. s \in Seq(T) /\ e \in T BY <1>1, SeqMonotonic
<1>3. /\ more \in Seq(T) /\ Len(more) = n + 1 /\ n \in Nat
      /\ \A i \in 1 .. n : more[i] = s[i]
      /\ more[n + 1] = e
  BY <1>2, AppendProperties
<1>4. \A i \in 1 .. n : s[i] \in T BY <1>2, ElementOfSeq
<1> HIDE DEF more, n, T
<1>5. \A i \in 1 .. n + 1 : more[i] \in T
  BY <1>3, ElementOfSeq
<1>6. k \in Nat \ {0} /\ k <= n + 1 BY <1>3 DEF n
<1>7. /\ old \in Seq(T) /\ Len(old) = IF k <= n THEN n - k + 1 ELSE 0
      /\ \A i \in 1 .. n - k + 1 : old[i] = s[k + i - 1]
  <2>1. \A i \in k .. n : s[i] \in T BY <1>3, <1>4, <1>6
  <2> QED BY <1>3, <1>6, <2>1, SubSeqProperties
<1>8. /\ new \in Seq(T) /\ Len(new) = n + 1 - k + 1
      /\ \A i \in 1 .. n + 1 - k + 1 : new[i] = more[k + i - 1]
  <2>1. \A i \in k .. n + 1 : more[i] \in T BY <1>3, <1>5, <1>6
  <2> QED BY <1>3, <1>6, <2>1, SubSeqProperties
<1> HIDE DEF old, new
<1>9. /\ Append(old, e) \in Seq(T) /\ Len(Append(old, e)) = Len(old) + 1
      /\ \A i \in 1 .. Len(old) : Append(old, e)[i] = old[i]
      /\ Append(old, e)[Len(old) + 1] = e
  BY <1>2, <1>7, AppendProperties
<1>10. Len(old) = n - k + 1 BY <1>3, <1>6, <1>7
<1>11. ASSUME NEW i \in 1 .. Len(new) PROVE new[i] = Append(old, e)[i]
  <2>1. i \in 1 .. n + 1 - k + 1 /\ k + i - 1 \in 1 .. n + 1 BY <1>3, <1>6, <1>8
  <2>2. CASE i = Len(old) + 1
    <3>1. k + i - 1 = n + 1 BY <1>3, <1>6, <1>10, <2>2
    <3> QED BY <1>3, <1>8, <1>9, <2>1, <2>2, <3>1
  <2>3. CASE i # Len(old) + 1
    <3>1. i \in 1 .. Len(old) /\ k + i - 1 \in 1 .. n BY <1>3, <1>6, <1>10, <2>1, <2>3
    <3> QED BY <1>3, <1>7, <1>8, <1>9, <1>10, <2>1, <3>1
  <2> QED BY <2>2, <2>3
<1>12. Len(Append(old, e)) = Len(new) BY <1>3, <1>6, <1>8, <1>9, <1>10
<1>13. new = Append(old, e) BY <1>8, <1>9, <1>11, <1>12, SeqEqual
<1> QED BY <1>13 DEF old, new, more, n

LEMMA BegunAppend ==
  ASSUME NEW events, Begun(events), NEW e, e.type # "provider_started"
  PROVE  Begun(Append(events, e)) /\ TurnEvents(Append(events, e)) = Append(TurnEvents(events), e)
<1> DEFINE more == Append(events, e)
<1>1. PICK k : StartsAt(events, k) BY DEF Begun
<1>2. /\ IsSeq(more) /\ Len(more) = Len(events) + 1 /\ Len(events) \in Nat
      /\ \A i \in 1 .. Len(events) : more[i] = events[i]
      /\ more[Len(events) + 1] = e
  BY Appended, LengthType DEF Begun
<1> HIDE DEF more
<1>3. StartsAt(more, k)
  <2>1. \A i \in 1 .. Len(more) : i \in 1 .. Len(events) \/ i = Len(events) + 1 BY <1>2
  <2>2. k \in 1 .. Len(events) /\ k \in 1 .. Len(more) BY <1>1, <1>2 DEF StartsAt
  <2> QED BY <1>1, <1>2, <2>1, <2>2 DEF StartsAt
<1>4. TurnEvents(events) = SubSeq(events, k, Len(events)) BY <1>1, SinceIs DEF Begun
<1>5. TurnEvents(more) = SubSeq(more, k, Len(events) + 1) BY <1>2, <1>3, SinceIs
<1>6. k \in 1 .. Len(events) + 1 BY <1>1, <1>2 DEF StartsAt
<1>7. TurnEvents(more) = Append(TurnEvents(events), e) BY <1>4, <1>5, <1>6, PieceAppend DEF Begun, more
<1> QED BY <1>2, <1>3, <1>7 DEF Begun, more

LEMMA BeginAppend ==
  ASSUME NEW events, IsSeq(events), NEW e, e.type = "provider_started"
  PROVE  /\ Begun(Append(events, e)) /\ IsSeq(TurnEvents(Append(events, e)))
         /\ Deltas(TurnEvents(Append(events, e))) = <<>>
<1> DEFINE more == Append(events, e)
           n == Len(events)
<1>1. /\ IsSeq(more) /\ Len(more) = n + 1 /\ n \in Nat /\ more[n + 1] = e
  BY Appended, LengthType
<1>2. StartsAt(more, n + 1) BY <1>1 DEF StartsAt
<1>3. TurnEvents(more) = SubSeq(more, n + 1, n + 1) BY <1>1, <1>2, SinceIs
<1>4. SubSeq(more, n + 1, n + 1) = Append(SubSeq(events, n + 1, n), e)
  <2>1. n + 1 \in 1 .. Len(events) + 1 BY <1>1
  <2> QED BY <2>1, PieceAppend
<1>5. SubSeq(events, n + 1, n) = <<>> BY <1>1, SubSeqEmpty
<1>6. DeltaOf(e) = <<>> BY DEF DeltaOf
<1>7. Deltas(Append(<<>>, e)) = <<>> \o <<>>
  BY <1>6, DeltasAppend, EmptyText, NothingJoined
<1>8. IsSeq(Append(<<>>, e)) BY EmptyText, Appended
<1> HIDE DEF more
<1>9. TurnEvents(more) = Append(<<>>, e) BY <1>3, <1>4, <1>5 DEF more
<1>10. Begun(more) BY <1>1, <1>2 DEF Begun
<1> QED BY <1>7, <1>8, <1>9, <1>10, EmptyText, EmptyBefore DEF more

(* Every event but a delta leaves the deltas of the turn alone. *)
LEMMA LoggedOther ==
  ASSUME NEW events, Begun(events), IsSeq(TurnEvents(events)), NEW type, NEW text, NEW requests,
         type \notin {"provider_started", "assistant_text_delta"}, IsSeq(Deltas(TurnEvents(events)))
  PROVE  LET log == Logged(events, type, text, requests)
         IN /\ Begun(log) /\ Deltas(TurnEvents(log)) = Deltas(TurnEvents(events))
            /\ Last(log).text = text /\ Last(log).requests = requests
<1> DEFINE e == [sequence |-> Len(events) + 1, type |-> type, text |-> text, requests |-> requests]
<1>1. e.type = type /\ e.text = text /\ e.requests = requests OBVIOUS
<1>2. Logged(events, type, text, requests) = Append(events, e) BY DEF Logged
<1> HIDE DEF e
<1>3. Begun(Append(events, e)) /\ TurnEvents(Append(events, e)) = Append(TurnEvents(events), e)
  BY <1>1, BegunAppend
<1>4. DeltaOf(e) = <<>> BY <1>1 DEF DeltaOf
<1>5. Deltas(Append(TurnEvents(events), e)) = Deltas(TurnEvents(events)) \o <<>>
  BY <1>4, DeltasAppend, EmptyText
<1>6. Last(Append(events, e)) = e BY Appended DEF Last, Begun
<1> QED BY <1>1, <1>2, <1>3, <1>5, <1>6, EmptyBefore

-----------------------------------------------------------------------------
(* A call under way tells the log what it pushes. *)
WayShape(way) ==
  /\ DOMAIN way = {"call", "events", "raised"}
  /\ DOMAIN way.call = {"turn", "said", "decoder", "pushed", "em"}
  /\ DOMAIN way.call.em = {"budget", "chunk", "text", "pending", "emitted"}

(* The deltas of the turn are the text that was pushed, but for what the   *)
(* emitter holds back.                                                     *)
Told(events, pushed, pending) ==
  /\ Begun(events) /\ IsSeq(TurnEvents(events))
  /\ IsSeq(pushed) /\ pending \in 0 .. Len(pushed)
  /\ Deltas(TurnEvents(events)) = SubSeq(pushed, 1, Len(pushed) - pending)

TellsAll(way) == WayShape(way) /\ Told(way.events, way.call.pushed, way.call.em.pending)

LEMMA PieceType ==
  ASSUME NEW s, IsSeq(s), NEW m \in Nat \ {0}, NEW n \in Nat, n <= Len(s)
  PROVE  IsSeq(SubSeq(s, m, n))
<1>1. PICK S : s \in Seq(S) BY DEF IsSeq
<1>2. Len(s) \in Nat BY <1>1
<1>3. \A i \in m .. n : s[i] \in S BY <1>1, <1>2, ElementOfSeq
<1>4. SubSeq(s, m, n) \in Seq(S) BY <1>3, SubSeqProperties
<1> QED BY <1>4 DEF IsSeq

LEMMA WholePiece == ASSUME NEW s, IsSeq(s) PROVE SubSeq(s, 1, Len(s)) = s
BY SubSeqFull DEF IsSeq

LEMMA PiecesMeet ==
  ASSUME NEW s, IsSeq(s), NEW k \in 0 .. Len(s)
  PROVE  SubSeq(s, 1, k) \o SubSeq(s, k + 1, Len(s)) = s
<1>1. PICK S : s \in Seq(S) BY DEF IsSeq
<1>2. Len(s) \in Nat BY <1>1
<1>3. SubSeq(s, 1, k) \o SubSeq(s, k + 1, Len(s)) = SubSeq(s, 1, Len(s))
  <2>1. 1 \in 1 .. Len(s) + 1 /\ k \in 1 - 1 .. Len(s) /\ Len(s) \in k .. Len(s) BY <1>2
  <2> QED BY <1>1, <2>1, ConcatAdjacentSubSeq
<1> QED BY <1>3, WholePiece

LEMMA TellsFlush ==
  ASSUME NEW way, TellsAll(way)
  PROVE  /\ TellsAll(Flush(way))
         /\ Flush(way).call.said = way.call.said /\ Flush(way).call.turn = way.call.turn
         /\ Flush(way).call.decoder = way.call.decoder
         /\ Flush(way).call.pushed = way.call.pushed
         /\ Flush(way).raised \/ Flush(way).call.em.pending = 0
<1> DEFINE em == way.call.em
           n  == Len(way.call.pushed)
           text == SubSeq(way.call.pushed, n - em.pending + 1, n)
           log == Logged(way.events, "assistant_text_delta", text, <<>>)
           next == [way EXCEPT !.call.em = Flushed(@), !.events = log]
<1>1. CASE em.pending = 0 BY <1>1 DEF Flush
<1>2. CASE em.pending # 0 /\ ~CanFlush(em, Len(way.events))
  <2> DEFINE failed == [way EXCEPT !.raised = TRUE]
  <2>1. Flush(way) = failed BY <1>2 DEF Flush
  <2>2. failed.call = way.call /\ failed.events = way.events /\ DOMAIN failed = DOMAIN way /\ failed.raised
    BY DEF TellsAll, WayShape
  <2> HIDE DEF failed
  <2> QED BY <2>1, <2>2 DEF TellsAll, WayShape
<1>3. CASE em.pending # 0 /\ CanFlush(em, Len(way.events))
  <2>1. Flush(way) = next BY <1>3 DEF Flush
  <2> DEFINE e == [sequence |-> Len(way.events) + 1, type |-> "assistant_text_delta",
                   text |-> text, requests |-> <<>>]
  <2>2. e.type = "assistant_text_delta" /\ e.text = text /\ log = Append(way.events, e)
    BY DEF Logged
  <2>3. /\ Begun(way.events) /\ IsSeq(TurnEvents(way.events)) /\ IsSeq(way.call.pushed)
        /\ em.pending \in 0 .. n
        /\ Deltas(TurnEvents(way.events)) = SubSeq(way.call.pushed, 1, n - em.pending)
    BY DEF TellsAll, Told
  <2>4. n \in Nat BY <2>3, LengthType
  <2>5. IsSeq(text)
    <3>1. n - em.pending + 1 \in Nat \ {0} /\ n <= Len(way.call.pushed) BY <2>3, <2>4
    <3> QED BY <2>3, <2>4, <3>1, PieceType
  <2>6. SubSeq(way.call.pushed, 1, n - em.pending) \o text = way.call.pushed
    <3>1. n - em.pending \in 0 .. n BY <2>3, <2>4
    <3> QED BY <2>3, <3>1, PiecesMeet
  <2> HIDE DEF text, e, log
  <2>7. DeltaOf(e) = text BY <2>2 DEF DeltaOf
  <2>8. Begun(log) /\ TurnEvents(log) = Append(TurnEvents(way.events), e)
    <3>1. e.type # "provider_started" BY <2>2
    <3>2. /\ Begun(Append(way.events, e))
          /\ TurnEvents(Append(way.events, e)) = Append(TurnEvents(way.events), e)
      BY <2>3, <3>1, BegunAppend
    <3> QED BY <2>2, <3>2
  <2>9. Deltas(TurnEvents(log)) = way.call.pushed BY <2>3, <2>5, <2>6, <2>7, <2>8, DeltasAppend
  <2>10. IsSeq(TurnEvents(log)) BY <2>3, <2>8, Appended
  <2>11. /\ WayShape(next) /\ next.events = log /\ next.call.em.pending = 0
         /\ next.call.said = way.call.said /\ next.call.turn = way.call.turn
         /\ next.call.decoder = way.call.decoder /\ next.call.pushed = way.call.pushed
    BY DEF TellsAll, WayShape, Flushed
  <2> HIDE DEF next, em
  <2>12. Told(log, way.call.pushed, 0)
    <3>1. 0 \in 0 .. n /\ n - 0 = n BY <2>4
    <3> QED BY <2>3, <2>8, <2>9, <2>10, <3>1, WholePiece DEF Told
  <2> QED BY <2>1, <2>11, <2>12 DEF TellsAll
<1> QED BY <1>1, <1>2, <1>3

LEMMA TellsPush ==
  ASSUME NEW way, TellsAll(way), NEW text, IsSeq(text)
  PROVE  /\ TellsAll(Push(way, text))
         /\ Push(way, text).call.said = way.call.said /\ Push(way, text).call.turn = way.call.turn
         /\ Push(way, text).call.decoder = way.call.decoder
<1> DEFINE pushed == [way EXCEPT !.call.em = Buffer(@, Len(text)), !.call.pushed = @ \o text]
           failed == [way EXCEPT !.raised = TRUE]
           old == way.call.pushed
           pending == way.call.em.pending
<1>1. /\ failed.call = way.call /\ failed.events = way.events /\ DOMAIN failed = DOMAIN way
  BY DEF TellsAll, WayShape
<1>2. /\ WayShape(pushed) /\ pushed.events = way.events
      /\ pushed.call.said = way.call.said /\ pushed.call.turn = way.call.turn
      /\ pushed.call.decoder = way.call.decoder /\ pushed.call.pushed = old \o text
      /\ pushed.call.em.pending = pending + Len(text)
  BY DEF TellsAll, WayShape, Buffer
<1>3. Push(way, text) \in {failed, Flush(pushed), pushed} BY DEF Push
<1>4. /\ IsSeq(old) /\ pending \in 0 .. Len(old) /\ Begun(way.events) /\ IsSeq(TurnEvents(way.events))
      /\ Deltas(TurnEvents(way.events)) = SubSeq(old, 1, Len(old) - pending)
  BY DEF TellsAll, Told
<1> HIDE DEF pushed, failed
<1>5. TellsAll(failed) BY <1>1 DEF TellsAll, WayShape
<1>6. Len(old) \in Nat /\ Len(text) \in Nat BY <1>4, LengthType
<1>7. Len(old \o text) = Len(old) + Len(text)
      /\ SubSeq(old \o text, 1, Len(old) - pending) = SubSeq(old, 1, Len(old) - pending)
  <2>1. PICK S : old \in Seq(S) BY <1>4 DEF IsSeq
  <2>2. PICK T : text \in Seq(T) BY DEF IsSeq
  <2>3. old \in Seq(S \cup T) /\ text \in Seq(S \cup T) BY <2>1, <2>2, SeqMonotonic
  <2>4. Len(old \o text) = Len(old) + Len(text) BY <2>3, ConcatProperties
  <2>5. CASE Len(old) - pending = 0 BY <2>4, <2>5, SubSeqEmpty
  <2>6. CASE Len(old) - pending # 0
    <3>1. 1 \in 1 .. Len(old) /\ Len(old) - pending \in 1 .. Len(old) BY <1>4, <1>6, <2>6
    <3> QED BY <2>3, <2>4, <3>1, SubSeqOfConcat1
  <2> QED BY <2>5, <2>6
<1>8. TellsAll(pushed)
  <2>1. IsSeq(old \o text) BY <1>4, ConcatType
  <2>2. pending + Len(text) \in 0 .. Len(old \o text) BY <1>4, <1>6, <1>7
  <2>3. Len(old \o text) - (pending + Len(text)) = Len(old) - pending BY <1>4, <1>6, <1>7
  <2>4. Told(way.events, old \o text, pending + Len(text))
    BY <1>4, <1>7, <2>1, <2>2, <2>3 DEF Told
  <2> QED BY <1>2, <2>4 DEF TellsAll
<1>9. /\ TellsAll(Flush(pushed)) /\ Flush(pushed).call.said = way.call.said
      /\ Flush(pushed).call.turn = way.call.turn
      /\ Flush(pushed).call.decoder = way.call.decoder
  BY <1>2, <1>8, TellsFlush
<1> QED BY <1>1, <1>2, <1>3, <1>5, <1>8, <1>9

LEMMA TellsFrame ==
  ASSUME NEW way, TellsAll(way), ~way.raised, NEW frame, FrameShape(frame)
  PROVE  LET next == TakeFrame(way, frame)
         IN /\ TellsAll(next)
            /\ next.call.said = way.call.said /\ next.call.turn = way.call.turn
            /\ \/ next.raised
               \/ /\ Acceptable(way.call.decoder, frame)
                  /\ next.call.decoder = Accept(way.call.decoder, frame)
<1> DEFINE accepted == [way EXCEPT !.call.decoder = Accept(@, frame)]
           failed == [way EXCEPT !.raised = TRUE]
<1>1. /\ failed.call = way.call /\ failed.events = way.events /\ DOMAIN failed = DOMAIN way
      /\ failed.raised
  BY DEF TellsAll, WayShape
<1>2. /\ WayShape(accepted) /\ accepted.events = way.events
      /\ accepted.call.said = way.call.said /\ accepted.call.turn = way.call.turn
      /\ accepted.call.decoder = Accept(way.call.decoder, frame)
      /\ accepted.call.pushed = way.call.pushed /\ accepted.call.em = way.call.em
  BY DEF TellsAll, WayShape
<1>3. CASE ~Acceptable(way.call.decoder, frame)
  <2>1. TakeFrame(way, frame) = failed BY <1>3 DEF TakeFrame
  <2> HIDE DEF failed
  <2> QED BY <1>1, <2>1 DEF TellsAll, WayShape
<1>4. CASE Acceptable(way.call.decoder, frame)
  <2>1. TakeFrame(way, frame) \in {Push(accepted, frame.text), accepted} BY <1>4 DEF TakeFrame
  <2> HIDE DEF accepted
  <2>2. TellsAll(accepted) BY <1>2 DEF TellsAll
  <2>3. IsSeq(frame.text) BY ShapeType
  <2> QED BY <1>2, <1>4, <2>1, <2>2, <2>3, TellsPush
<1> QED BY <1>3, <1>4

-----------------------------------------------------------------------------
LogTold(events) == Begun(events) /\ IsSeq(TurnEvents(events)) /\ IsSeq(Deltas(TurnEvents(events)))

(* The inductive invariant: while a call runs its decoder has what was     *)
(* said and the log has the text that was pushed, but for what the emitter *)
(* holds back; afterwards the session has the answer.                      *)
Answering ==
  /\ SessionShape /\ session.route \in Routes
  /\ DOMAIN call = {"turn", "said", "decoder", "pushed", "em"} /\ call.turn \in 1 .. MaxTurns
  /\ DOMAIN call.em = {"budget", "chunk", "text", "pending", "emitted"}
  /\ LogTold(session.events)
  /\ Running => /\ Told(session.events, call.pushed, call.em.pending)
                /\ Heard(call.said, call.decoder)
  /\ ~Running => call.em.pending = 0
  /\ AnswerFaithful

LEMMA ToldLog ==
  ASSUME NEW events, NEW pushed, NEW pending, Told(events, pushed, pending)
  PROVE  LogTold(events)
<1>1. IsSeq(pushed) /\ Len(pushed) \in Nat /\ pending \in 0 .. Len(pushed) BY LengthType DEF Told
<1>2. IsSeq(SubSeq(pushed, 1, Len(pushed) - pending)) BY <1>1, PieceType
<1> QED BY <1>2 DEF Told, LogTold

LEMMA LogToldMore ==
  ASSUME NEW events, LogTold(events), NEW type, NEW text, NEW requests,
         type \notin {"provider_started", "assistant_text_delta"}
  PROVE  LogTold(Logged(events, type, text, requests))
<1> DEFINE e == [sequence |-> Len(events) + 1, type |-> type, text |-> text, requests |-> requests]
<1>1. e.type = type /\ Logged(events, type, text, requests) = Append(events, e) BY DEF Logged
<1> HIDE DEF e
<1>2. TurnEvents(Append(events, e)) = Append(TurnEvents(events), e) BY <1>1, BegunAppend DEF LogTold
<1>3. IsSeq(Append(TurnEvents(events), e)) BY Appended DEF LogTold
<1>4. /\ Begun(Logged(events, type, text, requests))
      /\ Deltas(TurnEvents(Logged(events, type, text, requests))) = Deltas(TurnEvents(events))
  BY LoggedOther DEF LogTold
<1> QED BY <1>1, <1>2, <1>3, <1>4 DEF LogTold

(* A call that ends without an answer. *)
LEMMA EndsAnswering ==
  ASSUME Answering, NEW way, LogTold(way.events), NEW status, NEW type, Ends(way, status, type),
         status \notin {"running", "completed", "waiting_for_tool"},
         type \notin {"provider_started", "assistant_text_delta"}
  PROVE  Answering'
<1> DEFINE log == Logged(way.events, type, <<>>, <<>>)
<1>1. LogTold(log) BY LogToldMore
<1>2. session' = [session EXCEPT !.status = status, !.events = log] /\ call' = CallOver(call.turn, <<>>)
  BY DEF Ends
<1> HIDE DEF log
<1>3. SessionShape' /\ session'.route = session.route /\ session'.events = log /\ session'.status = status
  BY <1>2 DEF Answering, SessionShape
<1>4. /\ DOMAIN call' = {"turn", "said", "decoder", "pushed", "em"} /\ call'.turn = call.turn
      /\ DOMAIN call'.em = {"budget", "chunk", "text", "pending", "emitted"} /\ call'.em.pending = 0
  BY <1>2 DEF CallOver, NoEmitter
<1> QED BY <1>1, <1>3, <1>4 DEF Answering, Running, AnswerFaithful

LEMMA FailsAnswering ==
  ASSUME Answering, NEW way, TellsAll(way), Fails(way)
  PROVE  Answering'
<1>1. TellsAll(Flush(way)) BY TellsFlush
<1>2. LogTold(Flush(way).events) BY <1>1, ToldLog DEF TellsAll
<1> QED BY <1>2, EndsAnswering DEF Fails

LEMMA OutcomeAnswering ==
  ASSUME Answering, NEW way, TellsAll(way), NEW result, Outcome(way, result),
         result.accepted /\ ~way.raised =>
           /\ TakenFor(result, session.route, way.call.said)
           /\ Streams(session.route) => Deltas(TurnEvents(way.events)) = result.text
  PROVE  Answering'
<1>1. CASE Fails(way) BY <1>1, FailsAnswering
<1>2. CASE ~Fails(way)
  <2> DEFINE type == IF result.requests = <<>> THEN "session_completed" ELSE "tool_requests"
             text == IF result.requests = <<>> THEN result.text ELSE <<>>
             log == Logged(way.events, type, text, result.requests)
             chars  == session.chars + OutputSize(result)
             status == IF result.requests = <<>> THEN "completed" ELSE "waiting_for_tool"
  <2>1. ~way.raised /\ result.accepted BY <1>2 DEF Outcome
  <2>2. /\ session' = [session EXCEPT !.chars = chars, !.answer = result, !.status = status,
                                      !.events = log]
        /\ call' = CallOver(call.turn, way.call.said)
    BY <1>2 DEF Outcome
  <2>3. type \notin {"provider_started", "assistant_text_delta"} /\ text \in {result.text, <<>>}
    OBVIOUS
  <2>4. status \in {"completed", "waiting_for_tool"} OBVIOUS
  <2> HIDE DEF type, text, chars, status
  <2>5. LogTold(way.events) BY ToldLog DEF TellsAll
  <2>6. LogTold(log) BY <2>3, <2>5, LogToldMore
  <2>7. /\ Deltas(TurnEvents(log)) = Deltas(TurnEvents(way.events))
        /\ Last(log).text = text /\ Last(log).requests = result.requests
    BY <2>3, <2>5, LoggedOther DEF LogTold
  <2> HIDE DEF log
  <2>8. /\ SessionShape' /\ session'.route = session.route /\ session'.events = log
        /\ session'.status = status /\ session'.answer = result
    BY <2>2 DEF Answering, SessionShape
  <2>9. /\ DOMAIN call' = {"turn", "said", "decoder", "pushed", "em"} /\ call'.turn = call.turn
        /\ DOMAIN call'.em = {"budget", "chunk", "text", "pending", "emitted"}
        /\ call'.em.pending = 0 /\ call'.said = way.call.said
    BY <2>2 DEF CallOver, NoEmitter
  <2>10. AnswerFaithful'
    <3>1. TakenFor(session'.answer, session'.route, call'.said) BY <2>1, <2>8, <2>9
    <3>2. Streams(session'.route) => Deltas(TurnEvents(session'.events)) = result.text
      BY <2>1, <2>7, <2>8
    <3>3. /\ result.text = Meant(session'.route, call'.said).text
          /\ result.requests = Meant(session'.route, call'.said).requests
          /\ session'.answer = result /\ Finished(session'.route, call'.said)
      BY <2>8, <3>1 DEF TakenFor
    <3>4. Last(session'.events).requests = result.requests /\ Last(session'.events).text \in {result.text, <<>>}
      BY <2>3, <2>7, <2>8
    <3> QED BY <3>2, <3>3, <3>4 DEF AnswerFaithful
  <2>11. ~Running' BY <2>4, <2>8 DEF Running
  <2> QED BY <2>6, <2>8, <2>9, <2>10, <2>11 DEF Answering
<1> QED BY <1>1, <1>2

LEMMA ClosesAnswering ==
  ASSUME Answering, Running, Streams(session.route), Closes(Way(call))
  PROVE  Answering'
<1> DEFINE way == Way(call)
           result == Complete(call.decoder)
<1>1. way.call = call /\ way.events = session.events /\ DOMAIN way = {"call", "events", "raised"}
  BY DEF Way
<1>2. Closes(way) OBVIOUS
<1> HIDE DEF way
<1>3. TellsAll(way) BY <1>1 DEF Answering, TellsAll, WayShape
<1>4. CASE Fails(way) BY <1>3, <1>4, FailsAnswering
<1>5. CASE ~Fails(way)
  <2> DEFINE next == Flush(way)
  <2>1. Outcome(next, result) /\ (result.accepted => result.text = call.pushed)
    BY <1>1, <1>2, <1>5 DEF Closes
  <2>2. /\ TellsAll(next) /\ next.call.said = call.said /\ next.call.pushed = call.pushed
        /\ next.raised \/ next.call.em.pending = 0
    BY <1>1, <1>3, TellsFlush
  <2> HIDE DEF next, result
  <2>3. ASSUME result.accepted, ~next.raised
        PROVE  /\ TakenFor(result, session.route, next.call.said)
               /\ Deltas(TurnEvents(next.events)) = result.text
    <3>1. /\ result.text = StreamedAnswer(call.said).text
          /\ result.requests = StreamedAnswer(call.said).requests
          /\ StreamFinished(call.said)
      BY <2>3, CompleteIsHeard DEF Answering, result
    <3>2. Meant(session.route, call.said) = StreamedAnswer(call.said) BY DEF Meant, ChatForm, Streams
    <3>3. Finished(session.route, call.said) BY <3>1 DEF Finished, ChatForm
    <3>4. IsSeq(call.pushed) /\ Len(call.pushed) - 0 = Len(call.pushed)
      BY <2>2, LengthType DEF TellsAll, Told
    <3>5. Deltas(TurnEvents(next.events)) = SubSeq(call.pushed, 1, Len(call.pushed))
      BY <2>2, <2>3, <3>4 DEF TellsAll, Told
    <3> QED BY <2>1, <2>2, <2>3, <3>1, <3>2, <3>3, <3>4, <3>5, WholePiece DEF TakenFor
  <2> QED BY <2>1, <2>2, <2>3, OutcomeAnswering
<1> QED BY <1>4, <1>5

LEMMA WayTells ==
  ASSUME Answering, Running, NEW said
  PROVE  LET way == Way([call EXCEPT !.said = said])
         IN TellsAll(way) /\ ~way.raised /\ way.call.said = said
            /\ way.call.turn = call.turn /\ way.call.decoder = call.decoder
<1> DEFINE c == [call EXCEPT !.said = said]
<1>1. /\ DOMAIN c = DOMAIN call /\ c.said = said /\ c.turn = call.turn /\ c.decoder = call.decoder
      /\ c.pushed = call.pushed /\ c.em = call.em
  BY DEF Answering
<1> HIDE DEF c
<1>2. /\ Way(c).call = c /\ Way(c).events = session.events /\ ~Way(c).raised
      /\ DOMAIN Way(c) = {"call", "events", "raised"}
  BY DEF Way
<1>3. TellsAll(Way(c)) BY <1>1, <1>2 DEF Answering, TellsAll, WayShape
<1> QED BY <1>1, <1>2, <1>3 DEF c

LEMMA ReceiveAnswering ==
  ASSUME Answering, Receive
  PROVE  Answering'
<1>1. Running BY DEF Receive
<1>2. PICK frame \in Wire[call.turn] :
        LET way == TakeFrame(Way([call EXCEPT !.said = Append(@, frame)]), frame)
        IN IF way.raised THEN Fails(way)
           ELSE session' = [session EXCEPT !.events = way.events] /\ call' = way.call
  BY DEF Receive
<1> DEFINE said == Append(call.said, frame)
           first == Way([call EXCEPT !.said = said])
           way == TakeFrame(first, frame)
<1>3. IF way.raised THEN Fails(way)
      ELSE session' = [session EXCEPT !.events = way.events] /\ call' = way.call
  BY <1>2
<1>4. FrameShape(frame) BY DeliveryAssumption DEF Answering
<1>5. /\ TellsAll(first) /\ ~first.raised /\ first.call.said = said
      /\ first.call.turn = call.turn /\ first.call.decoder = call.decoder
  BY <1>1, WayTells
<1> HIDE DEF first
<1>6. /\ TellsAll(way) /\ way.call.said = said /\ way.call.turn = call.turn
      /\ way.raised \/ /\ Acceptable(call.decoder, frame)
                       /\ way.call.decoder = Accept(call.decoder, frame)
  BY <1>4, <1>5, TellsFrame
<1> HIDE DEF way
<1>7. CASE way.raised BY <1>3, <1>6, <1>7, FailsAnswering
<1>8. CASE ~way.raised
  <2>1. Heard(said, way.call.decoder) BY <1>1, <1>4, <1>6, <1>8, HeardMore DEF Answering
  <2>2. /\ SessionShape' /\ session'.route = session.route /\ session'.events = way.events
        /\ session'.status = session.status
    BY <1>3, <1>8 DEF Answering, SessionShape
  <2>3. call' = way.call BY <1>3, <1>8
  <2>4. Told(way.events, way.call.pushed, way.call.em.pending) /\ WayShape(way)
    BY <1>6 DEF TellsAll
  <2>5. LogTold(way.events) BY <2>4, ToldLog
  <2>6. session'.status = "running" BY <1>1, <2>2 DEF Running
  <2> QED BY <1>6, <2>1, <2>2, <2>3, <2>4, <2>5, <2>6
          DEF Answering, WayShape, Running, AnswerFaithful
<1> QED BY <1>7, <1>8

LEMMA RespondAnswering ==
  ASSUME Answering, Respond
  PROVE  Answering'
<1>1. Running /\ ~Streams(session.route) BY DEF Respond
<1>2. PICK payload \in Payloads[session.route.adapter] :
        Outcome(Way([call EXCEPT !.said = <<payload>>]), Decoded(session.route, payload))
  BY DEF Respond
<1> DEFINE way == Way([call EXCEPT !.said = <<payload>>])
           result == Decoded(session.route, payload)
<1>3. Outcome(way, result) BY <1>2
<1>4. TellsAll(way) /\ way.call.said = <<payload>> BY <1>1, WayTells
<1>5. result.accepted => TakenFor(result, session.route, <<payload>>)
  BY <1>1, DecodedIsMeant DEF Answering
<1> HIDE DEF way, result
<1> QED BY <1>1, <1>3, <1>4, <1>5, OutcomeAnswering

LEMMA CallFailsAnswering ==
  ASSUME Answering, CallFails
  PROVE  Answering'
<1>1. Running /\ Fails(Way(call)) BY DEF CallFails
<1>2. Way(call).call = call /\ Way(call).events = session.events
      /\ DOMAIN Way(call) = {"call", "events", "raised"}
  BY DEF Way
<1>3. TellsAll(Way(call)) BY <1>1, <1>2 DEF Answering, TellsAll, WayShape
<1> QED BY <1>1, <1>3, FailsAnswering

LEMMA CancelAnswering ==
  ASSUME Answering, Cancel
  PROVE  Answering'
<1>1. Ends(Flush(Way(call)), "canceled", "session_canceled") BY DEF Cancel
<1>2. Way(call).call = call /\ Way(call).events = session.events
      /\ DOMAIN Way(call) = {"call", "events", "raised"}
  BY DEF Way
<1>3. LogTold(Flush(Way(call)).events)
  <2>1. CASE Running
    <3>1. TellsAll(Way(call)) BY <1>2, <2>1 DEF Answering, TellsAll, WayShape
    <3>2. TellsAll(Flush(Way(call))) BY <3>1, TellsFlush
    <3> QED BY <3>2, ToldLog DEF TellsAll
  <2>2. CASE ~Running
    <3>1. Way(call).call.em.pending = 0 BY <1>2, <2>2 DEF Answering
    <3>2. Flush(Way(call)) = Way(call) BY <3>1 DEF Flush
    <3> QED BY <1>2, <3>2 DEF Answering
  <2> QED BY <2>1, <2>2
<1> QED BY <1>1, <1>3, EndsAnswering

(* A call that begins has said nothing. *)
LEMMA CallBegins ==
  ASSUME NEW events, IsSeq(events)
  PROVE  LET log == Logged(events, "provider_started", <<>>, <<>>)
         IN LogTold(log) /\ Told(log, <<>>, 0)
<1> DEFINE e == [sequence |-> Len(events) + 1, type |-> "provider_started", text |-> <<>>,
                 requests |-> <<>>]
           log == Logged(events, "provider_started", <<>>, <<>>)
<1>1. e.type = "provider_started" /\ log = Append(events, e) BY DEF Logged
<1> HIDE DEF e, log
<1>2. Begun(log) /\ IsSeq(TurnEvents(log)) /\ Deltas(TurnEvents(log)) = <<>>
  BY <1>1, BeginAppend
<1>3. SubSeq(<<>>, 1, 0) = <<>> BY SubSeqEmpty
<1>4. 0 \in 0 .. Len(<<>>) /\ Len(<<>>) - 0 = 0 BY EmptyText
<1>5. Told(log, <<>>, 0) BY <1>2, <1>3, <1>4, EmptyText DEF Told
<1> QED BY <1>2, <1>5, EmptyText DEF LogTold, log

LEMMA NewCallShape ==
  ASSUME NEW turn, NEW len, NEW chars
  PROVE  LET c == NewCall(turn, len, chars)
         IN /\ DOMAIN c = {"turn", "said", "decoder", "pushed", "em"} /\ c.turn = turn
            /\ DOMAIN c.em = {"budget", "chunk", "text", "pending", "emitted"}
            /\ c.em.pending = 0 /\ c.pushed = <<>> /\ c.said = <<>> /\ c.decoder = NewDecoder
BY DEF NewCall, CallOver, NewEmitter

LEMMA ResumeAnswering ==
  ASSUME Answering, Resume
  PROVE  Answering'
<1> DEFINE input == IF session.status = "completed" THEN "user_input_received"
                    ELSE "tool_results_received"
           before == Logged(session.events, input, <<>>, <<>>)
           log == Logged(before, "provider_started", <<>>, <<>>)
           new == NewCall(call.turn + 1, Len(log), session.chars)
<1>1. session' = [session EXCEPT !.status = "running", !.events = log] /\ call' = new
  BY DEF Resume
<1>2. call.turn + 1 \in 1 .. MaxTurns BY DeliveryAssumption DEF Resume, Answering
<1>3. IsSeq(before) BY Appended DEF Logged, Answering, LogTold, Begun
<1> HIDE DEF before
<1>4. LogTold(log) /\ Told(log, <<>>, 0) BY <1>3, CallBegins
<1> HIDE DEF log
<1>5. /\ DOMAIN new = {"turn", "said", "decoder", "pushed", "em"} /\ new.turn = call.turn + 1
      /\ DOMAIN new.em = {"budget", "chunk", "text", "pending", "emitted"}
      /\ new.em.pending = 0 /\ new.pushed = <<>> /\ new.said = <<>> /\ new.decoder = NewDecoder
  BY NewCallShape
<1> HIDE DEF new
<1>6. /\ SessionShape' /\ session'.route = session.route /\ session'.events = log
      /\ session'.status = "running"
  BY <1>1 DEF Answering, SessionShape
<1> QED BY <1>1, <1>2, <1>4, <1>5, <1>6, NothingHeard DEF Answering, Running, AnswerFaithful

LEMMA ExpireAnswering ==
  ASSUME Answering, Expire
  PROVE  Answering'
<1>1. session' = [session EXCEPT !.found = FALSE] /\ call' = call BY DEF Expire
<1>2. /\ SessionShape' /\ session'.route = session.route /\ session'.events = session.events
      /\ session'.status = session.status /\ session'.answer = session.answer
  BY <1>1 DEF Answering, SessionShape
<1> QED BY <1>1, <1>2 DEF Answering, Running, AnswerFaithful

LEMMA StutterAnswering ==
  ASSUME Answering, UNCHANGED <<session, call>>
  PROVE  Answering'
BY DEF Answering, SessionShape, Running, AnswerFaithful

LEMMA NextAnswering ==
  ASSUME Answering, [Next]_vars
  PROVE  Answering'
<1>1. CASE Session
  BY <1>1, ReceiveAnswering, ClosesAnswering, RespondAnswering, CallFailsAnswering,
     CancelAnswering, ResumeAnswering, ExpireAnswering DEF Session, StreamCloses
<1>2. CASE Gateway \/ Client \/ Lose \/ UNCHANGED vars
  <2>1. UNCHANGED <<session, call>>
    BY <1>2 DEF Gateway, Client, Poll, Yield, Check, Connect, Deliver, Over, Lose, vars
  <2> QED BY <2>1, StutterAnswering
<1> QED BY <1>1, <1>2 DEF Next

LEMMA InitAnswering == Init => Answering
<1> SUFFICES ASSUME Init PROVE Answering OBVIOUS
<1> DEFINE before == Logged(<<>>, "session_created", <<>>, <<>>)
           log == Logged(before, "provider_started", <<>>, <<>>)
           new == NewCall(1, 2, 0)
<1>1. PICK route \in Routes :
        session = [route |-> route, found |-> TRUE, status |-> "running", chars |-> 0,
                   answer |-> None, events |-> log]
  BY DEF Init
<1>2. call = new BY DEF Init
<1>3. IsSeq(before) BY Appended, EmptyText DEF Logged
<1> HIDE DEF before
<1>4. LogTold(log) /\ Told(log, <<>>, 0) BY <1>3, CallBegins
<1> HIDE DEF log
<1>5. /\ DOMAIN new = {"turn", "said", "decoder", "pushed", "em"} /\ new.turn = 1
      /\ DOMAIN new.em = {"budget", "chunk", "text", "pending", "emitted"}
      /\ new.em.pending = 0 /\ new.pushed = <<>> /\ new.said = <<>> /\ new.decoder = NewDecoder
  BY NewCallShape
<1> HIDE DEF new
<1>6. SessionShape /\ session.route \in Routes /\ session.events = log /\ session.status = "running"
  BY <1>1 DEF SessionShape
<1>7. 1 \in 1 .. MaxTurns BY DeliveryAssumption
<1> QED BY <1>2, <1>4, <1>5, <1>6, <1>7, NothingHeard DEF Answering, Running, AnswerFaithful

(* Whatever the frames, payloads and turns: a turn that ended well says    *)
(* what the provider meant, whole and in order, from no refused, cut short *)
(* or foreign answer, and the deltas of a streamed turn are its text       *)
(* (ChatStreamDecoder, decode_chat, _decode_text_envelopes, _advance).     *)
THEOREM AnswersFaithfully == Spec => []AnswerFaithful
<1>1. Answering /\ [Next]_vars => Answering' BY NextAnswering
<1>2. Answering => AnswerFaithful BY DEF Answering
<1> QED BY <1>1, <1>2, InitAnswering, PTL DEF Spec
=============================================================================
