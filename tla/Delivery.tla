------------------------------ MODULE Delivery ------------------------------
(***************************************************************************)
(* An answer on its way from the provider to a client: the frames of the   *)
(* provider's stream (adapters/http_transport.py), what they are taken for *)
(* (Answers), the text deltas and the outcome in the session's log         *)
(* (service.py), and the event stream a client reads the log through and   *)
(* resumes (gateway.py, clients/typescript transport.ts).                  *)
(*                                                                         *)
(* The session is one of Sessions', with what its events say.  How many    *)
(* turns and tool rounds a session may have is said there.                 *)
(***************************************************************************)
EXTENDS Answers

CONSTANTS Routes,       \* the adapters, schemas and tool catalogs of the sessions
          Wire,         \* per turn, the frames LM Studio's stream may carry
          Payloads,     \* per adapter, what a call without a stream may answer
          RequestChars, \* characters of a tool request in the output
          MaxFrames,    \* bound on the frames of a call
          MaxLosses     \* bound on the connections that are lost

MaxTurns == Len(Wire)

Text(s) == s \in Seq(Range(s))

(* A chunk without choices carries usage alone; of a call, a chunk has at  *)
(* most one fragment.                                                      *)
FrameShape(chunk) ==
  /\ Text(chunk.text) /\ IsFiniteSet(chunk.fragments)
  /\ \A fragment \in chunk.fragments :
       fragment.index \in Nat /\ Text(fragment.name) /\ Text(fragment.arguments)
  /\ \A f, g \in chunk.fragments : f.index = g.index => f = g
  /\ ~chunk.choices => /\ chunk.text = <<>> /\ chunk.fragments = {}
                       /\ chunk.finish = None /\ ~chunk.refusal

ASSUME DeliveryAssumption ==
  /\ \A route \in Routes : /\ route.adapter \in {"lmstudio", "openrouter", "codex", "claude", "grok"}
                           /\ route.schema \in BOOLEAN
  /\ {RequestChars, MaxFrames, MaxLosses} \subseteq Nat
  /\ MaxTurns \in Nat \ {0} /\ \A turn \in 1 .. MaxTurns : \A chunk \in Wire[turn] : FrameShape(chunk)
  /\ \A adapter \in {"claude", "grok"} : \A payload \in Payloads[adapter] :
       Text(payload.texts) /\ \A envelope \in Range(payload.texts) \ {None} : Text(envelope.calls)

VARIABLES
  session,  \* route, found, status, events, output characters, last answer
  call,     \* the provider call in progress: what it said and what was made of it
  stream,   \* the gateway's event stream and what it has in flight
  received, \* the events the client has
  losses

vars == <<session, call, stream, received, losses>>

Streams(route) == route.adapter = "lmstudio" /\ ~route.schema

(* Between calls; only the properties look at what the last one said.      *)
CallOver(turn, said) ==
  [turn |-> turn, said |-> said, decoder |-> NewDecoder, pushed |-> <<>>, em |-> NoEmitter]

NewCall(turn, len, chars) ==
  [CallOver(turn, <<>>) EXCEPT !.em = NewEmitter(len, MaxOutput - chars)]

-----------------------------------------------------------------------------
(* add_event *)
Logged(events, type, text, requests) ==
  Append(events, [sequence |-> Len(events) + 1, type |-> type, text |-> text,
                  requests |-> requests])

(* A call under way: the call, the log so far, and whether it has raised.  *)
Way(c) == [call |-> c, events |-> session.events, raised |-> FALSE]

Flush(way) ==
  LET em == way.call.em
      n  == Len(way.call.pushed)
  IN IF em.pending = 0 THEN way
     ELSE IF ~CanFlush(em, Len(way.events)) THEN [way EXCEPT !.raised = TRUE]
     ELSE [way EXCEPT
            !.call.em = Flushed(@),
            !.events = Logged(@, "assistant_text_delta",
                         SubSeq(way.call.pushed, n - em.pending + 1, n), <<>>)]

Push(way, text) ==
  LET pushed == [way EXCEPT !.call.em = Buffer(@, Len(text)), !.call.pushed = @ \o text]
  IN IF session.chars + way.call.em.text + Len(text) > MaxOutput
     THEN [way EXCEPT !.raised = TRUE]
     ELSE IF FlushDue(pushed.call.em) THEN Flush(pushed) ELSE pushed

(* complete_streaming takes one frame.                                     *)
TakeFrame(way, frame) ==
  LET accepted == [way EXCEPT !.call.decoder = Accept(@, frame)]
  IN IF ~Acceptable(way.call.decoder, frame) THEN [way EXCEPT !.raised = TRUE]
     ELSE IF frame.choices /\ frame.text # <<>> THEN Push(accepted, frame.text)
     ELSE accepted

-----------------------------------------------------------------------------
(* Ends of a turn. *)
Ends(way, status, type) ==
  /\ session' = [session EXCEPT !.status = status,
                                !.events = Logged(way.events, type, <<>>, <<>>)]
  /\ call' = CallOver(call.turn, <<>>)

(* The finally clause flushes what the call has said.                      *)
Fails(way) == Ends(Flush(way), "failed", "session_failed")

(* The public form of an empty list of requests has 2 characters.          *)
OutputSize(result) == Len(result.text) + 2 + RequestChars * Len(result.requests)

SoundRequests(result) ==
  LET asked(field(_)) == {field(result.requests[i]) : i \in DOMAIN result.requests}
  IN /\ Cardinality(asked(LAMBDA r : r.id)) = Len(result.requests)
     /\ asked(LAMBDA r : r.name) \subseteq session.route.tools

(* The tail of _advance.                                                   *)
Outcome(way, result) ==
  IF \/ way.raised \/ ~result.accepted
     \/ session.chars + OutputSize(result) > MaxOutput
     \/ ~SoundRequests(result)
     \/ result.requests = <<>> /\ session.route.schema /\ result.text \notin Json
  THEN Fails(way)
  ELSE /\ session' = [session EXCEPT
            !.chars = @ + OutputSize(result),
            !.answer = result,
            !.status = IF result.requests = <<>> THEN "completed" ELSE "waiting_for_tool",
            !.events = IF result.requests = <<>>
                       THEN Logged(way.events, "session_completed", result.text, <<>>)
                       ELSE Logged(way.events, "tool_requests", <<>>, result.requests)]
       /\ call' = CallOver(call.turn, way.call.said)

(* The stream is over: what was streamed must be what was completed.       *)
Closes(way) ==
  LET result == Complete(way.call.decoder)
  IN IF result.accepted /\ result.text # way.call.pushed THEN Fails(way)
     ELSE Outcome(Flush(way), result)

Decoded(route, payload) ==
  CASE route.adapter = "lmstudio"   -> DecodeLMStudio(payload, route.schema /\ route.tools = {})
    [] route.adapter = "openrouter" -> DecodeOpenRouter(payload)
    [] route.adapter = "codex"      -> ParseEnvelope(payload)
    [] route.adapter = "claude"     -> DecodeClaude(payload)
    [] route.adapter = "grok"       -> DecodeGrok(payload)

Running == session.status = "running"
Reading == UNCHANGED <<stream, received, losses>>

(* stream_json_sse yields a frame; bytes that hold several are several     *)
(* steps.                                                                  *)
Receive ==
  /\ Running /\ Streams(session.route) /\ Len(call.said) < MaxFrames
  /\ \E frame \in Wire[call.turn] :
       LET way == TakeFrame(Way([call EXCEPT !.said = Append(@, frame)]), frame)
       IN IF way.raised THEN Fails(way)
          ELSE session' = [session EXCEPT !.events = way.events] /\ call' = way.call
  /\ Reading

(* [DONE], or the end of the response with no unfinished frame.            *)
StreamCloses ==
  /\ Running /\ Streams(session.route)
  /\ Closes(Way(call))
  /\ Reading

(* The answer of a call without a stream.                                  *)
Respond ==
  /\ Running /\ ~Streams(session.route)
  /\ \E payload \in Payloads[session.route.adapter] :
       Outcome(Way([call EXCEPT !.said = <<payload>>]), Decoded(session.route, payload))
  /\ Reading

(* A timeout, an HTTP failure, a limit, a response cut off in a frame.     *)
CallFails == Running /\ Fails(Way(call)) /\ Reading

Cancel ==
  /\ session.found /\ session.status \in {"running", "waiting_for_tool"}
  /\ Ends(Flush(Way(call)), "canceled", "session_canceled")
  /\ Reading

(* submit_tool_results, continue_session and _schedule.                    *)
Resume ==
  /\ session.found /\ session.status \in {"waiting_for_tool", "completed"}
  /\ call.turn < MaxTurns /\ CallFits(Len(session.events))
  /\ LET input  == IF session.status = "completed" THEN "user_input_received"
                   ELSE "tool_results_received"
         events == Logged(Logged(session.events, input, <<>>, <<>>), "provider_started", <<>>, <<>>)
     IN /\ session' = [session EXCEPT !.status = "running", !.events = events]
        /\ call' = NewCall(call.turn + 1, Len(events), session.chars)
  /\ Reading

(* Half an hour without a change: the next look at the record deletes it.  *)
Expire ==
  /\ session.found /\ ~Running
  /\ session' = [session EXCEPT !.found = FALSE]
  /\ UNCHANGED call /\ Reading

-----------------------------------------------------------------------------
(* The gateway's stream() and the client's streamEvents.                   *)
NoStream == [pc |-> "closed", cursor |-> 0, batch |-> <<>>, net |-> <<>>]

Connected == stream.pc \notin {"closed", "gone", "confused"}

(* The client asks for what follows the events it has.                     *)
Connect ==
  /\ stream.pc = "closed"
  /\ stream' = IF session.found
               THEN [NoStream EXCEPT !.pc = "poll", !.cursor = Len(received)]
               ELSE [NoStream EXCEPT !.pc = "gone"]
  /\ UNCHANGED <<session, call, received, losses>>

Unsent == SubSeq(session.events, stream.cursor + 1, Len(session.events))

\* Mutant: the status is looked at before the log.
PollStatusFirst ==
  /\ stream.pc = "poll"
  /\ IF ~session.found THEN stream' = [stream EXCEPT !.pc = "aborted"]
     ELSE IF ~Running THEN stream' = [stream EXCEPT !.pc = "ended"]
     ELSE Unsent # <<>> /\ stream' = [stream EXCEPT !.pc = "yield", !.batch = Unsent]
  /\ UNCHANGED <<session, call, received, losses>>

(* Read the log and, when there is nothing new, the status.  A record that *)
(* is gone raises, which cuts the response off.                            *)
Poll ==
  /\ stream.pc = "poll"
  /\ IF ~session.found THEN stream' = [stream EXCEPT !.pc = "aborted"]
     ELSE IF Unsent # <<>> THEN stream' = [stream EXCEPT !.pc = "yield", !.batch = Unsent]
     ELSE ~Running /\ stream' = [stream EXCEPT !.pc = "ended"]
  /\ UNCHANGED <<session, call, received, losses>>

(* One event of the batch; the session goes on between two of them.        *)
Yield ==
  /\ stream.pc = "yield"
  /\ LET event == Head(stream.batch)
     IN stream' = [pc |-> IF Len(stream.batch) = 1 THEN "check" ELSE "yield",
                   cursor |-> event.sequence, batch |-> Tail(stream.batch),
                   net |-> Append(stream.net, event)]
  /\ UNCHANGED <<session, call, received, losses>>

\* Mutant: a stream that has just sent events ends with the turn.
CheckPaused ==
  /\ stream.pc = "check"
  /\ stream' = [stream EXCEPT !.pc = IF ~session.found THEN "aborted"
                                     ELSE IF Running THEN "poll" ELSE "ended"]
  /\ UNCHANGED <<session, call, received, losses>>

(* After a batch the status ends nothing: another look at the log is due.  *)
Check ==
  /\ stream.pc = "check"
  /\ stream' = [stream EXCEPT !.pc = IF session.found THEN "poll" ELSE "aborted"]
  /\ UNCHANGED <<session, call, received, losses>>

(* The client takes a frame, if it is the one it expects.                  *)
Deliver ==
  /\ Connected /\ stream.net # <<>>
  /\ LET event == Head(stream.net)
     IN IF event.sequence = Len(received) + 1
        THEN /\ received' = Append(received, event)
             /\ stream' = [stream EXCEPT !.net = Tail(@)]
        ELSE stream' = [NoStream EXCEPT !.pc = "confused"] /\ UNCHANGED received
  /\ UNCHANGED <<session, call, losses>>

(* The client has seen the end of the response.                            *)
Over ==
  /\ stream.pc \in {"ended", "aborted"} /\ stream.net = <<>>
  /\ stream' = NoStream
  /\ UNCHANGED <<session, call, received, losses>>

(* The connection breaks, with what was in flight.                         *)
Lose ==
  /\ Connected /\ losses < MaxLosses
  /\ stream' = NoStream /\ losses' = losses + 1
  /\ UNCHANGED <<session, call, received>>

Init ==
  /\ \E route \in Routes :
       session = [route |-> route, found |-> TRUE, status |-> "running", chars |-> 0,
                  answer |-> None,
                  events |-> Logged(Logged(<<>>, "session_created", <<>>, <<>>),
                                    "provider_started", <<>>, <<>>)]
  /\ call = NewCall(1, 2, 0)
  /\ stream = NoStream /\ received = <<>> /\ losses = 0

Session == Receive \/ StreamCloses \/ Respond \/ CallFails \/ Cancel \/ Resume \/ Expire
Gateway == Poll \/ Yield \/ Check
Client  == Connect \/ Deliver \/ Over

Next == Session \/ Gateway \/ Client \/ Lose

(* The event loop runs the response's generator; the client reads and asks *)
(* again, as SessionCoordinator.drive does when a stream has ended.        *)
(* Nothing is assumed of the provider or of the session's users.           *)
Spec == Init /\ [][Next]_vars /\ WF_vars(Gateway) /\ WF_vars(Client)

-----------------------------------------------------------------------------
(* What the provider meant, read off all it said in the call.              *)
Joined(said, part(_)) == FlattenSeq([i \in DOMAIN said |-> part(said[i])])

StreamedCall(said, index) ==
  LET fragments == Joined(said, LAMBDA chunk : SetToSeq({f \in chunk.fragments : f.index = index}))
  IN [id |-> CHOOSE id \in {f.id : f \in Range(fragments)} \ {None} : TRUE,
      name |-> Joined(fragments, LAMBDA f : f.name),
      arguments |-> Joined(fragments, LAMBDA f : f.arguments)]

StreamedAnswer(said) ==
  LET indices == InOrder({f.index : f \in UNION {chunk.fragments : chunk \in Range(said)}})
  IN [text |-> Joined(said, LAMBDA chunk : chunk.text),
      requests |-> [i \in DOMAIN indices |-> StreamedCall(said, indices[i])]]

(* One chunk finishes the answer and no choice follows it.                 *)
StreamFinished(said) ==
  /\ Cardinality({i \in DOMAIN said : said[i].choices /\ said[i].finish \in Whole}) = 1
  /\ \A i, j \in DOMAIN said : i < j /\ said[j].choices => said[i].finish = None
  /\ \A chunk \in Range(said) : ~chunk.error /\ ~chunk.refusal /\ chunk.model \in {None, Model}

Envelopes(adapter, payload) ==
  IF adapter = "codex" THEN <<payload>>
  ELSE IF payload.structured # None THEN <<payload.structured>> ELSE payload.texts

(* An answer in one piece, in the chat form.                               *)
ChatForm(route) == ~Streams(route) /\ route.adapter \in {"lmstudio", "openrouter"}

Meant(route, said) ==
  LET payload   == said[1]
      envelopes == Envelopes(route.adapter, payload)
  IN CASE Streams(route)  -> StreamedAnswer(said)
       [] ChatForm(route) ->
            [requests |-> payload.calls,
             text |-> IF Blank(payload.text) /\ payload.calls = <<>> THEN payload.reasoning
                      ELSE payload.text]
       [] OTHER -> [requests |-> Joined(envelopes, LAMBDA envelope : envelope.calls),
                    text |-> Strip(Last(envelopes).text)]

Finished(route, said) ==
  CASE Streams(route)  -> StreamFinished(said)
    [] ChatForm(route) ->
         /\ said[1].finish \in Whole /\ ~said[1].refusal /\ said[1].model \in {None, Model}
         /\ route.adapter = "openrouter" => said[1].upstream \in {None, Upstream}
    [] OTHER ->
         /\ route.adapter # "codex" => ~said[1].error
         /\ route.adapter = "grok" => said[1].stop \in {None, "end_turn", "stop", "tool_use"}

(* The events of the turn in progress or just over.                        *)
TurnEvents(events) ==
  LET starts == {i \in DOMAIN events : events[i].type = "provider_started"}
  IN SubSeq(events, Max(starts), Len(events))

Deltas(events) ==
  Joined(events, LAMBDA event :
    IF event.type = "assistant_text_delta" THEN event.text ELSE <<>>)

(* A turn that ended well says what the provider meant and finished        *)
(* saying: text and requests whole and in order (the text of an envelope   *)
(* without the blanks around it), from no refused, cut short or foreign    *)
(* answer, no request before the last envelope lost; the deltas of a       *)
(* streamed turn are that text, character for character                    *)
(* (ChatStreamDecoder, decode_chat, _decode_text_envelopes, _advance).     *)
AnswerFaithful ==
  session.status \in {"completed", "waiting_for_tool"} =>
    LET meant == Meant(session.route, call.said)
        last  == Last(session.events)
    IN /\ Finished(session.route, call.said)
       /\ session.answer.text = meant.text /\ session.answer.requests = meant.requests
       /\ last.requests = meant.requests /\ last.text \in {meant.text, <<>>}
       /\ Streams(session.route) => Deltas(TurnEvents(session.events)) = meant.text

(* What a client has stays a gapless prefix of the log over lost           *)
(* connections, expiry and turns that start while it reads; it is never    *)
(* sent an event it does not expect; and a stream that ends by itself, not *)
(* cut off, has sent the whole log of a session that is not running        *)
(* (stream() of gateway.py, streamEvents of transport.ts).                 *)
StreamFaithful ==
  [][/\ IsPrefix(received', session'.events)
     /\ stream'.pc # "confused"
     /\ stream.pc # "ended" /\ stream'.pc = "ended" =>
          ~Running /\ stream'.cursor = Len(session.events)]_vars

(* A client that keeps asking catches up with the log again and again, as  *)
(* long as the session is there.                                           *)
CatchesUp == []<>(received = session.events \/ ~session.found)
=============================================================================
