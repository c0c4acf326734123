----------------------------- MODULE MCDelivery -----------------------------
(* An instance of Delivery: a tool called find, whose name and arguments   *)
(* come in two pieces; answers of a few characters; and, of every way an   *)
(* answer can be wrong, one.                                               *)
EXTENDS Delivery

CONSTANTS model, other, upstream, id1, id2, a, b, blank

Find == <<"fi", "nd">>
Route(adapter, schema, tools) == [adapter |-> adapter, schema |-> schema, tools |-> tools]
SmallRoutes ==
  {Route("lmstudio", FALSE, {Find}), Route("lmstudio", TRUE, {}), Route("openrouter", TRUE, {Find}),
   Route("codex", FALSE, {Find}), Route("claude", TRUE, {}), Route("grok", FALSE, {Find})}

ObjectArguments == {<<"{", "}">>}
JsonTexts == {<<a>>, <<a, b>>}
Blanks == {blank}

Chunk == [error |-> FALSE, model |-> model, choices |-> TRUE, text |-> <<>>, fragments |-> {},
          finish |-> None, refusal |-> FALSE]
Fragment(index, id, name, arguments) ==
  [index |-> index, id |-> id, name |-> name, arguments |-> arguments]
Calls(fragments) == [Chunk EXCEPT !.fragments = fragments]

FirstTurn ==
  {[Chunk EXCEPT !.text = <<blank>>], [Chunk EXCEPT !.text = <<b, a>>],
   [Chunk EXCEPT !.text = <<b>>, !.finish = "stop"],
   [Chunk EXCEPT !.finish = "tool_calls"], [Chunk EXCEPT !.finish = "length"],
   [Chunk EXCEPT !.refusal = TRUE], [Chunk EXCEPT !.error = TRUE],
   [Chunk EXCEPT !.model = other], [Chunk EXCEPT !.model = None, !.choices = FALSE],
   Calls({Fragment(1, id1, Find, <<"{", "}">>)}),
   Calls({Fragment(0, id2, <<"fi">>, <<"{">>)}),
   Calls({Fragment(0, None, <<"nd">>, <<"}">>)}),
   Calls({Fragment(0, id1, Find, <<"{", "}">>), Fragment(1, id2, <<"fi">>, <<>>)})}

SecondTurn ==
  {[Chunk EXCEPT !.text = <<b>>], [Chunk EXCEPT !.text = <<a>>, !.finish = "stop"],
   Calls({Fragment(0, id1, Find, <<"{", "}">>)})}

TwoTurns == <<FirstTurn, SecondTurn>>

Call(id) == [id |-> id, name |-> Find, arguments |-> <<"{", "}">>]
Message(text, calls, finish) ==
  [text |-> text, calls |-> calls, finish |-> finish, refusal |-> FALSE, reasoning |-> <<>>,
   model |-> model, upstream |-> None]

Messages ==
  {Message(<<a>>, <<>>, "stop"), Message(<<b>>, <<>>, "stop"), Message(<<a, b>>, <<>>, "length"),
   Message(<<>>, <<Call(id1), Call(id2)>>, "tool_calls"),
   Message(<<>>, <<Call(id1), Call(id1)>>, "tool_calls"),
   [Message(<<blank>>, <<>>, "stop") EXCEPT !.reasoning = <<a, b>>],
   [Message(<<a>>, <<>>, "stop") EXCEPT !.model = other],
   [Message(<<a>>, <<>>, "stop") EXCEPT !.refusal = TRUE]}

Envelope(text, calls) == [text |-> text, calls |-> calls]
Output(structured, texts) ==
  [error |-> FALSE, stop |-> None, structured |-> structured, texts |-> texts]
Outputs ==
  {Output(Envelope(<<a>>, <<>>), <<Envelope(<<b>>, <<>>)>>),
   Output(None, <<Envelope(<<a>>, <<>>), Envelope(<<>>, <<Call(id1)>>)>>),
   Output(None, <<Envelope(<<>>, <<Call(id1)>>), Envelope(<<a>>, <<>>)>>),
   Output(None, <<Envelope(<<blank, a, blank, b, blank>>, <<>>)>>), Output(None, <<>>),
   Output(None, <<Envelope(<<a>>, <<>>), Envelope(<<b>>, <<>>), Envelope(<<a>>, <<>>)>>),
   [Output(None, <<Envelope(<<a>>, <<>>)>>) EXCEPT !.error = TRUE]}

SmallPayloads ==
  [lmstudio |-> Messages,
   openrouter |-> Messages \cup {[Message(<<a>>, <<>>, "stop") EXCEPT !.upstream = other],
                                 [Message(<<a>>, <<>>, "stop") EXCEPT !.upstream = upstream]},
   codex |-> {None, Envelope(<<a>>, <<>>), Envelope(<<blank>>, <<>>), Envelope(<<b>>, <<Call(id1)>>),
              Envelope(<<>>, <<[Call(id1) EXCEPT !.arguments = <<"{">>]>>)},
   claude |-> Outputs,
   grok |-> Outputs \cup {[Output(None, <<Envelope(<<a>>, <<>>)>>) EXCEPT !.stop = "max_turns"]}]
=============================================================================
