------------------------------ MODULE Answers ------------------------------
(***************************************************************************)
(* What a provider's answer is taken for: the chat codec and its stream    *)
(* decoder (adapters/chat_codec.py), the CLI envelope (cli_codec.py) and   *)
(* the wrappers Claude and Grok put around it.  An answer is taken whole   *)
(* or refused.                                                             *)
(*                                                                         *)
(* A text is a sequence of characters.  The arguments of a call are the    *)
(* pieces of their JSON.                                                   *)
(***************************************************************************)
EXTENDS EventLog, SequencesExt

CONSTANTS MaxOutput, \* limits.max_output_chars
          Model,     \* the profile's model
          Upstream,  \* the connection's upstream provider
          Arguments, \* sequences of pieces that are a JSON object
          Json,      \* texts that are JSON
          Spaces,    \* the characters str.strip removes
          MaxEnvelopes, \* objects in a row that Grok may answer with, 32
          None

(* Why a provider stopped, when the answer is whole.                       *)
Whole == {"stop", "tool_calls"}

(* Nothing but blanks, if anything.                                        *)
Blank(text) == Range(text) \subseteq Spaces

ASSUME AnswersAssumption ==
  /\ {MaxOutput, MaxEnvelopes} \subseteq Nat /\ None \notin Whole
  /\ \A text \in Json : ~Blank(text)

(* str.strip *)
Strip(text) ==
  LET inked == {i \in DOMAIN text : text[i] \notin Spaces}
  IN IF Blank(text) THEN <<>> ELSE SubSeq(text, Min(inked), Max(inked))

Refused == [accepted |-> FALSE]
Result(text, requests) == [accepted |-> TRUE, text |-> text, requests |-> requests]

SoundCall(call) == call.id # None /\ call.arguments \in Arguments

(* _reasoning_channel_answer, where the adapter opts in: a schema-bound    *)
(* answer found in the reasoning channel, when there is no other.          *)
Content(message, opted) ==
  IF opted /\ Blank(message.text) /\ message.calls = <<>> THEN message.reasoning
  ELSE message.text

\* Mutant: an answer that was cut short passes for a whole one.
DecodeChatUnfinished(message, opted) ==
  LET content == Content(message, opted)
  IN IF /\ ~message.refusal
        /\ Len(content) <= MaxOutput
        /\ \A i \in DOMAIN message.calls : SoundCall(message.calls[i])
        /\ ~Blank(content) \/ message.calls # <<>>
     THEN Result(content, message.calls) ELSE Refused

(* decode_chat *)
DecodeChat(message, opted) ==
  LET content == Content(message, opted)
  IN IF /\ message.finish \in Whole
        /\ ~message.refusal
        /\ Len(content) <= MaxOutput
        /\ \A i \in DOMAIN message.calls : SoundCall(message.calls[i])
        /\ content # message.text => content \in Json
        /\ ~Blank(content) \/ message.calls # <<>>
     THEN Result(content, message.calls) ELSE Refused

-----------------------------------------------------------------------------
(* ChatStreamDecoder *)
NewDecoder == [text |-> <<>>, calls |-> <<>>, finish |-> None, model |-> None, refusal |-> FALSE]

NewCallEntry == [id |-> None, name |-> <<>>, arguments |-> <<>>]

Entry(decoder, index) ==
  IF index \in DOMAIN decoder.calls THEN decoder.calls[index] ELSE NewCallEntry

(* The chunk is one accept does not raise on.  A chunk without choices     *)
(* carries usage alone.                                                    *)
Acceptable(decoder, chunk) ==
  /\ ~chunk.error
  /\ chunk.model = None \/ decoder.model \in {None, chunk.model}
  /\ chunk.choices =>
       /\ decoder.finish = None
       /\ Len(decoder.text) + Len(chunk.text) <= MaxOutput
       /\ \A fragment \in chunk.fragments :
            None \in {fragment.id, Entry(decoder, fragment.index).id}
              \/ fragment.id = Entry(decoder, fragment.index).id

(* accept; the fragments of a chunk are of calls of different indices.     *)
Accept(decoder, chunk) ==
  LET Merged(fragment) ==
        LET entry == Entry(decoder, fragment.index)
        IN [id |-> IF fragment.id = None THEN entry.id ELSE fragment.id,
            name |-> entry.name \o fragment.name,
            arguments |-> entry.arguments \o fragment.arguments]
      named   == {fragment.index : fragment \in chunk.fragments}
      by      == IF chunk.model = None THEN decoder.model ELSE chunk.model
  IN IF ~chunk.choices THEN [decoder EXCEPT !.model = by]
     ELSE [text    |-> decoder.text \o chunk.text,
           calls   |-> [index \in named \cup DOMAIN decoder.calls |->
                          IF index \in named
                          THEN Merged(CHOOSE f \in chunk.fragments : f.index = index)
                          ELSE decoder.calls[index]],
           finish  |-> chunk.finish,
           model   |-> by,
           refusal |-> decoder.refusal \/ chunk.refusal]

(* _checked_result: another model's answer is not taken.                   *)
CheckedModel(model, result) == IF model \in {None, Model} THEN result ELSE Refused

InOrder(S) ==
  CHOOSE s \in [1 .. Cardinality(S) -> S] : \A i, j \in DOMAIN s : i < j => s[i] < s[j]

(* complete: the calls in the order of their indices.                      *)
Complete(decoder) ==
  LET order == InOrder(DOMAIN decoder.calls)
  IN CheckedModel(decoder.model,
       DecodeChat([text |-> decoder.text, finish |-> decoder.finish,
                   refusal |-> decoder.refusal, reasoning |-> <<>>,
                   calls |-> [i \in DOMAIN order |-> decoder.calls[order[i]]]], FALSE))

-----------------------------------------------------------------------------
(* _parse_envelope *)
ParseEnvelope(envelope) ==
  IF /\ envelope # None
     /\ Len(envelope.text) <= MaxOutput
     /\ \A i \in DOMAIN envelope.calls : SoundCall(envelope.calls[i])
     /\ ~Blank(envelope.text) \/ envelope.calls # <<>>
  THEN Result(Strip(envelope.text), envelope.calls) ELSE Refused

(* ClaudeAdapter.decode: one envelope, in either of two places.            *)
DecodeClaude(output) ==
  IF output.error THEN Refused
  ELSE IF output.structured # None THEN ParseEnvelope(output.structured)
  ELSE IF Len(output.texts) = 1 THEN ParseEnvelope(Head(output.texts)) ELSE Refused

(* _decode_text_envelopes: the last of several, if none before it asks for *)
(* a tool.                                                                 *)
TextEnvelopes(texts) ==
  IF /\ Len(texts) \in 1 .. MaxEnvelopes
     /\ \A i \in DOMAIN texts :
          /\ ParseEnvelope(texts[i]).accepted
          /\ i < Len(texts) => texts[i].calls = <<>>
  THEN ParseEnvelope(texts[Len(texts)]) ELSE Refused

(* GrokAdapter.decode *)
DecodeGrok(output) ==
  IF output.error \/ output.stop \notin {None, "end_turn", "stop", "tool_use"} THEN Refused
  ELSE IF output.structured # None THEN ParseEnvelope(output.structured)
  ELSE TextEnvelopes(output.texts)

(* OpenRouterAdapter.complete *)
DecodeOpenRouter(message) ==
  IF message.upstream \in {None, Upstream}
  THEN CheckedModel(message.model, DecodeChat(message, FALSE)) ELSE Refused

(* LMStudioAdapter.complete *)
DecodeLMStudio(message, opted) == CheckedModel(message.model, DecodeChat(message, opted))
=============================================================================
