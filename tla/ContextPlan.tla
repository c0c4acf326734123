---------------------------- MODULE ContextPlan ----------------------------
(***************************************************************************)
(* The prompt window of one provider call (context.py), as operators over  *)
(* a transcript.                                                           *)
(*                                                                         *)
(* A text is its characters by class, a message its texts; compact and     *)
(* spaced are the lengths of its two JSON forms.  Sizes are scaled down:   *)
(* every overhead of the file is a constant here.                          *)
(***************************************************************************)
EXTENDS Integers, Sequences, FiniteSetsExt

CONSTANTS AsciiPerToken, MessageOverhead, ToolOverhead, CallOverhead, TemplateOverhead,
          MarginMin, SmallContext, UsefulOutput, Framing,
          Configured, \* limits.max_output_tokens
          InputLimit, \* limits.max_input_chars
          Request,    \* what no window changes: tools, output schema and their JSON
          Unknown     \* no capacity, no observation, no failure

Texts == [ascii : Nat, alphabetic : Nat, other : Nat]

(* Message, as far as the planner and the provider measure it.             *)
MessageRecords ==
  [role : {"system", "user", "assistant", "tool"}, text : Texts, calls : Seq(Texts),
   answers : Seq(Texts), compact : Nat, spaced : Nat, tokens : Nat]

ASSUME PlanAssumption ==
  /\ {AsciiPerToken, MessageOverhead, Configured, UsefulOutput} \subseteq Nat \ {0}
  /\ {ToolOverhead, CallOverhead, TemplateOverhead, MarginMin, SmallContext,
      Framing, InputLimit} \subseteq Nat
  /\ Request.fields \in 0 .. Framing
  /\ Request.tools \in Seq(Texts) /\ {Request.compact, Request.spaced} \subseteq Nat
  /\ Unknown \notin {"input_limit_exceeded", "context_window_exceeded"}

SumOver(f, S) == MapThenSumSet(LAMBDA i : f[i], S)

CeilDiv(a, b) == (a + b - 1) \div b

(* estimate_text_tokens *)
TextTokens(t) == CeilDiv(t.ascii, AsciiPerToken) + t.alphabetic + 3 * t.other

(* estimate_message_tokens *)
MessageTokens(m) ==
  MessageOverhead + TextTokens(m.text)
    + SumOver([i \in DOMAIN m.calls |-> CallOverhead + TextTokens(m.calls[i])], DOMAIN m.calls)
    + SumOver([i \in DOMAIN m.answers |-> TextTokens(m.answers[i])], DOMAIN m.answers)

Estimates(messages) == [i \in DOMAIN messages |-> MessageTokens(messages[i])]

(* What is paid whatever the window: the template, tools, output schema.   *)
Fixed ==
  TemplateOverhead
    + SumOver([i \in DOMAIN Request.tools |-> ToolOverhead + TextTokens(Request.tools[i])],
              DOMAIN Request.tools)

(* cli_payload and chat_body: what an adapter of either shape serializes.  *)
Compact(messages, window) ==
  Request.compact + SumOver([i \in DOMAIN messages |-> messages[i].compact], window)

Spaced(messages, window) ==
  Request.spaced + Request.fields
    + SumOver([i \in DOMAIN messages |-> messages[i].spaced], window)

(* estimate_prompt_chars: neither shape is assumed the smaller.            *)
PromptChars(messages, window) ==
  Framing + Max({Compact(messages, window), Spaced(messages, window) - Request.fields})

(* output_margin; the float product may round one token up.                *)
OutputMargin(capacity) == Max({MarginMin, CeilDiv(capacity, 20)})

Budget(capacity, output) == capacity - output - OutputMargin(capacity)
OutputFloorTokens == Min({Configured, UsefulOutput})

-----------------------------------------------------------------------------
(* _turns: the leading system messages, then a turn from each user message *)
(* up to the next.                                                         *)
System(messages) ==
  {i \in DOMAIN messages : \A j \in 1 .. i : messages[j].role = "system"}

TurnStarts(messages) ==
  LET rest == DOMAIN messages \ System(messages)
  IN {i \in rest : messages[i].role = "user" \/ i = Min(rest)}

Turns(messages) == Cardinality(TurnStarts(messages))

\* Mutant: one message more than whole turns is kept.
SuffixUneven(messages, kept) ==
  System(messages)
    \cup {i \in DOMAIN messages :
            Cardinality({t \in TurnStarts(messages) : t > i + 1}) < kept}

(* The instructions and the last kept turns.                               *)
Suffix(messages, kept) ==
  System(messages)
    \cup {i \in DOMAIN messages : Cardinality({t \in TurnStarts(messages) : t > i}) < kept}

\* Mutant: only what came after the observed prompt is added to its count.
EstimateNewerOnly(messages, observed, window) ==
  LET Heuristic(W) == SumOver(Estimates(messages), W)
  IN IF observed # Unknown /\ observed.indices \subseteq window
     THEN observed.tokens + Heuristic({i \in window : i > Max(observed.indices)})
     ELSE Fixed + Heuristic(window)

(* The prompt's tokens: from the provider's own count of an earlier prompt *)
(* when the window contains it.                                            *)
Estimate(messages, observed, window) ==
  LET Heuristic(W) == SumOver(Estimates(messages), W)
  IN IF observed # Unknown /\ observed.indices \subseteq window
     THEN observed.tokens + Heuristic(window \ observed.indices)
     ELSE Fixed + Heuristic(window)

PlanOf(messages, kept, allocated, failure) ==
  [window |-> Suffix(messages, kept), allocated |-> allocated, failure |-> failure]

\* Mutant: under pressure the longest window is kept, not the smallest-sized.
ReducedOutputLongest(messages, observed, capacity, fitting) ==
  LET Total(k)  == Estimate(messages, observed, Suffix(messages, k))
      best      == Max(fitting)
      available == capacity - OutputMargin(capacity) - Total(best)
  IN IF available >= OutputFloorTokens
     THEN PlanOf(messages, best, Min({Configured, available}), Unknown)
     ELSE PlanOf(messages, Min({1, Turns(messages)}), Configured, "context_window_exceeded")

(* A small context under pressure: the smallest-sized window, the longest  *)
(* of those, and what is left of the context for output.                   *)
ReducedOutput(messages, observed, capacity, fitting) ==
  LET Total(k)  == Estimate(messages, observed, Suffix(messages, k))
      least     == Min({Total(k) : k \in fitting})
      best      == Max({k \in fitting : Total(k) = least})
      available == capacity - OutputMargin(capacity) - least
  IN IF available >= OutputFloorTokens
     THEN PlanOf(messages, best, Min({Configured, available}), Unknown)
     ELSE PlanOf(messages, Min({1, Turns(messages)}), Configured, "context_window_exceeded")

(* plan_context; chars is the adapter's measure, or the estimate.          *)
PlanContext(messages, observed, capacity, chars) ==
  LET mandatory == Min({1, Turns(messages)})
      Total(k)  == Estimate(messages, observed, Suffix(messages, k))
      fitting   == {k \in mandatory .. Turns(messages) :
                      chars[Suffix(messages, k)] <= InputLimit}
      roomy     == IF capacity = Unknown THEN fitting
                   ELSE {k \in fitting : /\ Budget(capacity, Configured) > 0
                                         /\ Total(k) <= Budget(capacity, Configured)}
  IN IF roomy # {} THEN PlanOf(messages, Max(roomy), Configured, Unknown)
     ELSE IF mandatory \notin fitting
     THEN PlanOf(messages, mandatory, Configured, "input_limit_exceeded")
     ELSE IF capacity < SmallContext
     THEN ReducedOutput(messages, observed, capacity, fitting)
     ELSE PlanOf(messages, mandatory, Configured, "context_window_exceeded")
=============================================================================
