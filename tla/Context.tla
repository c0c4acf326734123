------------------------------ MODULE Context ------------------------------
(***************************************************************************)
(* A session's provider calls as its context planner sees them: the        *)
(* transcript grows by prompts, answers and tool results, each call is     *)
(* planned against what the provider says is loaded now, and the prompt    *)
(* size it reports calibrates the next plan (service.py, lmstudio.py).     *)
(*                                                                         *)
(* A message carries, beside what the planner measures, the tokens the     *)
(* provider's tokenizer makes of it.  The planner's estimates are meant to *)
(* be pessimistic, from averages of one tokenizer; here a message, and the *)
(* provider's own framing, may be any number of tokens.                    *)
(***************************************************************************)
EXTENDS ContextPlan

CONSTANTS Prompts, Answers, ToolCalls, Results, \* messages that may be appended
          Instructions,  \* system messages a session may be created with
          Catalogs,      \* what the provider's native catalog may say
          Model,         \* the configured model
          TemplateTokens,\* what the provider makes of the fixed part
          MaxMessages    \* bound on the transcript

ASSUME ContextAssumption ==
  /\ TemplateTokens \in Nat
  /\ Prompts \cup Answers \cup ToolCalls \cup Results \cup Instructions \subseteq MessageRecords
  /\ \A m \in Prompts \cup Answers \cup ToolCalls \cup Results \cup Instructions :
       m.tokens \in Nat \ {0}
  /\ \A m \in Instructions : m.role = "system"
  /\ \A m \in Prompts : m.role = "user"
  /\ \A m \in Answers \cup ToolCalls : m.role = "assistant"
  /\ \A m \in Results : m.role = "tool"
  /\ \A m \in ToolCalls : m.calls # <<>>

VARIABLES
  adapter,   \* the request shape, and whether the adapter measures prompts
  messages,  \* record.messages
  observed,  \* record.observed_prompt
  status,    \* planning, calling, waiting, completed or failed
  loaded,    \* the catalog the last plan was made with
  plan       \* record.context

vars == <<adapter, messages, observed, status, loaded, plan>>

Serialized(window) ==
  IF adapter.shape = "compact" THEN Compact(messages, window) ELSE Spaced(messages, window)

(* _prompt_measure: the adapter's exact size, or the generic estimate.     *)
Measured ==
  [window \in SUBSET DOMAIN messages |->
     IF adapter.measured THEN Serialized(window) ELSE PromptChars(messages, window)]

(* The loaded instances that may serve a request for the model.            *)
Serving(catalog) ==
  UNION {item.instances : item \in {i \in catalog :
           i.key = Model \/ \E instance \in i.instances : instance.id = Model}}

(* _loaded_context_length: one owner, every instance with a length.        *)
LoadedContext(catalog) ==
  LET owners  == {i \in catalog : /\ i.instances # {}
                                  /\ \/ i.key = Model
                                     \/ \E instance \in i.instances : instance.id = Model}
      lengths == {instance.length : instance \in Serving(catalog)}
  IN IF Cardinality(owners) # 1 \/ ~(lengths \subseteq Nat \ {0}) THEN Unknown ELSE Min(lengths)

(* LMStudioAdapter.context_window: a catalog that cannot be fetched says   *)
(* nothing.                                                                *)
ContextWindow(catalog) == IF catalog = Unknown THEN Unknown ELSE LoadedContext(catalog)

(* The service's _context_window: only a positive report is capacity.      *)
Capacity(catalog) ==
  IF ContextWindow(catalog) \in Nat \ {0} THEN ContextWindow(catalog) ELSE Unknown

-----------------------------------------------------------------------------
(* create_session: the opening turn must fit the input limit as a whole.   *)
Init ==
  /\ adapter \in [shape : {"compact", "spaced"}, measured : BOOLEAN]
  /\ messages \in {<<p>> : p \in Prompts} \cup {<<s, p>> : s \in Instructions, p \in Prompts}
  /\ PromptChars(messages, DOMAIN messages) <= InputLimit
  /\ observed = Unknown /\ status = "planning" /\ loaded = Unknown /\ plan = Unknown

(* _advance up to the call: the window is probed and the prompt planned.   *)
Plan(catalog) ==
  /\ status = "planning"
  /\ loaded' = catalog
  /\ plan' = PlanContext(messages, observed, Capacity(catalog), Measured)
  /\ status' = IF plan'.failure = Unknown THEN "calling" ELSE "failed"
  /\ UNCHANGED <<adapter, messages, observed>>

PromptTokens ==
  TemplateTokens + SumOver([i \in DOMAIN messages |-> messages[i].tokens], plan.window)

(* What the provider may report: the count of its prompt, or nothing that  *)
(* passes for one.                                                         *)
Reports == {Unknown, 0, PromptTokens}

Calibrated(report) ==
  IF report # Unknown /\ report >= Cardinality(plan.window)
  THEN [indices |-> plan.window, tokens |-> report] ELSE observed

\* Mutant: only the newest message is taken for what the count covers.
AnswerMiscounted(reply) ==
  /\ status = "calling"
  /\ \E report \in Reports :
       observed' = IF Calibrated(report) = observed THEN observed
                   ELSE [indices |-> {Len(messages)}, tokens |-> report]
  /\ messages' = Append(messages, reply)
  /\ status' = IF reply \in ToolCalls THEN "waiting" ELSE "completed"
  /\ UNCHANGED <<adapter, loaded, plan>>

(* The rest of _advance: a final answer or tool requests.                  *)
Answer(reply) ==
  /\ status = "calling"
  /\ \E report \in Reports : observed' = Calibrated(report)
  /\ messages' = Append(messages, reply)
  /\ status' = IF reply \in ToolCalls THEN "waiting" ELSE "completed"
  /\ UNCHANGED <<adapter, loaded, plan>>

(* record.pending_tools: the requests of the last message.                 *)
Pending == messages[Len(messages)].calls

(* submit_tool_results: one result for each pending request, in the order  *)
(* of the requests.                                                        *)
SubmitToolResults(results) ==
  /\ status = "waiting"
  /\ messages' = messages \o results
  /\ status' = "planning"
  /\ UNCHANGED <<adapter, observed, loaded, plan>>

(* continue_session *)
ContinueSession(prompt) ==
  /\ status = "completed"
  /\ messages' = Append(messages, prompt)
  /\ status' = "planning"
  /\ UNCHANGED <<adapter, observed, loaded, plan>>

Next ==
  \/ \E c \in Catalogs : Plan(c)
  \/ /\ Len(messages) < MaxMessages
     /\ \/ \E m \in Answers \cup ToolCalls : Answer(m)
        \/ \E results \in [DOMAIN Pending -> Results] : SubmitToolResults(results)
        \/ \E m \in Prompts : ContinueSession(m)

Spec == Init /\ [][Next]_vars

-----------------------------------------------------------------------------
(* How far the planner's estimates fall short of what the provider makes   *)
(* of the part of a prompt that it has not counted before.                 *)
Beyond(tokens, estimate) == IF tokens > estimate THEN tokens - estimate ELSE 0

Beyonds == [i \in DOMAIN messages |-> Beyond(messages[i].tokens, MessageTokens(messages[i]))]

Shortfall ==
  IF observed # Unknown /\ observed.indices \subseteq plan.window
  THEN SumOver(Beyonds, plan.window \ observed.indices)
  ELSE Beyond(TemplateTokens, Fixed) + SumOver(Beyonds, plan.window)

(* The call that is made leaves the margin free in whichever loaded        *)
(* instance serves it, its output included, but for what the estimates of  *)
(* messages never counted fall short: a message once counted overflows     *)
(* nothing again, and no calibration adds an error of its own.  It passes  *)
(* the adapter's own final check (plan_context, the calibration in         *)
(* _advance, _loaded_context_length).                                      *)
FitsUpToShortfall ==
  status = "calling" =>
    /\ Capacity(loaded) # Unknown =>
         \A instance \in Serving(loaded) :
           PromptTokens + plan.allocated + OutputMargin(Capacity(loaded))
             <= instance.length + Shortfall
    /\ Serialized(plan.window) <= InputLimit

(* The instructions, the current turn and a run of turns before it, each   *)
(* whole: no tool result without the request it answers, no answer without *)
(* its question, no gap (_turns, suffix).                                  *)
PromptCoherent ==
  status = "calling" =>
    /\ System(messages) \cup {Len(messages)} \subseteq plan.window
    /\ \A i, j \in DOMAIN messages \ System(messages) :
         i < j => /\ i \in plan.window => j \in plan.window
                  /\ (\A k \in i + 1 .. j : messages[k].role # "user")
                       => (j \in plan.window => i \in plan.window)

(* The best admissible choice of window and output is made, and a call is  *)
(* refused only when none is admissible: the full allowance if any window  *)
(* leaves it, else in a small context the most output, then the most       *)
(* history (plan_context).                                                 *)
BestChoice(capacity) ==
  LET Fits(k) == Measured[Suffix(messages, k)] <= InputLimit
      Room(k) == IF capacity = Unknown THEN Configured
                 ELSE capacity - OutputMargin(capacity)
                        - Estimate(messages, observed, Suffix(messages, k))
      Output(k) == Min({Room(k), Configured})
      least == IF capacity # Unknown /\ capacity < SmallContext
               THEN OutputFloorTokens ELSE Configured
      admissible == {k \in 1 .. Turns(messages) : Fits(k) /\ Output(k) >= least}
  IN /\ plan'.failure = Unknown <=> admissible # {}
     /\ plan'.failure = Unknown =>
          \E k \in admissible :
            /\ plan'.window = Suffix(messages, k) /\ plan'.allocated = Output(k)
            /\ \A other \in admissible \ {k} :
                 \/ Output(other) < Output(k)
                 \/ Output(other) = Output(k) /\ other < k

BestPlan == [][\A c \in Catalogs : Plan(c) => BestChoice(Capacity(c))]_vars

(* The provider's own count, plus the estimate of what came since, leaves  *)
(* the full allowance.                                                     *)
ConfirmedFits(capacity) ==
  LET newer == {i \in DOMAIN messages : i > Max(observed.indices)}
      total == observed.tokens + SumOver(Estimates(messages), newer)
  IN total <= Budget(capacity, Configured) /\ Measured[observed.indices \cup newer] <= InputLimit

(* History the provider has seen is not dropped while its own count fits:  *)
(* an estimate never displaces a measurement (estimate, the ordering of    *)
(* the first pass).                                                        *)
ConfirmedPromptKept ==
  [][\A c \in Catalogs :
       Plan(c) /\ observed # Unknown /\ Capacity(c) # Unknown /\ ConfirmedFits(Capacity(c))
         => observed.indices \subseteq plan'.window]_vars
=============================================================================
