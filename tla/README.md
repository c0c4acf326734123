# A TLA+ model of local-agent-runtime

The runtime is a local service that runs language-model sessions with tools
over interchangeable providers. A Python service (`src/local_agent_runtime`)
owns the sessions and exposes them over HTTP on the loopback interface; a
TypeScript host (`clients/typescript`) starts the service, drives sessions and
executes their tools. This directory models the service from its configuration
to the event stream a client reads, and the host's process supervisor; it checks
them with TLC and proves their central invariants with TLAPS. Paths are relative
to the repository; `service.py` is `src/local_agent_runtime/service.py`.

## 1. Inventory

| Component | State it keeps | Operations | What makes it correct | Module |
|---|---|---|---|---|
| Session service (`service.py`) | registry of at most 128 records; per record a status, transcript, event log, pending tools, counters and one asyncio task | create, submit tool results, continue, cancel, session, events, wait, shutdown; `_advance` in the task | record, log and transcript agree; every turn ends with one outcome; limits hold; cancel and shutdown leave nothing running | `Sessions` |
| Text emitter (`service.py`, `_TextDeltaEmitter`) | buffer and event budget of one call | push, flush | text within the output limit is never lost or refused; the outcome event always has room | `EventLog`, `Emitter` |
| Context planner (`context.py`) | none; the record keeps the plan and the observed prompt | `plan_context`, the calibration in `_advance`, the capacity report | a call fits the instance that serves it as far as the estimates are right; whole turns; the best admissible window | `ContextPlan`, `Context` |
| Activation and selection (`service.py`, `adapters/activation.py`, `adapters/selection.py`) | the enabled profiles and the selected one, in memory and in two files | set activation, select, read at start | selection, default and task routes stay enabled; a crash at any step leaves files the next start accepts | `Activation` |
| Profile probes and model options (`service.py`, `reasoning.py`, `adapters/catalog.py`) | none of their own, they read the above across awaits | profile state, resolution of an option | no effort is sent that its route cannot encode or its model refuses | `ModelOptions`, `Activation` |
| Gateway (`gateway.py`), transport client (`transport.ts`) | one cursor per event stream | HTTP handlers, event stream, lifespan | each event once, in order, across lost connections; a stream ends after the outcome | `Delivery` |
| Embeddings (`embeddings.py`, `embedding_codec.py`) | a concurrency counter | embed | the counter is bounded and given back; each text gets its vector | `Calls` |
| Process runner, CLI base (`adapters/process.py`, `cli_base.py`) | one child process and one directory per call | run, JSON-RPC exchange, health, complete | nothing outlives a call; a cancellation is never swallowed | `Calls` |
| HTTP transport, codecs, providers (`adapters/*`) | the decoder of one answer | complete, stream, decode | an answer is taken whole and as meant, or refused | `Answers`, `Delivery` |
| Configuration, contracts (`configuration.py`, `api_contract.py`) | constants after start | load, validate | only a configuration the other parts can rely on is accepted | `Configuration` |
| Supervisor (`runtime-supervisor.ts`) | the child process and the start in progress | start, stop, child exit | at most one child; stop leaves none | `Supervisor` |
| Session coordinator (`session-coordinator.ts`) | host records, waiters, timers, abort controllers | start, continue, cancel, drive, shutdown | every host session settles; tools are executed once per round | - |
| MCP catalog, host HTTP server | the tool list; open requests | list, call; routes | forwarding | - |

**Interaction.** The gateway calls the service on one event loop. The service
creates one task per turn; the task plans its prompt, calls the provider through
an adapter (a child process or an HTTP stream), and the adapter calls back
`emitter.push`. `cancel` cancels the task and awaits it; the cancellation passes
through the adapter's `finally` clauses. The host streams the service's events
over HTTP and posts tool results; the supervisor owns the service process.

**Hard behaviours.** Calls interleave with a task at each of its awaits: the
context probe, the provider call, the provider's clean-up. A timeout may meet a
cancellation, two cancel calls may wait for one task, a task may be cancelled
before its first step, and a clean-up may be cancelled in its turn. Records
expire while nobody looks. The event log is bounded, and everything a turn may
log must fit before it starts. What was checked before an await (an enabled
profile, a capacity) may be stale after it. Connections break in the middle of
an answer on both sides. The process may die inside a file write.
`PROJECT.json` lists each hazard at its line.

## 2. Modules

| Module | Role |
|---|---|
| `EventLog` | operators on the bounded log and on the emitter, a record |
| `Emitter` | one streamed call, character by character |
| `SessionLifecycle` | the abstract specification: what a consumer of the API is promised about a session |
| `Sessions` | the service: registry, records, tasks, calls, shutdown; implements `SessionLifecycle` |
| `Configuration` | what `load_configuration` accepts |
| `ModelOptions` | how a turn's model and effort are settled; extends `Configuration` |
| `Activation` | enabled set, selection, their files, crashes and restarts; extends `ModelOptions` |
| `ContextPlan` | the estimates and `plan_context`, as operators |
| `Context` | a session's transcript, plan and calibration over its calls; extends `ContextPlan` |
| `Calls` | child processes, directories, catalog pages and embedding slots under cancellation |
| `Answers` | the codecs, as operators over abstract answers; extends `EventLog` |
| `Delivery` | from the provider's frames through the session's log to the client; extends `Answers` |
| `Supervisor` | the host's owner of the service process: start, stop, crash, restart |
| `MCSessions`, `MCEmitter`, `MCActivation`, `MCContext`, `MCCalls`, `MCDelivery`, `MCSupervisor` | instances for TLC |
| `EventLogProofs`, `EmitterProofs`, `SessionsProofs`, `ActivationProofs`, `ContextProofs`, `CallsProofs`, `DeliveryProofs`, `SupervisorProofs` | the theorems |

The session appears in three views, each with the data its properties need:
`Sessions` has every control step and sizes only; `Context` has the transcript
with its sizes, one session without failures; `Delivery` has the characters of
an answer and the log's content. `Activation` has of a session only the profile
it holds and for how long.

### Sessions and the code

asyncio runs one coroutine at a time, so one action is what a coroutine does
between two awaits, however many methods that crosses: `SubmitToolResults`
includes `_record`, both `_ensure_schedulable` checks and `_schedule`.

| Variable | Code |
|---|---|
| `sessions`, `status`, `events`, `messages`, `pending`, `rounds`, `chars`, `final`, `validation` | `RuntimeService.sessions` and the fields of `SessionRecord`; an event is its type, a message its role and its tool-request identifiers, `final` whether `final_text` is set |
| `stale` | more than 1800 s since `updated_at`: `Age` sets it at any time, every `add_event` clears it |
| `pc`, `kill` | where the task is (`new` created and not started, `probe` in the context probe, `call` in the provider, `done`), and the cancellation on its way to it: by `cancel` or by `asyncio.timeout` |
| `emitter` | the `_TextDeltaEmitter` of the call |
| `fired` | the turns whose `asyncio.timeout` has fired, which it does once |
| `held` | the turns whose killed process left a descendant that keeps the pipe open, so that the drain of `run_process` waits |
| `canceling` | the callers inside `cancel`, awaiting a task |
| `closing`, `left` | `shutdown`, which cancels one session after another, with the caller `Lifespan` |

| Action | Code |
|---|---|
| `CreateSession`, `CreateRefused` | `create_session` after its last await: purge, capacity, registration, first turn; a refusal keeps the purge |
| `RecordExpired`, `Age` | `_record` on an expired record; time |
| `SubmitToolResults`, `ContinueSession` | the two calls that resume; `Resume` holds the double check |
| `TaskStart`, `PlanCall`, `PlanRefused` | `_advance` up to the provider call |
| `PushText`, `ProviderFails`, `RejectResult`, `RequestTools`, `Complete` | the provider pushes, raises or returns, and the result is judged |
| `Timeout`, `Unwind`, `CancelUnstarted` | the cancellation is sent, reaches the task, or drops it unstarted |
| `PlanCall` with `ProbeAnswers` | at the probe of a session in `Probing` a cancellation whose clean-up raises is a failed probe: the plan is made all the same |
| `PipeHeld`, `PipeClosed` | a descendant holds the pipe of a killed process (sessions in `Piped`), or closes it; another cancellation interrupts the drain |
| `CallTimesOut` | the time limit of an HTTP provider's own transport |
| `Cancel`, `CancelReturns` | `cancel` before and after its await |
| `ShutdownStart`, `ShutdownCancel`, `ShutdownEnd` | `shutdown` |

Calls that are refused without a change are stutters and have no action. `wait`,
`session` and `events` read only (their expiry is `RecordExpired`).

### Activation and the code

One action is what the event loop does between two awaits. Writing a file is
synchronous, so no handler runs during it, but the process may die inside it:
`SetActivation` and `SelectProfile` stop at the temporary file, `SaveOverlay`
and `SaveSelection` are its replacement, `SaveFails` an `OSError`.

| Variable | Code |
|---|---|
| `config` | the YAML file; `overlay`, `choice`: `activation.json`, `selection.json` |
| `phase`, `overrides`, `saving` | the process, `_activation_state`, the write in progress |
| `sessions` | per record its profile, option, effort, whether it runs and how long it has been idle (the 1800 s are `Retention` ticks) |
| `calls` | what a request that awaits a provider remembers: the profile and option of a creation, the adapters of a listing |

| Action | Code |
|---|---|
| `Start`, `Crash`, `Reconfigure`, `RemoveOverlay` | `RuntimeService.__init__` on the files found; death at any point; the operator while it is down |
| `SetActivation`, `SelectProfile`, `Save*` | `set_adapter_activation` with `_activation_blocker`, `select_profile`, the stores |
| `Create`, `AskOption`, `CreateWithOption`, `CreateRefused` | `create_session` without an await, up to the await of the catalog, and after it |
| `AskProfiles`, `ListProfiles`, `ListingBreaks`, `TakeListing` | `profile_state` before and after its probes |
| `TurnEnds`, `Continue`, `Forget`, `Grow` | what keeps a profile in use; a follow-up may bring an effort, which `continue_session` resolves and the record keeps |

### Context and the code

`ContextPlan` translates `context.py`: a text is its characters by class
(`estimate_text_tokens`), a message its texts and the lengths of its two JSON
forms; `Suffix` is the instructions and the last whole turns; `Estimate` starts
from the provider's own count when the window contains the observed prompt;
`PlanContext` and `ReducedOutput` are the two passes of `plan_context`. `Context`
lets one session run: `Plan` probes the loaded instances
(`_loaded_context_length`, `_context_window`) and plans, `Answer` calibrates
(the tail of `_advance`), `SubmitToolResults` (one message for each pending
request) and `ContinueSession` go on. What a message and the provider's own
framing really are in tokens is data, above or below the estimate. A
model may be loaded, unloaded or reloaded between two calls (`Catalogs`), and an
adapter may have either request shape and may or may not measure it.

### Calls and the code

A call is a record: its kind, where it is, its child process, its directory and
its result. `spawn`, `exchange`, `gather` and `drain` are the awaits of
`run_process` and `run_json_rpc_process`; the synchronous part of their
`finally`, the kill of the process group and the cancellation of the readers, is
`Kill`. A call of kind `disposable` is Grok's, whose cleanup runs a second
process in its `finally`; `health` is a version and an authentication probe;
`discover` is Codex's pages over JSON-RPC; `embed` holds a slot of
`EmbeddingService`. `Cancel` meets any await, several times.

| Action | Code |
|---|---|
| `Start`, `Spawn`, `Embed`, `Take` | a caller starts, the subprocess is created or not, `embed` takes a slot, the caller takes the result |
| `Fork`, `Exit`, `Reap`, `EscapedExits` | the child and its descendants, of which one may leave the process group and hold the pipes |
| `ExchangeEnds`, `Answered`, `HandshakeEnds`, `CutShort` | output and exit status, JSON-RPC lines, a limit, a bad answer or the timeout |
| `Gather`, `Drain` | the awaits of the `finally` clause; `After` is what the adapter does next |
| `EmbedEnds`, `Cancel` | `decode_embeddings` or a failure; `CancelledError` |

### Delivery and the code

`Answers` translates `decode_chat`, `ChatStreamDecoder` and the CLI envelopes,
which are stripped of blanks and of which Grok may send at most 32; a
text is a sequence of characters, some of them blank (`Spaces`), the name and the arguments of a tool call
sequences of pieces. `Delivery` has the session's log with content, the provider
call in progress, one client and its connection.

| Variable | Code |
|---|---|
| `session` | adapter and schema, whether `_record` finds it, status, events, output characters, last answer |
| `call` | what the provider has said, the `ChatStreamDecoder`, the text pushed and the `_TextDeltaEmitter` |
| `stream` | `stream()` of the gateway: where it is, its cursor, the batch it iterates over, the events on the network |
| `received` | the events the client has (its cursor is their number) |

| Action | Code |
|---|---|
| `Receive`, `StreamCloses`, `Respond`, `CallFails` | a frame of `stream_json_sse`, the end of the stream, a plain answer, a failure anywhere |
| `Cancel`, `Resume`, `Expire` | the calls of `Sessions`, with what they log |
| `Connect`, `Poll`, `Yield`, `Check` | the gateway's handler and generator; the session goes on between two of them |
| `Deliver`, `Over`, `Lose` | `streamEvents`: the sequence check, the end of the response, a broken connection |

### Supervisor and the code

The supervisor too is one thread of coroutines (`runtime-supervisor.ts`).
`startPromise` makes `startOnce` single-flight, so its position is one variable.
A process, its token and the client that carries the token are one value; a
start or client call that joins the start in flight changes nothing and has no
action. `generation` changes exactly when `child` does and is not modelled.

| Variable | Code |
|---|---|
| `proc` | each child: running, sent SIGTERM, sent SIGKILL, exited |
| `child`, `runtime`, `stopped`, `unexpectedExit`, `restarts` | the fields of the class |
| `start`, `candidate` | where `startOnce` awaits: the old child (`clearing`), the health request (`asking`), the delay (`waiting`), the failed child (`failing`); `settled` until `startPromise` is forgotten; and the child it spawned |
| `stop`, `joined`, `target` | the stop calls under way, those whose `pendingStart` has not settled, and the child whose exit each disposal awaits |
| `crashes` | history: exits marked unexpected since the last explicit restart |

| Action | Code |
|---|---|
| `EnsureStarted`, `Restart` | `client`/`start` up to the first await of `startOnce`; `start` on a stopped supervisor, which resets the budget |
| `Spawn`, `SpawnThrows` | from the end of the disposal to the first health request |
| `Healthy`, `HealthyButStopped`, `Incompatible`, `Unhealthy` | what the health request brings |
| `AskAgain`, `LoopEnds`, `Deadline`, `StartFails`, `ForgetStart` | the loop and its ends |
| `Stop`, `StopDisposed`, `StopReturns`, `Escalate` | `stop` and `disposeCurrentChild` |
| `Exit` | the process exits or reports an error; `markUnexpected` |

A health answer may have been sent by a process that has ended since. Connect
mode owns no process and is left out.

### Abstraction

In `Sessions` text is its length, a tool request its identifier, an event its
type, and the outcome of validation a free choice; the other modules say more of
each. Usage totals and the wording of failures are left out. Assumed of the code
outside these modules, with the reason:

- the provider's call never swallows a cancellation: proved of the CLI adapters
  (`CancellationWins`), and the HTTP adapters catch no `CancelledError`; its
  clean-up may raise something else (`Unwind` with `raised`). The capacity probe
  does swallow one (`ProbeAnswers`). The clean-up of an HTTP exchange ends; that
  of a process may wait for a held pipe (`held`);
- only LM Studio has a probe (`Probing`). A task of another adapter passes `probe`
  without an await; the model lets other steps come between, which is more than
  the code does, but nothing is lost there;
- a caller that awaits a task which has ended runs before any request that
  arrives later, since asyncio has queued its step (`Awaited`). A follow-up that
  was already queued when the turn ended could overtake the waiter of a
  cancellation the probe swallowed; that order is not modelled;
- `provider_factory` does not raise in `_advance`: the configuration admits
  only drivers that have a factory;
- the server calls `shutdown` after its requests have ended;
- a cancelled `create_subprocess_exec` leaves no child, and a killed group
  exits. Whether `Process.wait` waits for the pipes too depends on the version
  of asyncio: `WaitsForPipes` is a constant and the run takes the worse case;
- `health` is that of an adapter with an authentication probe;
- `Context` takes the capacity to hold until the call is over, and the provider's
  report to be exact when there is one; the float product in `output_margin` may
  round one token up, which `CeilDiv` does not. It does not take the estimates to
  be high enough: `FitsUpToShortfall` says by how much they are not (`Shortfall`);
- `Delivery` takes one frame per step and tool arguments that are a JSON object
  to fit the tool's schema, and counts a CLI envelope by its text. Its frames have
  at most one fragment of each call, and one without choices has usage alone
  (`FrameShape`): `accept` would take two fragments of one call in their order.

## 3. What the runs show

| Run | Instance | Shows |
|---|---|---|
| `turns` | 1 streaming session with a probe, 2 clients, 2 tool identifiers, 2 rounds, log of 14 with reserve 4, budget 3, output 10 (283 374 states) | status, log, pending tools and validation agree but for one boundary (`ConsistentUnlessStranded`); tool requests are answered before the next call; the reserve covers every event; limits; failures are final; a turn that was asked to stop completes only if the probe swallowed it; the lifecycle is implemented |
| `registry` | 3 sessions for 2 slots and 1 provider call, 1 client and the shutdown | capacity; a live task is always owned; a running session without a task has a caller that will settle it; shutdown settles everything |
| `live` | 2 sessions, one with a probe, one whose pipe may be held, 2 clients, no symmetry | every turn ends and every cancel call settles its session, unless a pipe is held; the lifecycle across a purge |
| `emitter` | log 24, budget 12, output 60, fragments 1, 2, 3, 5, 9 | no accepted text is refused, the first fragment leaves at once, the outcome has room |
| `refused_input` | as `turns` | **violated**: the first finding below |
| `activation` | 3 profiles, 2 managed, 1 session, 1 suspended request, several operator policies, follow-ups with any effort, crashes and write failures anywhere (602 112 states) | every crash leaves files that start again and enable the same profiles; the selection stays valid unless its file was unreadable; a session created directly stays on an enabled profile; no effort, of a creation or a follow-up, reaches a route or model that refuses it |
| `dispatch_disabled` | as `activation` | **violated**: the third finding below |
| `context` | transcripts of up to 7 messages, 2 request shapes, measured or not, 10 states of the loaded model, messages above and below their estimates (71 055 states) | a call fits whichever instance serves it but for what estimates of messages not counted before fall short, and the input limit; the prompt is whole turns without a gap; the plan is the best admissible one; a measured prompt is kept while it leaves room |
| `calls` | 1 caller of every kind of call and 2 of embeddings, 2 cancellations each, 3 pages, 2 slots | nothing outlives a call; a cancelled call ends as cancelled; each text its vector; every call ends, except one that waits for a pipe only others can close |
| `delivery` | 6 adapter and schema combinations, 2 turns of up to 4 frames out of 13 kinds, texts with blanks, up to 3 envelopes where 2 are admitted, 1 lost connection (1 182 786 states) | an answer is what the provider meant or is refused; a client has a gapless prefix and a stream ends only after everything; a client that keeps asking catches up |
| `supervisor` | 3 processes, 2 stop calls, 1 restart | no process is left behind, a stop is sticky and returns, termination escalates, crashes respect the budget |
| `stale_client` | as `supervisor` | **violated**: the second finding below |

**Bounds.** Constants of the code are scaled so that each limit is met.

- `Sessions`: 512 events become 14 or 9, the reserve of 8 becomes 4 (the most one
  call needs beyond deltas is the start, the plan, one delta and the outcome), 8
  running sessions become 1 and 128 registered ones 2. `MaxEvents` and
  `MaxOutput` bound every run; nothing else is needed to make the state space
  finite. In `turns` the log passes through tool rounds and follow-ups up to the
  reserve, so the boundary cases of the log, the budget and the output limit all
  occur. Identities are never reused, as `uuid4` promises, so `Session` also
  bounds how many are created.
- `Activation`: one managed profile starts enabled and the other disabled, in
  both orders, so an overlay bound to another policy occurs; `Retention` 1 has an
  idle session of every age that matters.
- `Context`: `MaxMessages` 7 allows three turns, or two with a tool round, so
  more than one turn can be dropped; the capacities lie on both sides of the
  "small context" limit and of every window's size.
- `Calls`: two cancellations per call, one of which meets the clean-up the other
  started; three pages end by the cursor seen before and by the limit; three
  callers for two slots.
- `Delivery`: two turns, so a stream may meet the start of the second; the delta
  budget of 3 and the output limit of 8 are both reached in four frames;
  `MaxLosses` 1 leaves a reconnected stream to follow a lost one.
- `Supervisor`: three processes are one more than the restart limit of 1 admits
  without an explicit restart, which is what a wrong budget needs to show; two
  stop calls and any number of starts overlap.

**Symmetry** is used in safety runs only, over clients and over identities
whose values no definition distinguishes (`Lifespan` is not one of them).

**Fairness.** In `Sessions` (`LiveSpec`): weak fairness of the steps the event
loop owes a ready task (`TaskStart`, `CancelUnstarted`, `CancelReturns`,
`ShutdownCancel`, `ShutdownEnd`), of the timer that `asyncio.timeout` sets around
the probe and the call, and of the delivery of a cancellation (`Unwind`), which
is not enabled while a descendant holds the pipe: `TurnEnds` and `CancelSettles`
except those turns. A provider owes nothing and may stay silent for ever. The
profile timeout ends its turn unless the probe swallows it; then the transport's
own limit does (`CallTimesOut`, weakly fair): `request_json` and
`stream_json_sse` run under an `asyncio.timeout` of their own
(`http_transport.py:86`, `:136`), and an adapter with a probe, LM Studio, speaks
through them. In `Calls`: the
runner moves on when its await can return (the exchange by its timeout at the
latest) and a dead child is reaped; neither the child nor whoever holds a pipe
owes anything. In `Delivery`: the gateway's generator is run and the client
reads and asks again after a lost connection; nothing is assumed of the provider
or the users. `drive` of the repository's session coordinator asks again after a
response that ended, but settles the host's session as failed when the connection
breaks: `CatchesUp` is about a consumer of the API that does not give up.

**Deadlock** is not checked in `emitter`, where a call ends; in `turns`, `registry`, `live` and their
counterexample, where a service that was shut down stops; in `context`, whose
session stops after a refused plan or at the bound; and in `delivery`, where
nothing follows once the session is gone and the client knows.

### Findings

`submit_tool_results` and `continue_session` call `_ensure_schedulable`, change
the record, log the input, and `_schedule` calls `_ensure_schedulable` again.
With exactly 503 events logged (`MAX_EVENTS - 9`) the first check passes and the
second refuses. The caller gets a conflict, but the input is in the transcript
and in the log, `pending_tools` is empty (or `final_text` is cleared), and the
status is unchanged with no task. `tests/test_runtime.py:664-683`
(`test_session_tool_loop_and_atomic_results`) and `:1698-1704` say that refused
input leaves the record as it was. `Stranded` describes exactly that state, and
`ConsistentUnlessStranded` shows that nothing else breaks the agreement.

`startOnce` installs the client after awaiting a health request and re-checks
only `stopped`. If a stop and then a start arrive while the answer is under way,
the start joins the pending `startPromise`, the answer of the process just ended
installs its client, and `start()` resolves with no process owned; `client()`
then returns the dead client until somebody calls `stop`. A crash that overtakes
the answer has a similar effect during the next start, because `runtime` is not
cleared when `unexpectedExit` is. The test at `host.test.mjs:1198-1224` expects an
explicit restart to spawn a process.

`create_session` checks that its profile is enabled and then, when the caller
asks for a model option, awaits the provider's catalog before it registers the
session (`service.py:762`). A `set_adapter_activation` during the await finds no
session that uses the profile and disables it; the session is dispatched all the
same. `docs/architecture/provider-adapters.md:353-358` says that a disabled
profile cannot be dispatched and that one in use cannot be disabled.
`DirectSessionsEnabled` shows that the other way to create a session keeps the
promise.

### A known gap, without a run of its own

A stop that meets the capacity probe may be lost. `_context_window` takes every
exception of the probe for a failed probe (`service.py:875`), and `context_window`
of LM Studio every failure of its transport (`lmstudio.py:406-408`); when the
clean-up of the cancelled HTTP request raises, its exception replaces the
`CancelledError`, and the turn goes on to call the provider. `cancel` waits and
returns a completed session, and the profile timeout, which fires once, no longer
bounds the turn. `docs/architecture/provider-adapters.md:154-155` says that the
probe is inside the session's timeout and cancellation scope;
`tests/test_runtime.py:2061` tests it with a probe whose clean-up raises nothing.
`NoCompletionAfterCancel` exempts exactly these turns (`LostInProbe`): without
that exemption TLC finds the completed turn under `MCSessionsTurns.cfg`.

## 4. What is proved

For all constants that satisfy the named assumptions: finite sets of sessions
and tool identifiers, natural limits, a reserve between 4 and the size of the log
(`EventLogAssumption`, `EmitterAssumption`, `SessionsAssumption`); what the
configuration guarantees of profiles and options (`ActivationAssumption`,
`ModelOptionsAssumption`); constants and messages of their kinds, with any token
counts (`PlanAssumption`, `ContextAssumption`); `CallsAssumption`, `DeliveryAssumption`,
`SupervisorAssumption` and those of the modules they extend.

- `EmitterProofs`: `TextNeverRefused`, `Prompt`, `RoomForOutcome`. The inductive
  invariant relates what has been emitted to what may still come: after the
  first event, each further one accounts for a whole chunk, and the chunk is
  the remaining output divided, rounded up, by the remaining budget
  (`CeilingCovers`), so the events left always hold the text left. That relation,
  `Sound`, and what a buffered or flushed fragment does to it are stated once in
  `EventLogProofs`, for `Emitter` and for `Sessions`.
- `SessionsProofs`, in three parts.
  - `TypeCorrect`, one lemma per group of actions.
  - Who owns a running session: the inductive invariant `Ownership`. `RunningHasTask`
    is not inductive alone: a task dropped before its first step leaves a running
    session, and that is safe only because such a task was cancelled by `cancel`,
    never by the timer (`TimerNeedsStart`), and whoever cancelled it is still
    waiting (`CancelHasCaller`). `StepKinds` reduces every action to eight shapes
    (a task progresses, ends or is dropped; a turn starts; a cancellation is sent;
    a session is released; shutdown aborts; records idle), and each conjunct is
    shown to survive each shape. From `Ownership` follow `LiveTaskOwned`,
    `RunningHasTask`, `ShutdownSettles`, and the action properties `FailureIsFinal`
    and `NoCompletionAfterCancel`: a turn that was asked to stop has the request
    still on its way (`kill`) unless it was `LostInProbe`. `CapacityRespected` needs
    one more induction.
  - What a record keeps through its turns: the inductive invariant `TurnInv`, which
    adds to `Ownership` that running sessions are registered (`Registered`), that a
    session being canceled has a task on its way out or an outcome
    (`CancelPending`), and of every record `Sane`: room for an outcome, and the
    reserve in front of a call not yet planned (`RoomKept`); the emitter of a
    streaming call is `Sound` beside this log and the output left (`TextKept`); a
    session waits for tools only with a round left (`RoundsKept`); the requests of
    the transcript are answered in place and none is open when a turn runs or has
    completed (`Answered`); status and last event agree, unless the session is
    `Stranded` (`Agrees`). None of these stands alone: the outcome event agrees with the
    status because there was room for it, there was room because the emitter is
    sound, and a call in flight has nothing pending because it was resumed by the
    answers to all that was. The proof goes action by action over the one record an
    action touches. `LimitsRespected`, `TranscriptAnswered`,
    `ConsistentUnlessStranded` and `ReserveSuffices` follow.
  - `ImplementsLifecycle`: under `TurnInv` every action of `Sessions` is, for the
    record it touches, an action of `SessionLifecycle` or changes nothing a consumer
    sees. A step of a task is a step of a running session by `Ownership`, the step
    that ends a turn logs its outcome because `RoomKept` left room for it, and what
    a purge forgets was registered, hence created and not running.
- `ActivationProofs`: `RestartIsSafe`, `DirectSessionsStayEnabled`,
  `SelectionIsKept`, for any profiles, policies and catalogs. The invariant says
  of a write in progress what will hold once it has replaced the file
  (`SavingSound`): the blocker was evaluated before the write, no handler runs
  during it, and so what it admits is still admissible afterwards. That is why
  death in the middle is harmless and why a creation that awaits is not covered.
  `ActivationTypeCorrect` and `EffortIsDeliverable` rest on `Typed`: a creation that
  awaits its catalog remembers a profile of the configuration (`CallsConfigured`),
  since the configuration changes only between two processes and no call survives
  one, and a record keeps the efforts its adapter supports (`EffortSound`), so that
  the effort of a follow-up is as deliverable as that of a creation.
  `EffortDeliverable` further needs that the efforts of the code's tables of
  verified models are efforts the route can encode
  (`ModelOptionsAssumption`: the tables of this version are empty).
- `ContextProofs`: for any transcript, any series of catalogs and any reports,
  `FitsUpToShortfall`, `PromptCoherent`, `BestPlan` and `ConfirmedPromptKept`. A sum
  over a window is a fold whose order is left to `CHOOSE`; the first section shows
  that the order does not matter (`SumRemove`, `SumUnion`, `SumMonotone`), each
  time by considering a smallest set for which it did (`SmallestSubset`). The
  invariant (`ContextInv`): an observation is the exact count of a prompt that,
  with all that came since, is still some last turns of the transcript (`Seen`),
  and the prompt of a call in flight is some last turns. `EstimateSound`, that an
  estimate is too small by at most the `Shortfall` of the messages not counted
  before, however it was calibrated, needs the first half, and
  `ConfirmedPromptKept` needs that the observed prompt plus what came since is
  itself one of the windows the plan chooses from. `SuffixAppend` carries both
  through a growing transcript. `PlanIsBest` compares the two passes of
  `plan_context` with the set of admissible choices, for every measure that grows
  with the window.
- `CallsProofs`: `LeavesNothingBehind`, `CancellationWins`, `VectorsInOrder`, for
  any callers, pages, slots and number of cancellations, from one invariant,
  `Tidy`. A cancelled call that still runs is either on its way out with
  `canceled` in hand or in Grok's cleanup with `canceled` as the result to keep
  (`Remembers`); a call past its exchange has no group and no readers
  (`Released`). `AfterSound` is the one lemma on what an adapter does next, and
  every step that leaves a runner goes through it.
- `DeliveryProofs`: `StreamsFaithfully`, for any provider, adapter, number of
  turns, frames and losses. The invariant (`Consistent`): what the client has,
  what is on the network and what the gateway is about to send are consecutive
  pieces of a log numbered from 1. `SessionGrows` shows that no step of a session,
  whatever frame, failure or outcome it takes, does anything to the log but add
  to it; pieces survive that (`PieceKept`).
  `AnswersFaithfully`, for any frames and payloads: the invariant (`Answering`) says
  that while a call runs its decoder has, call by call and in order, what was said
  (`Heard`), and that the deltas of the turn in the log are what was pushed but for
  what the emitter holds back (`Told`); afterwards the session has the answer. What
  was meant is a flattening of all that was said, which is a recursion: the
  section on it shows that the recursion is well defined and what one more
  sequence adds (`FlatExists`, `FlattenAppend`), each by a least counterexample.
  The calls of an answer come in the order of their indices however they were
  interleaved on the wire (`InOrderIs`), so a complete decoder says what was heard
  (`CompleteIsHeard`) and an answer in one piece decodes to what it meant
  (`DecodedIsMeant`), blanks around a CLI envelope's text aside. That a provider
  had finished is asked of those that say so (`Finished`): of Claude and Codex the
  exit status and the error mark are all there is.
- `SupervisorProofs`: for any processes, callers and restart limit, `NoOrphan`,
  `StoppedIsDown` and `CrashBudget` from one inductive invariant, `Supervised`,
  which also gives `SupervisorTypeCorrect`. `NoOrphan` needs that a start about to
  spawn owns nothing (`NothingOwned`); `CrashBudget` needs the account of crashes
  against restarts (`CrashesPaid`), whose last crash is unpaid until the next
  start begins, and that a process crashes once (`CrashedOnce`).

Only model-checked: `TurnEnds`, `CancelSettles`, `TerminationEscalates`,
`StopEnds`, `EveryCallEnds` and `CatchesUp`, since liveness is outside the proof
system's reach. Every other property of a passing run is a theorem.

## 5. Not modelled, and what is left

- `SessionCoordinator`: a module over `SessionLifecycle` in which the drive loop
  races cancel, timeout and removal of its record. Its reading of the stream is
  the client of `Delivery`; its map of records and its timers are left to do.
- MCP catalog and host HTTP server: they forward and keep no state between calls.
- `api_contract.py`, `contracts.py`: data classes and schema generation, no
  behaviour over time. Build and release scripts are not part of the system.
- Of modelled parts: request layout and headers of the providers, the YAML and
  endpoint rules of the configuration, the listing of model options for display,
  the gateway's other handlers (each is one call to the service), connect mode of
  the supervisor, usage totals.
