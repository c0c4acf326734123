------------------------------- MODULE Calls -------------------------------
(***************************************************************************)
(* What a call to a provider holds and gives back: the child process and   *)
(* its readers (adapters/process.py), the private directory and the        *)
(* cleanup run of a CLI call (adapters/cli_base.py, grok.py), the pages of *)
(* Codex's catalog (codex.py), the slot of an embedding batch              *)
(* (embeddings.py).  A call is cancelled at any of its awaits, more than   *)
(* once if the caller insists; a timeout is met in the runner alone, the   *)
(* clean-up of its finally clause has none.                                *)
(***************************************************************************)
EXTENDS Integers, Sequences, FiniteSets

CONSTANTS Call,
          Kinds,         \* the kinds of call each caller makes
          MaxPages,      \* the 8 pages of discover_models
          Cursors,       \* the page cursors a provider may answer with
          MaxActive,     \* EmbeddingService's max_concurrency
          Batches,       \* answers to a batch of Texts texts: sequences of items, whose
                         \* vector is the number of the text it was made for
          Texts,
          WaitsForPipes, \* Process.wait returns only once the pipes are closed
          MaxCancels,    \* bound on the cancellations of one call
          None

ASSUME CallsAssumption ==
  /\ IsFiniteSet(Call) /\ {MaxPages, MaxActive, Texts} \subseteq Nat \ {0} /\ MaxCancels \in Nat
  /\ Kinds \in [Call -> SUBSET {"complete", "disposable", "health", "discover", "embed"}]
  /\ None \notin Cursors /\ WaitsForPipes \in BOOLEAN
  /\ \A items \in Batches : \A i \in DOMAIN items : items[i].vector = items[i].index

VARIABLES
  calls,  \* per caller the call in progress
  active  \* EmbeddingService._active

vars == <<calls, active>>

(* group: the live processes of the child's process group; escaped: a      *)
(* descendant that left it and holds the pipes; unread: a pipe nobody      *)
(* reads, paused; readers: what became of the reader tasks; answers: how   *)
(* many requests of the JSON-RPC handshake are answered.                   *)
NoProcess == [group |-> {}, reaped |-> TRUE, escaped |-> FALSE, unread |-> FALSE,
              readers |-> "none", answers |-> 0]

NoCall == [kind |-> "none", pc |-> "idle", step |-> "none", process |-> NoProcess,
           raised |-> "none", directory |-> FALSE, result |-> "none", pages |-> 0,
           seen |-> {}, vectors |-> <<>>, cancels |-> 0]

Set(c, call) == calls' = [calls EXCEPT ![c] = call]

(* discover_models speaks JSON-RPC, an initialize and a list request; every *)
(* other process is run_process.                                           *)
JsonRpc(call) == call.kind = "discover"
Requests == 2

-----------------------------------------------------------------------------
(* Ends of a call.  A with block removes the directory on every way out.   *)
Ended(call, result) == [call EXCEPT !.pc = "done", !.directory = FALSE, !.result = result]

Spawning(call, step) ==
  [call EXCEPT !.pc = "spawn", !.step = step, !.raised = "none", !.process = NoProcess,
               !.directory = TRUE]

(* complete: the cleanup hook runs whatever became of the call.            *)
AfterMain(call, result) ==
  IF call.kind = "disposable"
  THEN Spawning([call EXCEPT !.result = result], "cleanup")
  ELSE Ended(call, result)

\* Mutant: what the cleanup run came to replaces what the call came to.
AfterCleanupOverriding(call, result) == Ended(call, result)

(* GrokAdapter.cleanup suppresses a RuntimeFailure, not a cancellation.    *)
AfterCleanup(call, result) ==
  Ended(call, IF result = "canceled" THEN "canceled" ELSE call.result)

(* health: the version probe, then the authentication probe (of an adapter *)
(* that has one).                                                          *)
AfterProbe(call, result) ==
  IF call.step = "version" /\ result = "ok" THEN Spawning(call, "authentication")
  ELSE Ended(call, result)

\* Mutant: a cursor seen before is followed again, and pages are not counted.
AfterPageEndless(call, result, next) ==
  IF result # "ok" \/ next = None THEN Ended(call, result)
  ELSE Spawning(call, "page")

(* discover_models: the next page, unless the cursor is absent, was seen   *)
(* before, or the pages are used up.                                       *)
AfterPage(call, result, next) ==
  LET page == [call EXCEPT !.pages = @ + 1, !.seen = @ \cup {next}]
  IN IF result # "ok" \/ next = None THEN Ended(call, result)
     ELSE IF next \in call.seen \/ page.pages = MaxPages THEN Ended(call, "failed")
     ELSE Spawning(page, "page")

(* The runner returned or raised.                                          *)
After(call, result, next) ==
  CASE call.step = "main"    -> AfterMain(call, result)
    [] call.step = "cleanup" -> AfterCleanup(call, result)
    [] call.step = "page"    -> AfterPage(call, result, next)
    [] OTHER                 -> AfterProbe(call, result)

-----------------------------------------------------------------------------
(* A caller starts a call whose executable is there.                       *)
Start(c, kind) ==
  /\ calls[c].pc = "idle" /\ kind \in Kinds[c] \ {"embed"}
  /\ Set(c, Spawning([NoCall EXCEPT !.kind = kind],
              CASE kind = "health" -> "version" [] kind = "discover" -> "page" [] OTHER -> "main"))
  /\ UNCHANGED active

(* create_subprocess_exec: a child in a session of its own, or an OSError. *)
(* (Cancelled here, it is taken to leave no child.)                        *)
Spawn(c) ==
  /\ calls[c].pc = "spawn"
  /\ \/ Set(c, [calls[c] EXCEPT !.pc = "exchange",
                 !.process = [NoProcess EXCEPT !.group = {"leader"}, !.reaped = FALSE,
                                               !.readers = "running"]])
     \/ Set(c, After(calls[c], "failed", None))
  /\ UNCHANGED active

(* The child's doings: it has a descendant, which may leave its group; it  *)
(* exits and is reaped by the event loop's watcher.                        *)
Fork(c) ==
  /\ calls[c].pc = "exchange" /\ calls[c].process.group = {"leader"}
  /\ ~calls[c].process.escaped
  /\ \/ Set(c, [calls[c] EXCEPT !.process.group = {"leader", "descendant"}])
     \/ Set(c, [calls[c] EXCEPT !.process.escaped = TRUE])
  /\ UNCHANGED active

Exit(c) ==
  /\ \E p \in calls[c].process.group :
       Set(c, [calls[c] EXCEPT !.process.group = @ \ {p}])
  /\ UNCHANGED active

Reap(c) ==
  /\ "leader" \notin calls[c].process.group /\ ~calls[c].process.reaped
  /\ Set(c, [calls[c] EXCEPT !.process.reaped = TRUE])
  /\ UNCHANGED active

(* Whoever held the pipes let go of them: the readers see their end.       *)
EscapedExits(c) ==
  /\ calls[c].process.escaped
  /\ Set(c, [calls[c] EXCEPT !.process.escaped = FALSE])
  /\ UNCHANGED active

PipesClosed(process) == process.group = {} /\ ~process.escaped

\* Mutant: the child is killed, not its process group.
KillLeader(process, unread) ==
  [process EXCEPT !.group = @ \ {"leader"}, !.unread = unread,
                  !.readers = IF @ = "running" THEN "canceled" ELSE @]

(* The synchronous part of finally: the process group is killed and the    *)
(* reader tasks are cancelled.                                             *)
Kill(process, unread) ==
  [process EXCEPT !.group = {}, !.unread = unread,
                  !.readers = IF @ = "running" THEN "canceled" ELSE @]

Left(call, result, unread) ==
  [call EXCEPT !.pc = "gather", !.process = Kill(@, unread), !.raised = result]

Complete(process) == PipesClosed(process) /\ process.reaped

(* Output and exit status are in; the child may have reported a failure.   *)
ExchangeEnds(c) ==
  /\ calls[c].pc = "exchange" /\ ~JsonRpc(calls[c]) /\ Complete(calls[c].process)
  /\ \E result \in {"ok", "failed"} : Set(c, Left(calls[c], result, FALSE))
  /\ UNCHANGED active

(* A line with the awaited identifier: the next request is written, or     *)
(* standard input is closed.                                               *)
Answered(c) ==
  /\ calls[c].pc = "exchange" /\ JsonRpc(calls[c]) /\ calls[c].process.answers < Requests
  /\ Set(c, [calls[c] EXCEPT !.process.answers = @ + 1])
  /\ UNCHANGED active

(* The handshake is over: every request is answered, the child is gone.    *)
HandshakeEnds(c) ==
  /\ calls[c].pc = "exchange" /\ JsonRpc(calls[c]) /\ Complete(calls[c].process)
  /\ \E result \in IF calls[c].process.answers = Requests THEN {"ok", "failed"} ELSE {"failed"} :
       Set(c, Left(calls[c], result, FALSE))
  /\ UNCHANGED active

(* A limit, an unusable answer or the timeout cuts the exchange short,     *)
(* which may leave a pipe full.                                            *)
CutShort(c) ==
  /\ calls[c].pc = "exchange"
  /\ \E unread \in BOOLEAN : Set(c, Left(calls[c], "failed", unread))
  /\ UNCHANGED active

(* gather of the cancelled readers; their exceptions are dropped.          *)
Gather(c) ==
  /\ calls[c].pc = "gather"
  /\ Set(c, [calls[c] EXCEPT !.pc = "drain", !.process.readers = "done"])
  /\ UNCHANGED active

(* run_process drains the pipes to their end and waits; the JSON-RPC       *)
(* runner only waits.                                                      *)
Drained(call) ==
  /\ call.process.reaped
  /\ IF JsonRpc(call)
     THEN WaitsForPipes => PipesClosed(call.process) /\ ~call.process.unread
     ELSE PipesClosed(call.process)

Drain(c) ==
  /\ calls[c].pc = "drain" /\ Drained(calls[c])
  /\ \E next \in Cursors \cup {None} : Set(c, After(calls[c], calls[c].raised, next))
  /\ UNCHANGED active

(* Task.cancel at an await of the call.                                    *)
Cancel(c) ==
  /\ calls[c].cancels < MaxCancels
  /\ LET call == [calls[c] EXCEPT !.cancels = @ + 1]
     IN \/ /\ call.pc \in {"spawn", "gather", "drain"}
           /\ Set(c, After(call, "canceled", None))
           /\ UNCHANGED active
        \/ /\ call.pc = "exchange"
           /\ \E unread \in BOOLEAN : Set(c, Left(call, "canceled", unread))
           /\ UNCHANGED active
        \/ /\ call.pc = "embed"
           /\ Set(c, Ended(call, "canceled")) /\ active' = active - 1

-----------------------------------------------------------------------------
(* EmbeddingService.embed up to the provider's await.                      *)
Embed(c) ==
  /\ calls[c].pc = "idle" /\ "embed" \in Kinds[c]
  /\ active < MaxActive
  /\ Set(c, [NoCall EXCEPT !.kind = "embed", !.pc = "embed"])
  /\ active' = active + 1

Failed == <<>>

\* Mutant: vectors are taken in the order they arrive.
DecodeEmbeddingsAsSent(items) ==
  IF Len(items) = Texts /\ \A i \in 1 .. Texts : items[i].sound
  THEN [i \in 1 .. Texts |-> items[i].vector] ELSE Failed

(* decode_embeddings and checked_vectors: each index once, each vector     *)
(* sound, in the order of the texts.                                       *)
DecodeEmbeddings(items) ==
  IF /\ Len(items) = Texts
     /\ {items[i].index : i \in 1 .. Texts} = 1 .. Texts
     /\ \A i \in 1 .. Texts : items[i].sound
  THEN [text \in 1 .. Texts |->
          items[CHOOSE i \in 1 .. Texts : items[i].index = text].vector]
  ELSE Failed

(* The provider answers, or the request fails or times out.                *)
EmbedEnds(c) ==
  /\ calls[c].pc = "embed"
  /\ \E items \in Batches \cup {Failed} :
       Set(c, [Ended(calls[c], IF DecodeEmbeddings(items) = Failed THEN "failed" ELSE "ok")
                 EXCEPT !.vectors = DecodeEmbeddings(items)])
  /\ active' = active - 1

(* The caller takes the result; another call may follow.                   *)
Take(c) ==
  /\ calls[c].pc = "done"
  /\ Set(c, NoCall)
  /\ UNCHANGED active

Runner(c) ==
  Spawn(c) \/ ExchangeEnds(c) \/ HandshakeEnds(c) \/ CutShort(c) \/ Gather(c) \/ Drain(c) \/ EmbedEnds(c)

Init == calls = [c \in Call |-> NoCall] /\ active = 0

Next ==
  \E c \in Call :
    \/ \E kind \in Kinds[c] : Start(c, kind)
    \/ Embed(c) \/ Answered(c) \/ Runner(c) \/ Cancel(c) \/ Take(c)
    \/ Fork(c) \/ Exit(c) \/ Reap(c) \/ EscapedExits(c)

(* The event loop runs what can run: every await the runner is at returns  *)
(* once it can, the exchange by its timeout at the latest, and a dead      *)
(* child is reaped.                                                        *)
Spec == Init /\ [][Next]_vars /\ \A c \in Call : WF_vars(Runner(c)) /\ WF_vars(Reap(c))

-----------------------------------------------------------------------------
(* Once a runner has left the exchange no process of its group lives and   *)
(* no reader reads; once the call is over its directory is gone too; and a *)
(* slot is held by exactly the batches in flight.  A repeated cancellation *)
(* in the middle of the clean-up changes none of it (finally of            *)
(* run_process and run_json_rpc_process, complete, embed).                 *)
NothingLeftBehind ==
  /\ \A c \in Call : calls[c].pc # "exchange" =>
       calls[c].process.group = {} /\ calls[c].process.readers # "running"
  /\ \A c \in Call : calls[c].pc = "done" => ~calls[c].directory
  /\ active = Cardinality({c \in Call : calls[c].pc = "embed"})
  /\ active <= MaxActive

(* A cancelled call ends as cancelled, wherever the cancellation met it:   *)
(* no cleanup, suppressed failure or answer in hand overtakes it (the      *)
(* excepts and finallys the CancelledError passes).                        *)
CancelWins ==
  \A c \in Call : calls[c].pc = "done" /\ calls[c].cancels > 0 => calls[c].result = "canceled"

(* Each text gets its own vector, in whatever order, with whatever         *)
(* repetitions and omissions the provider lists them (decode_embeddings).  *)
EachTextItsVector ==
  \A c \in Call : calls[c].kind = "embed" /\ calls[c].result = "ok" =>
    calls[c].vectors = [text \in 1 .. Texts |-> text]

(* The runner waits for a pipe that only others can close: a descendant    *)
(* that left the process group holds it, or it is full and, in the         *)
(* JSON-RPC runner, nobody reads it.                                       *)
HeldOpen(call) ==
  /\ call.pc = "drain"
  /\ call.process.escaped \/ (JsonRpc(call) /\ WaitsForPipes /\ call.process.unread)

(* Every call ends, by its timeout at the latest, except one that waits    *)
(* for such a pipe: the waits of the finally clause have no timeout.       *)
EveryCallEnds ==
  \A c \in Call : <>[](calls[c].pc \notin {"idle", "done"}) => <>[]HeldOpen(calls[c])
=============================================================================
