---------------------------- MODULE MCActivation ----------------------------
(* An instance of Activation: p0 is never managed, p1 and p2 are in one of *)
(* the configurations the operator moves between.                          *)
EXTENDS Activation, TLC

CONSTANTS p0, p1, p2, cli, local, low, high, m1, m2, o1, task

Limits == [timeout |-> 180, input |-> 140000, output |-> 50000, tokens |-> 4096, rounds |-> 12]
NoOptions == [o \in {} |-> Refused]

Plain(provider, efforts, default) ==
  [provider |-> provider, external |-> TRUE, model |-> m1, limits |-> Limits,
   efforts |-> efforts, default |-> default, options |-> NoOptions, catalogTasks |-> {}]

Exact == [Plain(cli, {}, NoEffort) EXCEPT !.options =
            (o1 :> [model |-> m2, tasks |-> {task}, efforts |-> {low}, default |-> low])]
Catalog == [Plain(local, {low, high}, high) EXCEPT !.catalogTasks = {task}]

Managed == {(p1 :> TRUE) @@ (p2 :> FALSE), (p1 :> FALSE) @@ (p2 :> TRUE)}
Unrouted == [x \in {} |-> p0]
Sound == (p0 :> Plain(cli, {}, NoEffort)) @@ (p1 :> Exact) @@ (p2 :> Catalog)

(* What the operator might write, acceptable or not: the last one declares *)
(* an effort its route cannot encode, which only the adapter notices.      *)
Drafts ==
  [profiles : {Sound}, default : {p0}, routes : {Unrouted, task :> p1}, managed : Managed]
  \cup [profiles : {Sound}, default : {p2}, routes : {task :> p0}, managed : Managed]
  \cup {[profiles |-> [Sound EXCEPT ![p0] = Plain(cli, {high}, high)], default |-> p0,
         routes |-> Unrouted, managed |-> (p1 :> TRUE)]}

TransportOf == (cli :> {low}) @@ (local :> {low, high})
VerifiedBy ==
  (cli :> [m \in {m1, m2} |-> IF m = m2 THEN {low} ELSE {}]) @@ (local :> [m \in {m1, m2} |-> {}])

Item(kind, known, efforts) ==
  [kind |-> kind, known |-> known, efforts |-> efforts, default |-> NoEffort]

Answers ==
  {[supported |-> FALSE, failed |-> TRUE, details |-> NoOptions],
   [supported |-> TRUE, failed |-> TRUE, details |-> NoOptions],
   [supported |-> TRUE, failed |-> FALSE,
    details |-> (m1 :> Item("reasoning", TRUE, {low})) @@ (m2 :> Item("reasoning", TRUE, {low}))],
   [supported |-> TRUE, failed |-> FALSE,
    details |-> (m1 :> Item("reasoning", FALSE, {})) @@ (m2 :> Item("embedding", FALSE, {}))],
   [supported |-> TRUE, failed |-> FALSE, details |-> (m2 :> Item("reasoning", TRUE, {low, high}))]}
=============================================================================
