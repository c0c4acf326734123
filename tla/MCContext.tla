----------------------------- MODULE MCContext -----------------------------
(* An instance of Context: a prompt that is less tokens than its estimate  *)
(* and one that is more, answers, rounds of one and of two tools, contexts *)
(* that hold all, some or little of a conversation.                        *)
EXTENDS Context, TLC

CONSTANTS gemma, other

Text(ascii, alphabetic, wide) == [ascii |-> ascii, alphabetic |-> alphabetic, other |-> wide]

Message(role, text, calls, answers, compact, spaced, tokens) ==
  [role |-> role, text |-> text, calls |-> calls, answers |-> answers,
   compact |-> compact, spaced |-> spaced, tokens |-> tokens]

Asks == {Message("user", Text(3, 0, 0), <<>>, <<>>, 4, 3, 2),
         Message("user", Text(4, 1, 1), <<>>, <<>>, 7, 6, 11)}
Says == {Message("assistant", Text(6, 0, 0), <<>>, <<>>, 6, 7, 2)}
Needs == {Message("assistant", Text(0, 0, 0), <<Text(4, 0, 0)>>, <<>>, 5, 8, 2),
          Message("assistant", Text(0, 0, 0), <<Text(1, 0, 0), Text(0, 0, 1)>>, <<>>, 7, 9, 3)}
Gives == {Message("tool", Text(3, 0, 0), <<>>, <<Text(2, 0, 0)>>, 5, 4, 2)}
Orders == {Message("system", Text(3, 0, 0), <<>>, <<>>, 3, 2, 1)}

Req == [tools |-> <<Text(3, 0, 0)>>, compact |-> 2, spaced |-> 3, fields |-> 2]

Holds(instances) == {[key |-> gemma, instances |-> instances]}
One(length) == Holds({[id |-> gemma, length |-> length]})

(* Unknown capacity (no answer, an ambiguous identity), one instance, *)
(* two of different sizes, one that cannot be verified.                    *)
Loaded ==
  {Unknown, One(14), One(18), One(22), One(30), One(41),
   Holds({[id |-> gemma, length |-> 30], [id |-> other, length |-> 16]}),
   Holds({[id |-> gemma, length |-> 30], [id |-> other, length |-> 0]}),
   One(22) \cup {[key |-> other, instances |-> {[id |-> gemma, length |-> 12]}]},
   One(26) \cup {[key |-> other, instances |-> {[id |-> other, length |-> 9]}]}}
=============================================================================
