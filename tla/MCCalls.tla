------------------------------ MODULE MCCalls ------------------------------
(* An instance of Calls: a batch of two texts, answered in order, out of   *)
(* order, with a repetition, short of one, and with an unsound vector.     *)
EXTENDS Calls

CONSTANTS c1, c2, c3

EmbedBeside ==
  [c \in Call |-> IF c = c1 THEN {"complete", "disposable", "health", "discover", "embed"}
                 ELSE {"embed"}]

Item(text, sound) == [index |-> text, vector |-> text, sound |-> sound]

BatchAnswers ==
  {<<Item(1, TRUE), Item(2, TRUE)>>, <<Item(2, TRUE), Item(1, TRUE)>>,
   <<Item(1, TRUE), Item(1, TRUE)>>, <<Item(1, TRUE)>>, <<Item(2, TRUE), Item(1, FALSE)>>}
=============================================================================
