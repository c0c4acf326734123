---------------------------- MODULE ContextProofs ----------------------------
(***************************************************************************)
(* Proofs about Context and ContextPlan, for any transcript, provider and  *)
(* capacity.  A sum over a window is a fold whose order is left to CHOOSE; *)
(* the first section shows that the order does not matter.  Induction over *)
(* finite sets is by smallest counterexample.                              *)
(***************************************************************************)
EXTENDS Context, FiniteSetTheorems, SequenceTheorems, TLAPS

-----------------------------------------------------------------------------
(* Among sets of subsets of a finite set one has no smaller member.        *)
LEMMA SmallestSubset ==
  ASSUME NEW S, IsFiniteSet(S), NEW B \in SUBSET SUBSET S, B # {}
  PROVE  \E X \in B : \A Y \in B : Y \subseteq X => ~(Y # X)
<1>1. IsWellFoundedOn(StrictSubsetOrdering(S), FiniteSubsetsOf(S))
  BY FS_StrictSubsetOrderingWellFounded
<1>2. FiniteSubsetsOf(S) = SUBSET S
  BY FS_FiniteSubsetsOfFinite
<1>3. PICK X \in B : \A Y \in B : ~(<<Y, X>> \in StrictSubsetOrdering(S))
  BY <1>1, <1>2, WFMin
<1>4. ASSUME NEW Y \in B, Y \subseteq X, Y # X PROVE FALSE
  <2>1. <<Y, X>> \in StrictSubsetOrdering(S) BY <1>4 DEF StrictSubsetOrdering
  <2> QED BY <1>3, <2>1
<1> QED BY <1>4

Pick(s) == CHOOSE x \in s : TRUE

(* g sums f over every subset of S.                                        *)
Unfolds(g, f, S) ==
  g = [s \in SUBSET S |-> IF s = {} THEN 0 ELSE f[Pick(s)] + g[s \ {Pick(s)}]]

LEMMA SumIsFold == ASSUME NEW f, NEW S PROVE SumOver(f, S) = (CHOOSE g : Unfolds(g, f, S))[S]
  BY DEF SumOver, MapThenSumSet, MapThenFoldSet, Unfolds, Pick

LEMMA PickIn == ASSUME NEW S, S # {} PROVE Pick(S) \in S
  BY DEF Pick

LEMMA FoldsAgree ==
  ASSUME NEW f, NEW S, NEW T, NEW g, NEW h, Unfolds(g, f, S), Unfolds(h, f, T),
         NEW W, IsFiniteSet(W), W \subseteq S, W \subseteq T
  PROVE  g[W] = h[W]
<1> DEFINE Differ == {X \in SUBSET W : g[X] # h[X]}
<1> SUFFICES ASSUME Differ # {} PROVE FALSE
  OBVIOUS
<1>0. Differ \in SUBSET SUBSET W OBVIOUS
<1>1. PICK X \in Differ : \A Y \in Differ : Y \subseteq X => ~(Y # X)
  <2> HIDE DEF Differ
  <2> QED BY <1>0, SmallestSubset
<1>2. X \in SUBSET S /\ X \in SUBSET T OBVIOUS
<1>3. g[X] = IF X = {} THEN 0 ELSE f[Pick(X)] + g[X \ {Pick(X)}]
  BY <1>2 DEF Unfolds
<1>4. h[X] = IF X = {} THEN 0 ELSE f[Pick(X)] + h[X \ {Pick(X)}]
  BY <1>2 DEF Unfolds
<1>5. X # {} BY <1>3, <1>4
<1>6. X \ {Pick(X)} \notin Differ BY <1>1, <1>5, PickIn
<1>7. g[X \ {Pick(X)}] = h[X \ {Pick(X)}] BY <1>6
<1> QED BY <1>3, <1>4, <1>7

LEMMA FoldExists ==
  ASSUME NEW f, NEW S, IsFiniteSet(S)
  PROVE  \E g : Unfolds(g, f, S)
<1> DEFINE Missing == {X \in SUBSET S : ~\E g : Unfolds(g, f, X)}
<1> SUFFICES ASSUME Missing # {} PROVE FALSE
  OBVIOUS
<1>0. Missing \in SUBSET SUBSET S OBVIOUS
<1>1. PICK X \in Missing : \A Y \in Missing : Y \subseteq X => ~(Y # X)
  <2> HIDE DEF Missing
  <2> QED BY <1>0, SmallestSubset
<1>2. ASSUME NEW s \in SUBSET X, s # X
      PROVE  Unfolds(CHOOSE g : Unfolds(g, f, s), f, s)
  BY <1>1, <1>2
<1>3. ASSUME NEW s \in SUBSET X, s # {}
      PROVE  s \ {Pick(s)} \in SUBSET X /\ s \ {Pick(s)} # X
  BY <1>3, PickIn
<1> DEFINE Fold(s) == (CHOOSE g : Unfolds(g, f, s))[s]
           G == [s \in SUBSET X |-> IF s = {} THEN 0 ELSE f[Pick(s)] + Fold(s \ {Pick(s)})]
<1>4. ASSUME NEW s \in SUBSET X, s # X
      PROVE  G[s] = Fold(s)
  <2> DEFINE g == CHOOSE g : Unfolds(g, f, s)
  <2>1. Unfolds(g, f, s) BY <1>2, <1>4
  <2> HIDE DEF g
  <2>2. g[s] = IF s = {} THEN 0 ELSE f[Pick(s)] + g[s \ {Pick(s)}]
    BY <2>1 DEF Unfolds
  <2>3. CASE s = {} BY <2>2, <2>3 DEF g
  <2>4. CASE s # {}
    <3> DEFINE t == s \ {Pick(s)}
               h == CHOOSE h : Unfolds(h, f, t)
    <3>1. t \in SUBSET X /\ t # X BY <1>3, <2>4
    <3>2. Unfolds(h, f, t) BY <1>2, <3>1
    <3>3. IsFiniteSet(t) BY <3>1, FS_Subset
    <3> HIDE DEF h
    <3>4. g[t] = h[t] BY <2>1, <3>2, <3>3, FoldsAgree
    <3> QED BY <2>2, <2>4, <3>4 DEF g, h
  <2> QED BY <2>3, <2>4
<1>5. \A s \in SUBSET X : G[s] = IF s = {} THEN 0 ELSE f[Pick(s)] + G[s \ {Pick(s)}]
  <2> TAKE s \in SUBSET X
  <2>1. G[s] = IF s = {} THEN 0 ELSE f[Pick(s)] + Fold(s \ {Pick(s)}) OBVIOUS
  <2>2. s # {} => G[s \ {Pick(s)}] = Fold(s \ {Pick(s)}) BY <1>3, <1>4
  <2> HIDE DEF G, Fold
  <2> QED BY <2>1, <2>2
<1> HIDE DEF Fold
<1>6. G = [s \in SUBSET X |-> IF s = {} THEN 0 ELSE f[Pick(s)] + G[s \ {Pick(s)}]]
  <2>1. G = [s \in SUBSET X |-> G[s]] OBVIOUS
  <2> HIDE DEF G
  <2> QED BY <1>5, <2>1
<1> QED BY <1>6 DEF Unfolds

LEMMA SumFolds ==
  ASSUME NEW f, NEW S, IsFiniteSet(S)
  PROVE  /\ SumOver(f, {}) = 0
         /\ S # {} => SumOver(f, S) = f[Pick(S)] + SumOver(f, S \ {Pick(S)})
<1> DEFINE Fold(T) == CHOOSE g : Unfolds(g, f, T)
<1>1. ASSUME NEW T, IsFiniteSet(T) PROVE Unfolds(Fold(T), f, T) /\ SumOver(f, T) = Fold(T)[T]
  BY <1>1, FoldExists, SumIsFold
<1> HIDE DEF Fold
<1>2. SumOver(f, {}) = 0
  BY <1>1, FS_EmptySet DEF Unfolds
<1>3. ASSUME S # {} PROVE SumOver(f, S) = f[Pick(S)] + SumOver(f, S \ {Pick(S)})
  <2> DEFINE T == S \ {Pick(S)}
  <2>1. IsFiniteSet(T) BY FS_Subset
  <2>2. Fold(S)[S] = f[Pick(S)] + Fold(S)[T] BY <1>1, <1>3 DEF Unfolds
  <2>3. Fold(S)[T] = Fold(T)[T] BY <1>1, <2>1, FoldsAgree
  <2> QED BY <1>1, <2>1, <2>2, <2>3
<1> QED BY <1>2, <1>3

LEMMA SumType ==
  ASSUME NEW f, NEW S, IsFiniteSet(S), \A i \in S : f[i] \in Nat
  PROVE  SumOver(f, S) \in Nat
<1> DEFINE Bad == {X \in SUBSET S : SumOver(f, X) \notin Nat}
<1> SUFFICES ASSUME Bad # {} PROVE FALSE OBVIOUS
<1>0. Bad \in SUBSET SUBSET S OBVIOUS
<1>1. PICK X \in Bad : \A Y \in Bad : Y \subseteq X => ~(Y # X)
  <2> HIDE DEF Bad
  <2> QED BY <1>0, SmallestSubset
<1>2. IsFiniteSet(X) BY FS_Subset
<1>3. X # {}
  <2> SUFFICES ASSUME X = {} PROVE FALSE OBVIOUS
  <2>1. SumOver(f, X) = 0 BY <1>2, SumFolds
  <2> QED BY <2>1
<1>4. X \ {Pick(X)} \notin Bad BY <1>1, <1>3, PickIn
<1>5. SumOver(f, X \ {Pick(X)}) \in Nat BY <1>4
<1>6. Pick(X) \in S BY <1>3, PickIn
<1> QED BY <1>2, <1>3, <1>5, <1>6, SumFolds

(* Any element may be taken out of a sum.                                  *)
LEMMA SumRemove ==
  ASSUME NEW f, NEW S, IsFiniteSet(S), \A i \in S : f[i] \in Nat, NEW e \in S
  PROVE  SumOver(f, S) = f[e] + SumOver(f, S \ {e})
<1> DEFINE Bad == {X \in SUBSET S : \E x \in X : SumOver(f, X) # f[x] + SumOver(f, X \ {x})}
<1> SUFFICES ASSUME Bad # {} PROVE FALSE OBVIOUS
<1>0. Bad \in SUBSET SUBSET S OBVIOUS
<1>1. PICK X \in Bad : \A Y \in Bad : Y \subseteq X => ~(Y # X)
  <2> HIDE DEF Bad
  <2> QED BY <1>0, SmallestSubset
<1>2. PICK x \in X : SumOver(f, X) # f[x] + SumOver(f, X \ {x}) OBVIOUS
<1> DEFINE p == Pick(X)
           Y == X \ {p}
           Z == X \ {x}
<1>3. IsFiniteSet(X) BY FS_Subset
<1>4. p \in X /\ SumOver(f, X) = f[p] + SumOver(f, Y) BY <1>2, <1>3, SumFolds, PickIn
<1>5. p # x BY <1>2, <1>4
<1> HIDE DEF p
<1>6. Y \notin Bad /\ Z \notin Bad BY <1>1, <1>2, <1>4
<1>7. SumOver(f, Y) = f[x] + SumOver(f, Y \ {x}) BY <1>2, <1>5, <1>6
<1>8. SumOver(f, Z) = f[p] + SumOver(f, Z \ {p}) BY <1>4, <1>5, <1>6
<1>9. SumOver(f, Y \ {x}) = SumOver(f, Z \ {p})
  <2>1. Y \ {x} = Z \ {p} OBVIOUS
  <2> QED BY <2>1, Zenon
<1>10. SumOver(f, Y \ {x}) \in Nat
  <2>1. IsFiniteSet(Y \ {x}) BY <1>3, FS_Subset
  <2> QED BY <2>1, SumType
<1>11. f[p] \in Nat /\ f[x] \in Nat BY <1>2, <1>4
<1> HIDE DEF Y, Z
<1>12. SumOver(f, X) = f[x] + SumOver(f, Z) BY <1>4, <1>7, <1>8, <1>9, <1>10, <1>11
<1> QED BY <1>2, <1>12 DEF Z

LEMMA SumAtLeast ==
  ASSUME NEW f, NEW S, IsFiniteSet(S), \A i \in S : f[i] \in Nat, NEW e \in S
  PROVE  SumOver(f, S) >= f[e]
<1>1. IsFiniteSet(S \ {e}) BY FS_Subset
<1>2. SumOver(f, S \ {e}) \in Nat BY <1>1, SumType
<1> QED BY <1>2, SumRemove

LEMMA SumUnion ==
  ASSUME NEW f, NEW A, NEW B, IsFiniteSet(A), IsFiniteSet(B), A \cap B = {},
         \A i \in A \cup B : f[i] \in Nat
  PROVE  SumOver(f, A \cup B) = SumOver(f, A) + SumOver(f, B)
<1> DEFINE Bad == {X \in SUBSET A : SumOver(f, X \cup B) # SumOver(f, X) + SumOver(f, B)}
<1> SUFFICES ASSUME Bad # {} PROVE FALSE OBVIOUS
<1>0. Bad \in SUBSET SUBSET A OBVIOUS
<1>1. PICK X \in Bad : \A Y \in Bad : Y \subseteq X => ~(Y # X)
  <2> HIDE DEF Bad
  <2> QED BY <1>0, SmallestSubset
<1>2. IsFiniteSet(X) /\ IsFiniteSet(X \cup B) BY FS_Subset, FS_Union
<1>3. SumOver(f, B) \in Nat BY SumType
<1>4. X # {}
  <2> SUFFICES ASSUME X = {} PROVE FALSE OBVIOUS
  <2>1. X \cup B = B OBVIOUS
  <2>2. SumOver(f, X) = 0 BY SumFolds, <1>2
  <2> QED BY <1>3, <2>1, <2>2
<1>5. PICK x \in X : TRUE BY <1>4
<1> DEFINE Y == X \ {x}
<1>6. Y \notin Bad BY <1>1
<1>7. SumOver(f, Y \cup B) = SumOver(f, Y) + SumOver(f, B) BY <1>6
<1>8. SumOver(f, X) = f[x] + SumOver(f, Y) BY <1>2, SumRemove
<1>9. (X \cup B) \ {x} = Y \cup B OBVIOUS
<1>10. SumOver(f, X \cup B) = f[x] + SumOver(f, Y \cup B)
  <2>1. x \in X \cup B /\ \A i \in X \cup B : f[i] \in Nat OBVIOUS
  <2> QED BY <1>2, <1>9, <2>1, SumRemove
<1>11. SumOver(f, Y) \in Nat
  <2>1. IsFiniteSet(Y) BY <1>2, FS_Subset
  <2> QED BY <2>1, SumType
<1>12. f[x] \in Nat OBVIOUS
<1> HIDE DEF Y
<1>13. SumOver(f, X \cup B) = SumOver(f, X) + SumOver(f, B) BY <1>3, <1>7, <1>8, <1>10, <1>11, <1>12
<1> QED BY <1>13

LEMMA SumSubset ==
  ASSUME NEW f, NEW S, IsFiniteSet(S), \A i \in S : f[i] \in Nat, NEW T \in SUBSET S
  PROVE  /\ SumOver(f, T) <= SumOver(f, S)
         /\ SumOver(f, S) = SumOver(f, T) + SumOver(f, S \ T)
<1>1. IsFiniteSet(T) /\ IsFiniteSet(S \ T) BY FS_Subset
<1>2. T \cup (S \ T) = S OBVIOUS
<1>3. T \cap (S \ T) = {} OBVIOUS
<1>4. \A i \in T \cup (S \ T) : f[i] \in Nat OBVIOUS
<1>5. SumOver(f, T \cup (S \ T)) = SumOver(f, T) + SumOver(f, S \ T)
  BY <1>1, <1>3, <1>4, SumUnion
<1>6. SumOver(f, T) \in Nat /\ SumOver(f, S \ T) \in Nat BY <1>1, SumType
<1>7. SumOver(f, S) = SumOver(f, T) + SumOver(f, S \ T) BY <1>2, <1>5, Zenon
<1> QED BY <1>6, <1>7

(* What holds of every term, up to a correction, holds of the sums.         *)
LEMMA SumBelow ==
  ASSUME NEW f, NEW g, NEW h, NEW S, IsFiniteSet(S),
         \A i \in S : f[i] \in Nat /\ g[i] \in Nat /\ h[i] \in Nat /\ f[i] <= g[i] + h[i]
  PROVE  SumOver(f, S) <= SumOver(g, S) + SumOver(h, S)
<1> DEFINE Bad == {X \in SUBSET S : ~(SumOver(f, X) <= SumOver(g, X) + SumOver(h, X))}
<1> SUFFICES ASSUME Bad # {} PROVE FALSE OBVIOUS
<1>0. Bad \in SUBSET SUBSET S OBVIOUS
<1>1. PICK X \in Bad : \A Y \in Bad : Y \subseteq X => ~(Y # X)
  <2> HIDE DEF Bad
  <2> QED BY <1>0, SmallestSubset
<1>2. IsFiniteSet(X) BY FS_Subset
<1>3. X # {}
  <2> SUFFICES ASSUME X = {} PROVE FALSE OBVIOUS
  <2>1. SumOver(f, X) = 0 /\ SumOver(g, X) = 0 /\ SumOver(h, X) = 0 BY <1>2, SumFolds
  <2> QED BY <2>1
<1>4. PICK x \in X : TRUE BY <1>3
<1> DEFINE Y == X \ {x}
<1>5. Y \notin Bad BY <1>1
<1>6. SumOver(f, Y) <= SumOver(g, Y) + SumOver(h, Y) BY <1>5
<1>7. /\ SumOver(f, X) = f[x] + SumOver(f, Y)
      /\ SumOver(g, X) = g[x] + SumOver(g, Y)
      /\ SumOver(h, X) = h[x] + SumOver(h, Y)
  BY <1>2, SumRemove
<1>8. SumOver(f, Y) \in Nat /\ SumOver(g, Y) \in Nat /\ SumOver(h, Y) \in Nat
  <2>1. IsFiniteSet(Y) BY <1>2, FS_Subset
  <2> QED BY <2>1, SumType
<1>9. f[x] \in Nat /\ g[x] \in Nat /\ h[x] \in Nat /\ f[x] <= g[x] + h[x] OBVIOUS
<1> HIDE DEF Y
<1>10. SumOver(f, X) <= SumOver(g, X) + SumOver(h, X) BY <1>6, <1>7, <1>8, <1>9
<1> QED BY <1>10

LEMMA SumSame ==
  ASSUME NEW f, NEW g, NEW S, IsFiniteSet(S), \A i \in S : f[i] = g[i]
  PROVE  SumOver(f, S) = SumOver(g, S)
<1> DEFINE Bad == {X \in SUBSET S : SumOver(f, X) # SumOver(g, X)}
<1> SUFFICES ASSUME Bad # {} PROVE FALSE OBVIOUS
<1>0. Bad \in SUBSET SUBSET S OBVIOUS
<1>1. PICK X \in Bad : \A Y \in Bad : Y \subseteq X => ~(Y # X)
  <2> HIDE DEF Bad
  <2> QED BY <1>0, SmallestSubset
<1>2. IsFiniteSet(X) BY FS_Subset
<1>3. X # {}
  <2> SUFFICES ASSUME X = {} PROVE FALSE OBVIOUS
  <2>1. SumOver(f, X) = 0 /\ SumOver(g, X) = 0 BY <1>2, SumFolds
  <2> QED BY <2>1
<1>4. Pick(X) \in X BY <1>3, PickIn
<1>5. X \ {Pick(X)} \notin Bad BY <1>1, <1>4
<1>6. SumOver(f, X \ {Pick(X)}) = SumOver(g, X \ {Pick(X)}) BY <1>5
<1>7. f[Pick(X)] = g[Pick(X)] BY <1>4
<1>8. SumOver(f, X) = SumOver(g, X) BY <1>2, <1>3, <1>6, <1>7, SumFolds
<1> QED BY <1>8

-----------------------------------------------------------------------------
(* Minima and maxima exist.                                                *)
LEMMA MinProperties ==
  ASSUME NEW S \in SUBSET Nat, S # {}
  PROVE  Min(S) \in S /\ \A y \in S : Min(S) <= y
<1> DEFINE R == OpToRel(<, Nat)
<1>1. IsWellFoundedOn(R, Nat) BY NatLessThanWellFounded
<1>2. \A i, j \in Nat : i < j => <<i, j>> \in R BY DEF OpToRel
<1> HIDE DEF R
<1>3. PICK x \in S : \A y \in S : ~(<<y, x>> \in R) BY <1>1, WFMin
<1>4. \A y \in S : x <= y
  <2> TAKE y \in S
  <2>1. x \in Nat /\ y \in Nat OBVIOUS
  <2>2. ~(y < x) BY <1>2, <1>3, <2>1
  <2> QED BY <2>1, <2>2
<1> QED BY <1>4 DEF Min

LEMMA MaxProperties ==
  ASSUME NEW n \in Nat, NEW S \in SUBSET (0 .. n), S # {}
  PROVE  Max(S) \in S /\ \A y \in S : y <= Max(S)
<1> DEFINE T == {n - x : x \in S}
<1>0. \A x \in S : n - x \in Nat OBVIOUS
<1>1. T \in SUBSET Nat /\ T # {} BY <1>0
<1> DEFINE m == Min(T)
<1>2. m \in T /\ \A y \in T : m <= y
  <2> HIDE DEF T
  <2> QED BY <1>1, MinProperties
<1> HIDE DEF m
<1>3. PICK x \in S : m = n - x BY <1>2
<1>4. \A y \in S : x >= y
  <2> TAKE y \in S
  <2>1. n - y \in T OBVIOUS
  <2>2. m <= n - y BY <1>2, <2>1
  <2> QED BY <1>3, <2>2
<1> QED BY <1>4 DEF Max

LEMMA PairBounds ==
  ASSUME NEW a \in Int, NEW b \in Int
  PROVE  /\ Max({a, b}) = IF a >= b THEN a ELSE b
         /\ Min({a, b}) = IF a <= b THEN a ELSE b
  BY DEF Max, Min

-----------------------------------------------------------------------------
(* Estimates and sizes are natural numbers.                                *)
LEMMA CeilDivType ==
  ASSUME NEW a \in Nat, NEW b \in Nat \ {0}
  PROVE  CeilDiv(a, b) \in Nat
  BY DEF CeilDiv

LEMMA TextTokensType == ASSUME NEW t \in Texts PROVE TextTokens(t) \in Nat
<1>1. t.ascii \in Nat /\ t.alphabetic \in Nat /\ t.other \in Nat BY DEF Texts
<1>2. CeilDiv(t.ascii, AsciiPerToken) \in Nat BY <1>1, CeilDivType, PlanAssumption
<1> QED BY <1>1, <1>2 DEF TextTokens

LEMMA PositionsFinite ==
  ASSUME NEW T, NEW log \in Seq(T)
  PROVE  /\ DOMAIN log = 1 .. Len(log) /\ Len(log) \in Nat
         /\ IsFiniteSet(DOMAIN log)
         /\ \A W \in SUBSET DOMAIN log : IsFiniteSet(W)
<1>1. DOMAIN log = 1 .. Len(log) /\ Len(log) \in Nat OBVIOUS
<1>2. IsFiniteSet(1 .. Len(log)) BY <1>1, FS_Interval
<1> QED BY <1>1, <1>2, FS_Subset

LEMMA MessageTokensType == ASSUME NEW m \in MessageRecords PROVE MessageTokens(m) \in Nat \ {0}
<1>1. m.text \in Texts /\ m.calls \in Seq(Texts) /\ m.answers \in Seq(Texts)
  BY DEF MessageRecords
<1> DEFINE calls == [i \in DOMAIN m.calls |-> CallOverhead + TextTokens(m.calls[i])]
           answers == [i \in DOMAIN m.answers |-> TextTokens(m.answers[i])]
<1>2. IsFiniteSet(DOMAIN m.calls) /\ IsFiniteSet(DOMAIN m.answers)
  BY <1>1, PositionsFinite
<1>3. \A i \in DOMAIN m.calls : calls[i] \in Nat
  <2> TAKE i \in DOMAIN m.calls
  <2>1. m.calls[i] \in Texts BY <1>1
  <2> QED BY <2>1, TextTokensType, PlanAssumption
<1>4. \A i \in DOMAIN m.answers : answers[i] \in Nat
  <2> TAKE i \in DOMAIN m.answers
  <2>1. m.answers[i] \in Texts BY <1>1
  <2> QED BY <2>1, TextTokensType
<1> HIDE DEF calls, answers
<1>5. /\ SumOver(calls, DOMAIN m.calls) \in Nat
      /\ SumOver(answers, DOMAIN m.answers) \in Nat
  BY <1>2, <1>3, <1>4, SumType
<1>6. TextTokens(m.text) \in Nat BY <1>1, TextTokensType
<1>7. MessageTokens(m) = MessageOverhead + TextTokens(m.text)
        + SumOver(calls, DOMAIN m.calls) + SumOver(answers, DOMAIN m.answers)
  BY DEF MessageTokens, calls, answers
<1>8. MessageOverhead \in Nat \ {0} BY PlanAssumption
<1> QED BY <1>5, <1>6, <1>7, <1>8

LEMMA FixedType == Fixed \in Nat
<1> DEFINE tools == [i \in DOMAIN Request.tools |-> ToolOverhead + TextTokens(Request.tools[i])]
<1>1. Request.tools \in Seq(Texts) BY PlanAssumption
<1>2. IsFiniteSet(DOMAIN Request.tools) BY <1>1, PositionsFinite
<1>3. \A i \in DOMAIN Request.tools : tools[i] \in Nat
  <2> TAKE i \in DOMAIN Request.tools
  <2>1. TextTokens(Request.tools[i]) \in Nat BY <1>1, TextTokensType
  <2>2. ToolOverhead \in Nat BY PlanAssumption
  <2> QED BY <2>1, <2>2
<1> HIDE DEF tools
<1>4. SumOver(tools, DOMAIN Request.tools) \in Nat BY <1>2, <1>3, SumType
<1> QED BY <1>4, PlanAssumption DEF Fixed, tools

-----------------------------------------------------------------------------
(* Turns.  A transcript has a message after its instructions, and a        *)
(* message is at least one token.                                          *)
Transcript(log) ==
  /\ log \in Seq(MessageRecords)
  /\ \A i \in DOMAIN log : log[i].tokens \in Nat \ {0}
  /\ \E i \in DOMAIN log : log[i].role # "system"

Rest(log) == DOMAIN log \ System(log)
After(log, i) == {t \in TurnStarts(log) : t > i}

LEMMA TranscriptPositions ==
  ASSUME NEW log, Transcript(log)
  PROVE  /\ DOMAIN log = 1 .. Len(log) /\ Len(log) \in Nat \ {0}
         /\ \A i \in DOMAIN log : i \in Nat /\ 1 <= i /\ i <= Len(log)
         /\ IsFiniteSet(DOMAIN log)
         /\ \A W \in SUBSET DOMAIN log : IsFiniteSet(W)
<1>1. /\ DOMAIN log = 1 .. Len(log) /\ Len(log) \in Nat /\ DOMAIN log # {}
      /\ IsFiniteSet(DOMAIN log) /\ \A W \in SUBSET DOMAIN log : IsFiniteSet(W)
  BY PositionsFinite DEF Transcript
<1>2. \A i \in 1 .. Len(log) : i \in Nat /\ 1 <= i /\ i <= Len(log) BY <1>1
<1>3. Len(log) # 0 BY <1>1
<1> QED BY <1>1, <1>2, <1>3

(* The instructions come first: what follows a later message is no         *)
(* instruction either.                                                     *)
LEMMA RestClosed ==
  ASSUME NEW log, Transcript(log)
  PROVE  /\ Rest(log) # {} /\ Rest(log) \subseteq 1 .. Len(log)
         /\ Min(Rest(log)) \in Rest(log)
         /\ \A i \in DOMAIN log : i \in Rest(log) <=> i >= Min(Rest(log))
<1>1. DOMAIN log = 1 .. Len(log) /\ Len(log) \in Nat BY TranscriptPositions
<1>2. Rest(log) # {}
  <2>1. PICK i \in DOMAIN log : log[i].role # "system" BY DEF Transcript
  <2>2. i \in 1 .. i BY <1>1
  <2> QED BY <2>1, <2>2 DEF Rest, System
<1>3. Rest(log) \subseteq 1 .. Len(log) BY <1>1 DEF Rest
<1>4. Min(Rest(log)) \in Rest(log) /\ \A i \in Rest(log) : Min(Rest(log)) <= i
  <2>1. Rest(log) \in SUBSET Nat BY <1>3
  <2> QED BY <1>2, <2>1, MinProperties
<1>5. ASSUME NEW i \in DOMAIN log, NEW j \in Rest(log), i >= j PROVE i \in Rest(log)
  <2>1. PICK h \in 1 .. j : log[h].role # "system" BY <1>5 DEF Rest, System
  <2>2. h \in 1 .. i BY <1>1, <1>3, <1>5, <2>1
  <2> QED BY <2>1, <2>2 DEF Rest, System
<1> QED BY <1>2, <1>3, <1>4, <1>5

LEMMA TurnStartsOf ==
  ASSUME NEW log, Transcript(log)
  PROVE  /\ TurnStarts(log) = {i \in Rest(log) : log[i].role = "user" \/ i = Min(Rest(log))}
         /\ TurnStarts(log) \subseteq DOMAIN log /\ IsFiniteSet(TurnStarts(log))
         /\ Turns(log) \in Nat \ {0} /\ Min({1, Turns(log)}) = 1
<1>1. TurnStarts(log) = {i \in Rest(log) : log[i].role = "user" \/ i = Min(Rest(log))}
  BY DEF TurnStarts, Rest
<1>2. TurnStarts(log) \subseteq DOMAIN log BY <1>1 DEF Rest
<1>3. IsFiniteSet(TurnStarts(log)) BY <1>2, TranscriptPositions
<1>4. TurnStarts(log) # {} BY <1>1, RestClosed
<1>5. Turns(log) \in Nat \ {0}
  BY <1>3, <1>4, FS_CardinalityType, FS_EmptySet DEF Turns
<1>6. Min({1, Turns(log)}) = 1
  <2>1. 1 \in Int /\ Turns(log) \in Int /\ 1 <= Turns(log) BY <1>5
  <2>2. Min({1, Turns(log)}) = IF 1 <= Turns(log) THEN 1 ELSE Turns(log)
    BY <2>1, PairBounds, Zenon
  <2> QED BY <2>1, <2>2
<1> QED BY <1>1, <1>2, <1>3, <1>5, <1>6

LEMMA AfterFinite ==
  ASSUME NEW log, Transcript(log), NEW i
  PROVE  /\ IsFiniteSet(After(log, i)) /\ Cardinality(After(log, i)) \in Nat
         /\ After(log, i) \subseteq TurnStarts(log)
<1>1. After(log, i) \subseteq TurnStarts(log) BY DEF After
<1>2. IsFiniteSet(After(log, i)) BY <1>1, TurnStartsOf, FS_Subset
<1> QED BY <1>1, <1>2, FS_CardinalityType

LEMMA SuffixOf ==
  ASSUME NEW log, NEW k
  PROVE  Suffix(log, k) = System(log) \cup {i \in DOMAIN log : Cardinality(After(log, i)) < k}
  BY DEF Suffix, After

(* More turns are more messages, the last one among them.                  *)
LEMMA SuffixGrows ==
  ASSUME NEW log, Transcript(log), NEW k \in Nat \ {0}, NEW l \in Nat, k <= l
  PROVE  /\ Suffix(log, k) \subseteq Suffix(log, l)
         /\ Suffix(log, k) \subseteq DOMAIN log
         /\ System(log) \cup {Len(log)} \subseteq Suffix(log, k)
<1>1. \A i : Cardinality(After(log, i)) < k => Cardinality(After(log, i)) < l
  BY AfterFinite
<1>2. System(log) \subseteq DOMAIN log BY DEF System
<1>3. Len(log) \in DOMAIN log BY TranscriptPositions
<1>4. Cardinality(After(log, Len(log))) < k
  <2>0. \A i \in TurnStarts(log) : ~(i > Len(log))
    <3>1. \A i \in TurnStarts(log) : i \in DOMAIN log BY TurnStartsOf
    <3>2. \A i \in DOMAIN log : ~(i > Len(log)) BY TranscriptPositions
    <3> QED BY <3>1, <3>2
  <2>1. After(log, Len(log)) = {} BY <2>0 DEF After
  <2>2. Cardinality(After(log, Len(log))) = 0 BY <2>1, FS_EmptySet, Zenon
  <2> QED BY <2>2
<1> QED BY <1>1, <1>2, <1>3, <1>4, SuffixOf

(* A suffix is whole turns without a gap.                                  *)
LEMMA SuffixWhole ==
  ASSUME NEW log, Transcript(log), NEW k \in Nat, NEW i \in Rest(log), NEW j \in Rest(log), i < j
  PROVE  /\ i \in Suffix(log, k) => j \in Suffix(log, k)
         /\ (\A h \in i + 1 .. j : log[h].role # "user")
              => (j \in Suffix(log, k) => i \in Suffix(log, k))
<1>0. i \in DOMAIN log /\ j \in DOMAIN log /\ i \notin System(log) /\ j \notin System(log)
  BY DEF Rest
<1>1. i \in 1 .. Len(log) /\ j \in 1 .. Len(log) /\ Len(log) \in Nat
  BY <1>0, TranscriptPositions
<1>2. \A t \in TurnStarts(log) : t \in Nat
  <2>1. \A t \in TurnStarts(log) : t \in DOMAIN log BY TurnStartsOf
  <2> QED BY <2>1, TranscriptPositions
<1>3. After(log, j) \subseteq After(log, i) BY <1>1, <1>2 DEF After
<1>4. Cardinality(After(log, j)) <= Cardinality(After(log, i))
  BY <1>3, AfterFinite, FS_Subset
<1>5. i \in Suffix(log, k) => j \in Suffix(log, k)
  BY <1>0, <1>4, AfterFinite, SuffixOf
<1>6. ASSUME \A h \in i + 1 .. j : log[h].role # "user"
      PROVE  After(log, i) = After(log, j)
  <2>1. ASSUME NEW t \in TurnStarts(log), t > i, ~(t > j) PROVE FALSE
    <3>1. t \in i + 1 .. j BY <1>1, <1>2, <2>1
    <3>2. t = Min(Rest(log)) BY <1>6, <3>1, TurnStartsOf
    <3>3. i >= t BY <1>0, <3>2, RestClosed
    <3> QED BY <1>1, <1>2, <2>1, <3>3
  <2>2. After(log, i) \subseteq After(log, j) BY <2>1 DEF After
  <2> QED BY <1>3, <2>2
<1>7. (\A h \in i + 1 .. j : log[h].role # "user")
        => Cardinality(After(log, i)) = Cardinality(After(log, j))
  BY <1>6, Zenon
<1>8. (\A h \in i + 1 .. j : log[h].role # "user")
        => (j \in Suffix(log, k) => i \in Suffix(log, k))
  BY <1>0, <1>7, SuffixOf
<1> QED BY <1>5, <1>8

(* A transcript grows by messages after its own, of which only the first   *)
(* may open a turn.                                                        *)
Grown(log, longer) ==
  /\ longer \in Seq(MessageRecords) /\ Len(longer) > Len(log)
  /\ \A i \in DOMAIN log : longer[i] = log[i]
  /\ \A i \in Len(log) + 1 .. Len(longer) :
       /\ longer[i].role # "system" /\ longer[i].tokens \in Nat \ {0}
       /\ i > Len(log) + 1 => longer[i].role # "user"

Opened(log, longer) == IF longer[Len(log) + 1].role = "user" THEN 1 ELSE 0

(* Appending messages adds them to every suffix; a prompt opens a turn.    *)
LEMMA SuffixGrown ==
  ASSUME NEW log, Transcript(log), NEW longer, Grown(log, longer), NEW k \in Nat \ {0}
  PROVE  LET opened == Opened(log, longer)
         IN /\ Transcript(longer)
            /\ System(longer) = System(log)
            /\ Turns(longer) = Turns(log) + opened
            /\ Suffix(longer, k + opened) = Suffix(log, k) \cup (Len(log) + 1 .. Len(longer))
<1> DEFINE opened == Opened(log, longer)
           n == Len(log) + 1
           more == n .. Len(longer)
<1>1. /\ DOMAIN log = 1 .. Len(log) /\ Len(log) \in Nat /\ Len(log) # 0
      /\ log \in Seq(MessageRecords)
  BY TranscriptPositions DEF Transcript
<1>2. /\ longer \in Seq(MessageRecords) /\ Len(longer) \in Nat /\ Len(longer) >= n
      /\ DOMAIN longer = 1 .. Len(longer) /\ \A i \in DOMAIN log : longer[i] = log[i]
  BY <1>1 DEF Grown
<1>3. /\ DOMAIN longer = DOMAIN log \cup more /\ DOMAIN log \cap more = {} /\ n \in more
      /\ \A i \in more : i \in Nat /\ i >= n /\ (i # n => i > n)
  BY <1>1, <1>2
<1>4. \A i \in more : /\ longer[i].role # "system" /\ longer[i].tokens \in Nat \ {0}
                      /\ i # n => longer[i].role # "user"
  BY <1>3 DEF Grown
<1>5. Transcript(longer)
  BY <1>1, <1>2, <1>3, <1>4 DEF Transcript
<1> HIDE DEF more
<1>6. System(longer) = System(log)
  <2>1. ASSUME NEW i \in DOMAIN log PROVE i \in System(longer) <=> i \in System(log)
    <3>1. \A j \in 1 .. i : j \in DOMAIN log BY <1>1
    <3>2. \A j \in 1 .. i : longer[j] = log[j] BY <1>2, <3>1
    <3> QED BY <1>3, <3>2 DEF System
  <2>2. ASSUME NEW i \in more PROVE i \notin System(longer)
    <3>1. i \in 1 .. i BY <1>1, <1>3
    <3> QED BY <1>4, <3>1 DEF System
  <2>3. System(longer) \subseteq DOMAIN longer /\ System(log) \subseteq DOMAIN log BY DEF System
  <2> QED BY <1>3, <2>1, <2>2, <2>3
<1>7. Rest(longer) = Rest(log) \cup more
  <2>1. System(log) \subseteq DOMAIN log BY DEF System
  <2> QED BY <1>3, <1>6, <2>1 DEF Rest
<1>8. Min(Rest(longer)) = Min(Rest(log))
  <2> DEFINE a == Min(Rest(longer))
             b == Min(Rest(log))
  <2>1. b \in Rest(log) /\ b \in 1 .. Len(log) BY RestClosed
  <2>2. /\ a \in Rest(longer) /\ a \in 1 .. Len(longer)
        /\ \A i \in DOMAIN longer : i \in Rest(longer) <=> i >= a
    BY <1>5, RestClosed
  <2>3. \A i \in DOMAIN log : i \in Rest(log) <=> i >= b BY RestClosed
  <2> HIDE DEF a, b
  <2>4. b >= a BY <1>1, <1>3, <1>7, <2>1, <2>2
  <2>5. a \notin more BY <1>1, <1>3, <2>1, <2>2, <2>4
  <2>6. a \in Rest(log) /\ a \in DOMAIN log BY <1>7, <2>2, <2>5 DEF Rest
  <2>7. a >= b BY <2>3, <2>6
  <2>8. a = b BY <1>1, <1>2, <2>1, <2>2, <2>4, <2>7
  <2> QED BY <2>8 DEF a, b
<1>9. TurnStarts(longer)
        = TurnStarts(log) \cup (IF longer[n].role = "user" THEN {n} ELSE {})
  <2>1. Rest(log) \subseteq DOMAIN log /\ Min(Rest(log)) \in Rest(log) BY RestClosed DEF Rest
  <2>2. Min(Rest(log)) \notin more BY <1>3, <2>1
  <2>3. TurnStarts(longer) = {i \in Rest(longer) : longer[i].role = "user" \/ i = Min(Rest(longer))}
    BY <1>5, TurnStartsOf
  <2>4. TurnStarts(log) = {i \in Rest(log) : log[i].role = "user" \/ i = Min(Rest(log))}
    BY TurnStartsOf
  <2>5. \A i \in Rest(log) : i \in TurnStarts(longer) <=> i \in TurnStarts(log)
    BY <1>2, <1>7, <1>8, <2>1, <2>3, <2>4
  <2>6. \A i \in more : i \in TurnStarts(longer) <=> i = n /\ longer[n].role = "user"
    BY <1>4, <1>7, <1>8, <2>2, <2>3
  <2>7. \A i \in more : i \notin TurnStarts(log) BY <1>3, <2>1, <2>4
  <2>8. TurnStarts(longer) \subseteq Rest(log) \cup more /\ TurnStarts(log) \subseteq Rest(log)
    BY <1>7, <2>3, <2>4
  <2> HIDE DEF n
  <2>9. ASSUME NEW i
        PROVE  i \in TurnStarts(longer)
                 <=> i \in TurnStarts(log) \cup (IF longer[n].role = "user" THEN {n} ELSE {})
    BY <1>3, <2>5, <2>6, <2>7, <2>8
  <2> QED BY <2>9
<1>10. IsFiniteSet(TurnStarts(log)) /\ n \notin TurnStarts(log)
  BY <1>3, TurnStartsOf
<1>11. opened = IF longer[n].role = "user" THEN 1 ELSE 0 BY DEF Opened
<1> HIDE DEF opened
<1>12. Turns(longer) = Turns(log) + opened
  <2>1. CASE longer[n].role = "user"
    <3>1. TurnStarts(longer) = TurnStarts(log) \cup {n} BY <1>9, <2>1
    <3>2. Cardinality(TurnStarts(log) \cup {n}) = Cardinality(TurnStarts(log)) + 1
      BY <1>10, FS_AddElement
    <3>3. Cardinality(TurnStarts(longer)) = Cardinality(TurnStarts(log)) + 1
      BY <3>1, <3>2, Zenon
    <3> QED BY <1>11, <2>1, <3>3 DEF Turns
  <2>2. CASE longer[n].role # "user"
    <3>1. TurnStarts(longer) = TurnStarts(log) BY <1>9, <2>2
    <3>2. Cardinality(TurnStarts(longer)) = Cardinality(TurnStarts(log)) BY <3>1, Zenon
    <3>3. Turns(log) \in Nat BY TurnStartsOf
    <3> QED BY <1>11, <2>2, <3>2, <3>3 DEF Turns
  <2> QED BY <2>1, <2>2
<1>13. \A i \in DOMAIN log :
         Cardinality(After(longer, i)) = Cardinality(After(log, i)) + opened
  <2> TAKE i \in DOMAIN log
  <2>1. n > i BY <1>1
  <2>2. IsFiniteSet(After(log, i)) /\ Cardinality(After(log, i)) \in Nat BY AfterFinite
  <2>3. CASE longer[n].role = "user"
    <3>1. After(longer, i) = After(log, i) \cup {n} BY <1>9, <2>1, <2>3 DEF After
    <3>2. n \notin After(log, i) BY <1>10 DEF After
    <3>3. Cardinality(After(log, i) \cup {n}) = Cardinality(After(log, i)) + 1
      BY <2>2, <3>2, FS_AddElement
    <3>4. Cardinality(After(longer, i)) = Cardinality(After(log, i)) + 1 BY <3>1, <3>3, Zenon
    <3> QED BY <1>11, <2>3, <3>4
  <2>4. CASE longer[n].role # "user"
    <3>1. After(longer, i) = After(log, i) BY <1>9, <2>4 DEF After
    <3>2. Cardinality(After(longer, i)) = Cardinality(After(log, i)) BY <3>1, Zenon
    <3> QED BY <1>11, <2>2, <2>4, <3>2
  <2> QED BY <2>3, <2>4
<1>14. opened \in Nat BY <1>11
<1>15. ASSUME NEW i \in more PROVE i \in Suffix(longer, k + opened)
  <2>1. \A t \in TurnStarts(log) : t \in DOMAIN log BY TurnStartsOf
  <2>2. \A t \in TurnStarts(longer) : t \in DOMAIN log \/ t = n BY <1>9, <2>1
  <2>3. \A t \in TurnStarts(longer) : ~(t > i) BY <1>1, <1>3, <2>2
  <2>4. After(longer, i) = {} BY <2>3 DEF After
  <2>5. Cardinality(After(longer, i)) = 0 BY <2>4, FS_EmptySet, Zenon
  <2>6. Cardinality(After(longer, i)) < k + opened BY <1>14, <2>5
  <2> QED BY <1>3, <2>6, SuffixOf
<1>16. Suffix(longer, k + opened) = Suffix(log, k) \cup more
  <2>1. \A i \in DOMAIN log : i \in Suffix(longer, k + opened) <=> i \in Suffix(log, k)
    <3> TAKE i \in DOMAIN log
    <3>1. Cardinality(After(log, i)) \in Nat BY AfterFinite
    <3>2. Cardinality(After(longer, i)) = Cardinality(After(log, i)) + opened BY <1>13
    <3>3. Cardinality(After(longer, i)) < k + opened <=> Cardinality(After(log, i)) < k
      BY <1>14, <3>1, <3>2
    <3> QED BY <1>3, <1>6, <3>3, SuffixOf
  <2>2. Suffix(longer, k + opened) \subseteq DOMAIN longer
    <3>1. k + opened \in Nat \ {0} BY <1>14
    <3> QED BY <1>5, <3>1, SuffixGrows
  <2>3. Suffix(log, k) \subseteq DOMAIN log BY SuffixGrows
  <2> QED BY <1>3, <1>15, <2>1, <2>2, <2>3
<1> QED BY <1>5, <1>6, <1>12, <1>16 DEF opened, more

-----------------------------------------------------------------------------
(* What the provider counts, and the estimates of it.                      *)
TokensOf(log) == [i \in DOMAIN log |-> log[i].tokens]
Tokens(log, window) == TemplateTokens + SumOver(TokensOf(log), window)

(* How far the estimates fall short of them.                               *)
BeyondsOf(log) == [i \in DOMAIN log |-> Beyond(log[i].tokens, MessageTokens(log[i]))]

Short(log, seen, window) ==
  IF seen # Unknown /\ seen.indices \subseteq window
  THEN SumOver(BeyondsOf(log), window \ seen.indices)
  ELSE Beyond(TemplateTokens, Fixed) + SumOver(BeyondsOf(log), window)

(* An observation is the exact count of a prompt that was some last turns  *)
(* of the transcript of its time: with what came since, it still is.       *)
Seen(log, seen) ==
  seen # Unknown =>
    /\ seen.indices \in SUBSET DOMAIN log /\ seen.indices # {}
    /\ seen.tokens = Tokens(log, seen.indices)
    /\ \E k \in 1 .. Turns(log) :
         seen.indices \cup {i \in DOMAIN log : i > Max(seen.indices)} = Suffix(log, k)

LEMMA BeyondOf ==
  ASSUME NEW a \in Nat, NEW b \in Nat
  PROVE  Beyond(a, b) \in Nat /\ a <= b + Beyond(a, b)
  BY DEF Beyond

LEMMA WindowSums ==
  ASSUME NEW log, Transcript(log), NEW W \in SUBSET DOMAIN log
  PROVE  /\ SumOver(TokensOf(log), W) \in Nat /\ SumOver(Estimates(log), W) \in Nat
         /\ SumOver(BeyondsOf(log), W) \in Nat
         /\ SumOver(TokensOf(log), W) <= SumOver(Estimates(log), W) + SumOver(BeyondsOf(log), W)
         /\ W # {} => SumOver(TokensOf(log), W) >= 1 /\ SumOver(Estimates(log), W) >= 1
<1>1. IsFiniteSet(W) BY TranscriptPositions
<1>2. ASSUME NEW i \in W
      PROVE  /\ TokensOf(log)[i] \in Nat \ {0} /\ Estimates(log)[i] \in Nat \ {0}
             /\ BeyondsOf(log)[i] \in Nat
             /\ TokensOf(log)[i] <= Estimates(log)[i] + BeyondsOf(log)[i]
  <2>1. log[i] \in MessageRecords /\ log[i].tokens \in Nat \ {0}
    BY DEF Transcript
  <2>2. MessageTokens(log[i]) \in Nat \ {0} BY <2>1, MessageTokensType
  <2>3. /\ TokensOf(log)[i] = log[i].tokens /\ Estimates(log)[i] = MessageTokens(log[i])
        /\ BeyondsOf(log)[i] = Beyond(log[i].tokens, MessageTokens(log[i]))
    BY DEF TokensOf, Estimates, BeyondsOf
  <2> QED BY <2>1, <2>2, <2>3, BeyondOf
<1>3. SumOver(TokensOf(log), W) \in Nat BY <1>1, <1>2, SumType
<1>4. SumOver(Estimates(log), W) \in Nat BY <1>1, <1>2, SumType
<1>5. SumOver(BeyondsOf(log), W) \in Nat BY <1>1, <1>2, SumType
<1>6. SumOver(TokensOf(log), W) <= SumOver(Estimates(log), W) + SumOver(BeyondsOf(log), W)
  BY <1>1, <1>2, SumBelow
<1>7. ASSUME NEW i \in W
      PROVE  SumOver(TokensOf(log), W) >= 1 /\ SumOver(Estimates(log), W) >= 1
  <2>1. SumOver(TokensOf(log), W) >= TokensOf(log)[i] BY <1>1, <1>2, SumAtLeast
  <2>2. SumOver(Estimates(log), W) >= Estimates(log)[i] BY <1>1, <1>2, SumAtLeast
  <2> QED BY <1>2, <1>3, <1>4, <2>1, <2>2
<1> QED BY <1>3, <1>4, <1>5, <1>6, <1>7

LEMMA TokensType ==
  ASSUME NEW log, Transcript(log), NEW W \in SUBSET DOMAIN log
  PROVE  Tokens(log, W) \in Nat /\ (W # {} => Tokens(log, W) >= 1)
<1>1. TemplateTokens \in Nat BY ContextAssumption
<1> QED BY <1>1, WindowSums DEF Tokens

(* However it was calibrated, an estimate falls short by no more than the  *)
(* estimates of the messages it adds to a count.                           *)
LEMMA EstimateSound ==
  ASSUME NEW log, Transcript(log), NEW seen, Seen(log, seen), NEW W \in SUBSET DOMAIN log
  PROVE  /\ Estimate(log, seen, W) \in Nat /\ Short(log, seen, W) \in Nat
         /\ Tokens(log, W) <= Estimate(log, seen, W) + Short(log, seen, W)
         /\ W # {} => Estimate(log, seen, W) >= 1
<1>1. /\ TemplateTokens \in Nat /\ Fixed \in Nat /\ Beyond(TemplateTokens, Fixed) \in Nat
      /\ TemplateTokens <= Fixed + Beyond(TemplateTokens, Fixed)
  BY ContextAssumption, FixedType, BeyondOf
<1>2. CASE seen # Unknown /\ seen.indices \subseteq W
  <2> DEFINE V == seen.indices
  <2>1. /\ V \in SUBSET W /\ W \ V \in SUBSET DOMAIN log /\ V \in SUBSET DOMAIN log
        /\ V # {}
    BY <1>2 DEF Seen
  <2>2. /\ Estimate(log, seen, W) = Tokens(log, V) + SumOver(Estimates(log), W \ V)
        /\ Short(log, seen, W) = SumOver(BeyondsOf(log), W \ V)
    BY <1>2 DEF Estimate, Seen, Short
  <2>3. SumOver(TokensOf(log), W) = SumOver(TokensOf(log), V) + SumOver(TokensOf(log), W \ V)
    <3>1. IsFiniteSet(W) BY TranscriptPositions
    <3>2. \A i \in W : TokensOf(log)[i] \in Nat
      <4> TAKE i \in W
      <4>1. log[i].tokens \in Nat \ {0} BY DEF Transcript
      <4> QED BY <4>1 DEF TokensOf
    <3> QED BY <2>1, <3>1, <3>2, SumSubset
  <2> HIDE DEF V
  <2>4. /\ SumOver(TokensOf(log), V) \in Nat /\ SumOver(TokensOf(log), W \ V) \in Nat
        /\ SumOver(Estimates(log), W \ V) \in Nat /\ SumOver(BeyondsOf(log), W \ V) \in Nat
        /\ SumOver(TokensOf(log), W \ V)
             <= SumOver(Estimates(log), W \ V) + SumOver(BeyondsOf(log), W \ V)
    BY <2>1, WindowSums
  <2>5. Tokens(log, V) \in Nat /\ Tokens(log, V) >= 1 BY <2>1, TokensType
  <2>6. /\ Tokens(log, W) = TemplateTokens + SumOver(TokensOf(log), W)
        /\ Tokens(log, V) = TemplateTokens + SumOver(TokensOf(log), V)
    BY DEF Tokens
  <2>7. Tokens(log, W) = Tokens(log, V) + SumOver(TokensOf(log), W \ V)
    BY <1>1, <2>3, <2>4, <2>6
  <2> QED BY <2>2, <2>4, <2>5, <2>7
<1>3. CASE ~(seen # Unknown /\ seen.indices \subseteq W)
  <2>1. /\ Estimate(log, seen, W) = Fixed + SumOver(Estimates(log), W)
        /\ Short(log, seen, W) = Beyond(TemplateTokens, Fixed) + SumOver(BeyondsOf(log), W)
    BY <1>3 DEF Estimate, Short
  <2>2. /\ SumOver(TokensOf(log), W) \in Nat /\ SumOver(Estimates(log), W) \in Nat
        /\ SumOver(BeyondsOf(log), W) \in Nat
        /\ SumOver(TokensOf(log), W) <= SumOver(Estimates(log), W) + SumOver(BeyondsOf(log), W)
        /\ W # {} => SumOver(Estimates(log), W) >= 1
    BY WindowSums
  <2>3. Tokens(log, W) = TemplateTokens + SumOver(TokensOf(log), W) BY DEF Tokens
  <2> QED BY <1>1, <2>1, <2>2, <2>3
<1> QED BY <1>2, <1>3

(* What the provider has seen stays seen as the transcript grows.          *)
LEMMA SeenGrown ==
  ASSUME NEW log, Transcript(log), NEW seen, Seen(log, seen), NEW longer, Grown(log, longer)
  PROVE  Seen(longer, seen)
<1> DEFINE V == seen.indices
           opened == Opened(log, longer)
           more == Len(log) + 1 .. Len(longer)
<1> SUFFICES ASSUME seen # Unknown
             PROVE  /\ V \in SUBSET DOMAIN longer /\ V # {}
                    /\ seen.tokens = Tokens(longer, V)
                    /\ \E k \in 1 .. Turns(longer) :
                         V \cup {i \in DOMAIN longer : i > Max(V)} = Suffix(longer, k)
  BY DEF Seen
<1>1. /\ V \in SUBSET DOMAIN log /\ V # {} /\ seen.tokens = Tokens(log, V)
      /\ \E k \in 1 .. Turns(log) : V \cup {i \in DOMAIN log : i > Max(V)} = Suffix(log, k)
  BY DEF Seen
<1>2. DOMAIN log = 1 .. Len(log) /\ Len(log) \in Nat BY TranscriptPositions
<1>3. /\ DOMAIN longer = 1 .. Len(longer) /\ Len(longer) \in Nat /\ Len(longer) > Len(log)
      /\ \A i \in DOMAIN log : longer[i] = log[i]
  BY DEF Grown
<1>4. DOMAIN longer = DOMAIN log \cup more /\ \A i \in more : i \in Nat /\ i > Len(log)
  BY <1>2, <1>3
<1> HIDE DEF V, more, opened
<1>5. Tokens(longer, V) = Tokens(log, V)
  <2>1. IsFiniteSet(V) BY <1>1, TranscriptPositions
  <2>2. \A i \in V : TokensOf(longer)[i] = TokensOf(log)[i]
    BY <1>1, <1>3, <1>4 DEF TokensOf
  <2>3. SumOver(TokensOf(longer), V) = SumOver(TokensOf(log), V) BY <2>1, <2>2, SumSame
  <2> QED BY <2>3 DEF Tokens
<1>6. PICK k \in 1 .. Turns(log) : V \cup {i \in DOMAIN log : i > Max(V)} = Suffix(log, k)
  BY <1>1
<1>7. Max(V) \in DOMAIN log
  <2>1. V \in SUBSET (0 .. Len(log)) BY <1>1, <1>2
  <2> QED BY <1>1, <1>2, <2>1, MaxProperties
<1>8. \A i \in more : i > Max(V)
  <2> TAKE i \in more
  <2>1. i \in Nat /\ i > Len(log) BY <1>4
  <2>2. Max(V) \in Nat /\ Max(V) <= Len(log) BY <1>2, <1>7
  <2> QED BY <1>2, <2>1, <2>2
<1>9. V \cup {i \in DOMAIN longer : i > Max(V)} = Suffix(log, k) \cup more
  <2>1. {i \in DOMAIN longer : i > Max(V)} = {i \in DOMAIN log : i > Max(V)} \cup more
    BY <1>4, <1>8
  <2> QED BY <1>6, <2>1
<1>10. Turns(log) \in Nat /\ k \in Nat \ {0} /\ k <= Turns(log)
  <2>1. Turns(log) \in Nat BY TurnStartsOf
  <2> QED BY <2>1
<1>11. /\ Turns(longer) = Turns(log) + opened
       /\ Suffix(longer, k + opened) = Suffix(log, k) \cup more
  BY <1>10, SuffixGrown, Zenon DEF opened, more
<1>12. opened \in Nat BY DEF opened, Opened
<1>13. k + opened \in 1 .. Turns(longer) BY <1>10, <1>11, <1>12
<1>14. V \cup {i \in DOMAIN longer : i > Max(V)} = Suffix(longer, k + opened)
  BY <1>9, <1>11, Zenon
<1>15. V \in SUBSET DOMAIN longer BY <1>1, <1>4
<1>16. \E l \in 1 .. Turns(longer) : V \cup {i \in DOMAIN longer : i > Max(V)} = Suffix(longer, l)
  BY <1>13, <1>14, Zenon
<1> QED BY <1>1, <1>5, <1>15, <1>16

(* The count of a whole prompt is such an observation.                     *)
LEMMA SeenOf ==
  ASSUME NEW log, Transcript(log), NEW k \in 1 .. Turns(log)
  PROVE  Seen(log, [indices |-> Suffix(log, k), tokens |-> Tokens(log, Suffix(log, k))])
<1> DEFINE V == Suffix(log, k)
<1>1. k \in Nat \ {0} BY TurnStartsOf
<1>2. V \in SUBSET DOMAIN log /\ Len(log) \in V BY <1>1, SuffixGrows
<1> HIDE DEF V
<1>3. \A i \in DOMAIN log : i \in Nat /\ i <= Len(log) BY TranscriptPositions
<1>4. Len(log) \in Nat BY TranscriptPositions
<1>5. Max(V) = Len(log)
  <2>1. V \in SUBSET (0 .. Len(log)) BY <1>2, <1>3, <1>4
  <2>2. Max(V) \in V /\ \A y \in V : y <= Max(V) BY <1>2, <1>4, <2>1, MaxProperties
  <2>3. Max(V) \in Nat /\ Max(V) <= Len(log) /\ Len(log) <= Max(V) BY <1>2, <1>3, <2>2
  <2> QED BY <1>4, <2>3
<1>6. {i \in DOMAIN log : i > Max(V)} = {}
  <2>1. \A i \in DOMAIN log : ~(i > Max(V)) BY <1>3, <1>4, <1>5
  <2> QED BY <2>1
<1>7. V \cup {i \in DOMAIN log : i > Max(V)} = V BY <1>6
<1>8. \E l \in 1 .. Turns(log) : V \cup {i \in DOMAIN log : i > Max(V)} = Suffix(log, l)
  BY <1>7 DEF V
<1> QED BY <1>2, <1>8 DEF Seen, V

-----------------------------------------------------------------------------
(* The choices of plan_context, and the choice it makes.                   *)
Total(log, seen, k) == Estimate(log, seen, Suffix(log, k))

Fitting(log, chars) == {k \in 1 .. Turns(log) : chars[Suffix(log, k)] <= InputLimit}

Roomy(log, seen, capacity, chars) ==
  IF capacity = Unknown THEN Fitting(log, chars)
  ELSE {k \in Fitting(log, chars) : /\ Budget(capacity, Configured) > 0
                                    /\ Total(log, seen, k) <= Budget(capacity, Configured)}

LEMMA PlanCases ==
  ASSUME NEW log, Transcript(log), NEW seen, NEW capacity, NEW chars
  PROVE  PlanContext(log, seen, capacity, chars) =
           IF Roomy(log, seen, capacity, chars) # {}
           THEN PlanOf(log, Max(Roomy(log, seen, capacity, chars)), Configured, Unknown)
           ELSE IF 1 \notin Fitting(log, chars)
           THEN PlanOf(log, 1, Configured, "input_limit_exceeded")
           ELSE IF capacity < SmallContext
           THEN ReducedOutput(log, seen, capacity, Fitting(log, chars))
           ELSE PlanOf(log, 1, Configured, "context_window_exceeded")
<1>1. Min({1, Turns(log)}) = 1 BY TurnStartsOf
<1> QED BY <1>1 DEF PlanContext, Fitting, Roomy, Total

LEMMA MarginType ==
  ASSUME NEW capacity \in Nat
  PROVE  OutputMargin(capacity) \in Nat /\ Budget(capacity, Configured) \in Int
<1>1. CeilDiv(capacity, 20) \in Nat BY CeilDivType
<1>2. OutputMargin(capacity) \in Nat
  <2>1. MarginMin \in Int /\ CeilDiv(capacity, 20) \in Int BY <1>1, PlanAssumption
  <2>2. Max({MarginMin, CeilDiv(capacity, 20)})
          = IF MarginMin >= CeilDiv(capacity, 20) THEN MarginMin ELSE CeilDiv(capacity, 20)
    BY <2>1, PairBounds
  <2> QED BY <1>1, <2>2, PlanAssumption DEF OutputMargin
<1> QED BY <1>2, PlanAssumption DEF Budget

LEMMA FloorBounds ==
  /\ OutputFloorTokens \in Nat \ {0} /\ OutputFloorTokens <= Configured
  /\ Configured \in Nat \ {0}
<1>1. Configured \in Nat \ {0} /\ UsefulOutput \in Nat \ {0} BY PlanAssumption
<1>2. Min({Configured, UsefulOutput})
        = IF Configured <= UsefulOutput THEN Configured ELSE UsefulOutput
  BY <1>1, PairBounds
<1> QED BY <1>1, <1>2 DEF OutputFloorTokens

LEMMA SuffixWindow ==
  ASSUME NEW log, Transcript(log), NEW k \in 1 .. Turns(log)
  PROVE  /\ k \in Nat \ {0} /\ Suffix(log, k) \in SUBSET DOMAIN log /\ Suffix(log, k) # {}
<1>1. Turns(log) \in Nat BY TurnStartsOf
<1>2. k \in Nat \ {0} /\ k <= k BY <1>1
<1>3. /\ Suffix(log, k) \subseteq DOMAIN log
      /\ System(log) \cup {Len(log)} \subseteq Suffix(log, k)
  BY <1>2, SuffixGrows
<1> QED BY <1>2, <1>3

LEMMA TotalType ==
  ASSUME NEW log, Transcript(log), NEW seen, Seen(log, seen), NEW k \in 1 .. Turns(log)
  PROVE  /\ Total(log, seen, k) \in Nat \ {0}
         /\ Short(log, seen, Suffix(log, k)) \in Nat /\ Tokens(log, Suffix(log, k)) \in Nat
         /\ Tokens(log, Suffix(log, k))
              <= Total(log, seen, k) + Short(log, seen, Suffix(log, k))
<1>1. Suffix(log, k) \in SUBSET DOMAIN log /\ Suffix(log, k) # {} BY SuffixWindow
<1> DEFINE W == Suffix(log, k)
<1>2. W \in SUBSET DOMAIN log /\ W # {} BY <1>1
<1> HIDE DEF W
<1>3. /\ Estimate(log, seen, W) \in Nat /\ Estimate(log, seen, W) >= 1
      /\ Short(log, seen, W) \in Nat
      /\ Tokens(log, W) <= Estimate(log, seen, W) + Short(log, seen, W)
  BY <1>2, EstimateSound
<1>4. Tokens(log, W) \in Nat BY <1>2, TokensType
<1> QED BY <1>3, <1>4 DEF W, Total

LEMMA FittingBounds ==
  ASSUME NEW log, Transcript(log), NEW chars, NEW S \in SUBSET Fitting(log, chars), S # {}
  PROVE  /\ Max(S) \in S /\ \A k \in S : k <= Max(S)
         /\ S \subseteq 1 .. Turns(log) /\ Turns(log) \in Nat
<1>1. Turns(log) \in Nat BY TurnStartsOf
<1>2. S \subseteq 1 .. Turns(log) BY DEF Fitting
<1>3. S \in SUBSET (0 .. Turns(log)) BY <1>1, <1>2
<1> QED BY <1>1, <1>2, <1>3, MaxProperties

(* Under pressure: the window that leaves the most output, and the longest *)
(* of those.                                                               *)
LEMMA ReducedCases ==
  ASSUME NEW log, Transcript(log), NEW seen, Seen(log, seen), NEW capacity \in Nat, NEW chars,
         Fitting(log, chars) # {}
  PROVE  \E k \in Fitting(log, chars) :
           LET available == capacity - OutputMargin(capacity) - Total(log, seen, k)
           IN /\ \A other \in Fitting(log, chars) :
                   /\ Total(log, seen, k) <= Total(log, seen, other)
                   /\ Total(log, seen, k) = Total(log, seen, other) => other <= k
              /\ ReducedOutput(log, seen, capacity, Fitting(log, chars)) =
                   IF available >= OutputFloorTokens
                   THEN PlanOf(log, k, Min({Configured, available}), Unknown)
                   ELSE PlanOf(log, 1, Configured, "context_window_exceeded")
<1> DEFINE fitting == Fitting(log, chars)
           totals == {Total(log, seen, k) : k \in fitting}
           least == Min(totals)
           smallest == {k \in fitting : Total(log, seen, k) = least}
           best == Max(smallest)
<1>1. \A k \in fitting : Total(log, seen, k) \in Nat
  <2>1. \A k \in fitting : k \in 1 .. Turns(log) BY DEF Fitting
  <2> HIDE DEF fitting
  <2> QED BY <2>1, TotalType
<1>2. least \in totals /\ \A y \in totals : least <= y
  <2>1. totals \in SUBSET Nat /\ totals # {} BY <1>1
  <2> HIDE DEF totals
  <2> QED BY <2>1, MinProperties
<1> HIDE DEF least
<1>3. smallest # {} /\ smallest \in SUBSET fitting BY <1>2
<1>4. best \in smallest /\ \A k \in smallest : k <= best
  <2> HIDE DEF smallest
  <2> QED BY <1>3, FittingBounds
<1> HIDE DEF best
<1>5. best \in fitting /\ Total(log, seen, best) = least BY <1>4
<1>6. \A other \in fitting :
        /\ Total(log, seen, best) <= Total(log, seen, other)
        /\ Total(log, seen, best) = Total(log, seen, other) => other <= best
  BY <1>2, <1>4, <1>5
<1>7. ReducedOutput(log, seen, capacity, fitting) =
        IF capacity - OutputMargin(capacity) - Total(log, seen, best) >= OutputFloorTokens
        THEN PlanOf(log, best,
                    Min({Configured, capacity - OutputMargin(capacity) - Total(log, seen, best)}),
                    Unknown)
        ELSE PlanOf(log, 1, Configured, "context_window_exceeded")
  <2>1. Min({1, Turns(log)}) = 1 BY TurnStartsOf
  <2>2. ReducedOutput(log, seen, capacity, fitting) =
          IF capacity - OutputMargin(capacity) - least >= OutputFloorTokens
          THEN PlanOf(log, best, Min({Configured, capacity - OutputMargin(capacity) - least}),
                      Unknown)
          ELSE PlanOf(log, 1, Configured, "context_window_exceeded")
    <3> HIDE DEF fitting
    <3> QED BY <2>1, Zenon DEF ReducedOutput, best, least, Total
  <2> HIDE DEF fitting
  <2> QED BY <1>5, <2>2, Zenon
<1> QED BY <1>5, <1>6, <1>7

(* A plan that does not fail keeps whole turns within both limits.         *)
LEMMA PlanSound ==
  ASSUME NEW log, Transcript(log), NEW seen, Seen(log, seen), NEW capacity, NEW chars,
         capacity # Unknown => capacity \in Nat \ {0},
         PlanContext(log, seen, capacity, chars).failure = Unknown
  PROVE  \E k \in Fitting(log, chars) :
           LET made == PlanContext(log, seen, capacity, chars)
           IN /\ made.window = Suffix(log, k)
              /\ capacity # Unknown =>
                   Total(log, seen, k) + made.allocated <= capacity - OutputMargin(capacity)
              /\ made.allocated \in Nat
<1> DEFINE made == PlanContext(log, seen, capacity, chars)
           fitting == Fitting(log, chars)
           roomy == Roomy(log, seen, capacity, chars)
<1>1. Configured \in Nat \ {0} /\ OutputFloorTokens \in Nat BY FloorBounds
<1>2. roomy \in SUBSET fitting BY DEF Roomy
<1>3. made = IF roomy # {} THEN PlanOf(log, Max(roomy), Configured, Unknown)
             ELSE IF 1 \notin fitting THEN PlanOf(log, 1, Configured, "input_limit_exceeded")
             ELSE IF capacity < SmallContext THEN ReducedOutput(log, seen, capacity, fitting)
             ELSE PlanOf(log, 1, Configured, "context_window_exceeded")
  BY PlanCases, Zenon
<1>4. made.failure = Unknown OBVIOUS
<1> HIDE DEF made
<1>5. CASE roomy # {}
  <2> DEFINE k == Max(roomy)
  <2>1. k \in roomy
    <3> HIDE DEF roomy, fitting
    <3>1. roomy \in SUBSET Fitting(log, chars) BY <1>2 DEF fitting
    <3> QED BY <1>5, <3>1, FittingBounds
  <2>2. made.window = Suffix(log, k) /\ made.allocated = Configured
    BY <1>3, <1>5 DEF PlanOf
  <2> HIDE DEF k
  <2>3. k \in fitting BY <1>2, <2>1
  <2>4. ASSUME capacity # Unknown
        PROVE  Total(log, seen, k) + Configured <= capacity - OutputMargin(capacity)
    <3>1. capacity \in Nat /\ OutputMargin(capacity) \in Nat BY <2>4, MarginType
    <3>2. Total(log, seen, k) \in Nat BY <2>3, TotalType DEF Fitting
    <3>3. Total(log, seen, k) <= Budget(capacity, Configured) BY <2>1, <2>4 DEF Roomy
    <3> QED BY <1>1, <3>1, <3>2, <3>3 DEF Budget
  <2> QED BY <1>1, <2>2, <2>3, <2>4 DEF made
<1>6. CASE roomy = {}
  <2>1. 1 \in fitting
    <3> SUFFICES ASSUME 1 \notin fitting PROVE FALSE OBVIOUS
    <3>1. made = PlanOf(log, 1, Configured, "input_limit_exceeded") BY <1>3, <1>6
    <3> QED BY <1>4, <3>1, PlanAssumption DEF PlanOf
  <2>2. capacity # Unknown BY <1>6, <2>1 DEF Roomy
  <2>3. capacity < SmallContext
    <3> SUFFICES ASSUME ~(capacity < SmallContext) PROVE FALSE OBVIOUS
    <3>1. made = PlanOf(log, 1, Configured, "context_window_exceeded") BY <1>3, <1>6, <2>1
    <3> QED BY <1>4, <3>1, PlanAssumption DEF PlanOf
  <2>4. made = ReducedOutput(log, seen, capacity, fitting) BY <1>3, <1>6, <2>1, <2>3
  <2>5. capacity \in Nat /\ OutputMargin(capacity) \in Nat BY <2>2, MarginType
  <2>6. PICK k \in fitting :
          made = IF capacity - OutputMargin(capacity) - Total(log, seen, k) >= OutputFloorTokens
                 THEN PlanOf(log, k,
                        Min({Configured, capacity - OutputMargin(capacity) - Total(log, seen, k)}),
                        Unknown)
                 ELSE PlanOf(log, 1, Configured, "context_window_exceeded")
    <3>1. Fitting(log, chars) # {} BY <2>1
    <3> QED BY <2>4, <2>5, <3>1, ReducedCases
  <2> DEFINE available == capacity - OutputMargin(capacity) - Total(log, seen, k)
  <2>7. available >= OutputFloorTokens
    <3> SUFFICES ASSUME ~(available >= OutputFloorTokens) PROVE FALSE OBVIOUS
    <3>1. made = PlanOf(log, 1, Configured, "context_window_exceeded") BY <2>6
    <3> QED BY <1>4, <3>1, PlanAssumption DEF PlanOf
  <2>8. made.window = Suffix(log, k) /\ made.allocated = Min({Configured, available})
    BY <2>6, <2>7 DEF PlanOf
  <2>9. Total(log, seen, k) \in Nat BY TotalType DEF Fitting
  <2>10. available \in Int BY <2>5, <2>9
  <2> HIDE DEF available
  <2>11. Min({Configured, available}) = IF Configured <= available THEN Configured ELSE available
    BY <1>1, <2>10, PairBounds
  <2>12. made.allocated \in Nat /\ made.allocated <= available
    BY <1>1, <2>7, <2>8, <2>10, <2>11
  <2>13. Total(log, seen, k) + made.allocated <= capacity - OutputMargin(capacity)
    BY <2>5, <2>9, <2>12 DEF available
  <2> QED BY <2>8, <2>12, <2>13 DEF made
<1> QED BY <1>5, <1>6

-----------------------------------------------------------------------------
(* What the adapter serializes, the service's measure covers; a longer     *)
(* window is never the smaller one.                                        *)
LEMMA SizeType ==
  ASSUME NEW log, Transcript(log), NEW W \in SUBSET DOMAIN log
  PROVE  /\ Compact(log, W) \in Nat /\ Spaced(log, W) \in Nat
         /\ Spaced(log, W) - Request.fields \in Nat
         /\ \A V \in SUBSET W : Compact(log, V) <= Compact(log, W) /\ Spaced(log, V) <= Spaced(log, W)
<1> DEFINE compact == [i \in DOMAIN log |-> log[i].compact]
           spaced == [i \in DOMAIN log |-> log[i].spaced]
<1>1. IsFiniteSet(W) BY TranscriptPositions
<1>2. \A i \in W : compact[i] \in Nat /\ spaced[i] \in Nat
  <2> TAKE i \in W
  <2>1. log[i] \in MessageRecords BY DEF Transcript
  <2>2. log[i].compact \in Nat /\ log[i].spaced \in Nat BY <2>1 DEF MessageRecords
  <2> QED BY <2>2
<1>3. Compact(log, W) = Request.compact + SumOver(compact, W) BY DEF Compact
<1>4. Spaced(log, W) = Request.spaced + Request.fields + SumOver(spaced, W) BY DEF Spaced
<1>5. Request.compact \in Nat /\ Request.spaced \in Nat /\ Request.fields \in Nat
  BY PlanAssumption
<1>6. ASSUME NEW V \in SUBSET W
      PROVE  /\ Compact(log, V) = Request.compact + SumOver(compact, V)
             /\ Spaced(log, V) = Request.spaced + Request.fields + SumOver(spaced, V)
  BY DEF Compact, Spaced
<1> HIDE DEF compact, spaced
<1>7. SumOver(compact, W) \in Nat /\ SumOver(spaced, W) \in Nat BY <1>1, <1>2, SumType
<1>8. ASSUME NEW V \in SUBSET W
      PROVE  /\ SumOver(compact, V) \in Nat /\ SumOver(spaced, V) \in Nat
             /\ SumOver(compact, V) <= SumOver(compact, W)
             /\ SumOver(spaced, V) <= SumOver(spaced, W)
  <2>1. IsFiniteSet(V) /\ \A i \in V : compact[i] \in Nat /\ spaced[i] \in Nat
    BY <1>1, <1>2, FS_Subset
  <2>2. SumOver(compact, V) \in Nat /\ SumOver(spaced, V) \in Nat BY <2>1, SumType
  <2>3. SumOver(compact, V) <= SumOver(compact, W) BY <1>1, <1>2, SumSubset
  <2>4. SumOver(spaced, V) <= SumOver(spaced, W) BY <1>1, <1>2, SumSubset
  <2> QED BY <2>2, <2>3, <2>4
<1>9. \A V \in SUBSET W :
        Compact(log, V) <= Compact(log, W) /\ Spaced(log, V) <= Spaced(log, W)
  <2> TAKE V \in SUBSET W
  <2>1. Compact(log, V) = Request.compact + SumOver(compact, V) BY <1>6
  <2>2. Spaced(log, V) = Request.spaced + Request.fields + SumOver(spaced, V) BY <1>6
  <2>3. /\ SumOver(compact, V) \in Nat /\ SumOver(spaced, V) \in Nat
        /\ SumOver(compact, V) <= SumOver(compact, W)
        /\ SumOver(spaced, V) <= SumOver(spaced, W)
    BY <1>8
  <2> QED BY <1>3, <1>4, <1>5, <1>7, <2>1, <2>2, <2>3
<1>10. Compact(log, W) \in Nat /\ Spaced(log, W) \in Nat /\ Spaced(log, W) - Request.fields \in Nat
  BY <1>3, <1>4, <1>5, <1>7
<1> QED BY <1>9, <1>10

LEMMA CharsType ==
  ASSUME NEW log, Transcript(log), NEW W \in SUBSET DOMAIN log
  PROVE  /\ PromptChars(log, W) \in Nat
         /\ Compact(log, W) <= PromptChars(log, W) /\ Spaced(log, W) <= PromptChars(log, W)
         /\ \A V \in SUBSET W : PromptChars(log, V) <= PromptChars(log, W)
<1>1. Framing \in Nat /\ Request.fields \in Nat /\ Request.fields <= Framing
  BY PlanAssumption
<1>2. ASSUME NEW V \in SUBSET DOMAIN log
      PROVE  PromptChars(log, V) = Framing + (IF Compact(log, V) >= Spaced(log, V) - Request.fields
                                              THEN Compact(log, V)
                                              ELSE Spaced(log, V) - Request.fields)
  <2>1. Compact(log, V) \in Int /\ Spaced(log, V) - Request.fields \in Int BY SizeType
  <2>2. Max({Compact(log, V), Spaced(log, V) - Request.fields})
          = IF Compact(log, V) >= Spaced(log, V) - Request.fields
            THEN Compact(log, V) ELSE Spaced(log, V) - Request.fields
    BY <2>1, PairBounds
  <2> QED BY <2>2 DEF PromptChars
<1>3. Compact(log, W) \in Nat /\ Spaced(log, W) \in Nat /\ Spaced(log, W) - Request.fields \in Nat
  BY SizeType
<1>4. ASSUME NEW V \in SUBSET W PROVE PromptChars(log, V) <= PromptChars(log, W)
  <2>1. V \in SUBSET DOMAIN log OBVIOUS
  <2>2. Compact(log, V) \in Nat /\ Spaced(log, V) \in Nat BY <2>1, SizeType
  <2>3. Compact(log, V) <= Compact(log, W) /\ Spaced(log, V) <= Spaced(log, W) BY SizeType
  <2> QED BY <1>1, <1>2, <1>3, <2>1, <2>2, <2>3
<1> QED BY <1>1, <1>2, <1>3, <1>4

LEMMA Measure ==
  ASSUME Transcript(messages), NEW W \in SUBSET DOMAIN messages
  PROVE  /\ Measured[W] \in Nat /\ Serialized(W) <= Measured[W]
         /\ \A V \in SUBSET W : Measured[V] <= Measured[W]
<1>1. ASSUME NEW V \in SUBSET DOMAIN messages
      PROVE  Measured[V] = IF adapter.measured THEN Serialized(V) ELSE PromptChars(messages, V)
  BY DEF Measured
<1>2. ASSUME NEW V \in SUBSET DOMAIN messages
      PROVE  Serialized(V) = IF adapter.shape = "compact"
                             THEN Compact(messages, V) ELSE Spaced(messages, V)
  BY DEF Serialized
<1>3. /\ Compact(messages, W) \in Nat /\ Spaced(messages, W) \in Nat
      /\ \A V \in SUBSET W : /\ Compact(messages, V) <= Compact(messages, W)
                             /\ Spaced(messages, V) <= Spaced(messages, W)
  BY SizeType
<1>4. /\ PromptChars(messages, W) \in Nat
      /\ Compact(messages, W) <= PromptChars(messages, W)
      /\ Spaced(messages, W) <= PromptChars(messages, W)
      /\ \A V \in SUBSET W : PromptChars(messages, V) <= PromptChars(messages, W)
  BY CharsType
<1>5. Measured[W] \in Nat /\ Serialized(W) <= Measured[W] BY <1>1, <1>2, <1>3, <1>4
<1>6. ASSUME NEW V \in SUBSET W PROVE Measured[V] <= Measured[W]
  <2>1. V \in SUBSET DOMAIN messages OBVIOUS
  <2> QED BY <1>1, <1>2, <1>3, <1>4, <2>1
<1> QED BY <1>5, <1>6

(* The reported capacity is a lower bound on every instance that may serve *)
(* the call.                                                               *)
LEMMA CapacitySound ==
  ASSUME NEW c, Capacity(c) # Unknown
  PROVE  /\ Capacity(c) \in Nat \ {0}
         /\ \A instance \in Serving(c) : instance.length \in Nat /\ Capacity(c) <= instance.length
<1>1. Capacity(c) = ContextWindow(c) /\ Capacity(c) \in Nat \ {0} BY DEF Capacity
<1>2. c # Unknown /\ ContextWindow(c) = LoadedContext(c)
  BY <1>1 DEF ContextWindow
<1> DEFINE lengths == {instance.length : instance \in Serving(c)}
<1>3. lengths \subseteq Nat \ {0} /\ LoadedContext(c) = Min(lengths)
  BY <1>1, <1>2 DEF LoadedContext
<1>4. ASSUME NEW instance \in Serving(c)
      PROVE  instance.length \in Nat /\ Min(lengths) <= instance.length
  <2>1. instance.length \in lengths OBVIOUS
  <2>2. lengths \in SUBSET Nat /\ lengths # {} BY <1>3, <2>1
  <2> HIDE DEF lengths
  <2> QED BY <2>1, <2>2, MinProperties
<1> QED BY <1>1, <1>2, <1>3, <1>4

-----------------------------------------------------------------------------
(* The inductive invariant: the transcript and the observation are sound,  *)
(* the prompt of a call in flight is the last turns, and a session that    *)
(* waits has requests to answer.                                           *)
ContextInv ==
  /\ Transcript(messages)
  /\ Seen(messages, observed)
  /\ status = "calling" => \E k \in 1 .. Turns(messages) : plan.window = Suffix(messages, k)
  /\ status = "waiting" => Pending # <<>>
  /\ FitsUpToShortfall

LEMMA InitContextInv == Init => ContextInv
<1> SUFFICES ASSUME Init PROVE ContextInv OBVIOUS
<1>1. PICK p \in Prompts :
        \/ messages = <<p>>
        \/ \E s \in Instructions : messages = <<s, p>>
  BY DEF Init
<1>2. p \in MessageRecords /\ p.tokens \in Nat \ {0} /\ p.role = "user"
  BY ContextAssumption
<1>3. \A s \in Instructions : s \in MessageRecords /\ s.tokens \in Nat \ {0}
  BY ContextAssumption
<1>4. CASE messages = <<p>>
  <2>1. DOMAIN messages = {1} /\ messages[1] = p BY <1>4
  <2>2. messages \in Seq(MessageRecords) BY <1>2, <1>4
  <2>3. Transcript(messages) BY <1>2, <2>1, <2>2 DEF Transcript
  <2> QED BY <2>3 DEF Init, ContextInv, Seen, FitsUpToShortfall
<1>5. ASSUME NEW s \in Instructions, messages = <<s, p>> PROVE ContextInv
  <2>1. DOMAIN messages = {1, 2} /\ messages[1] = s /\ messages[2] = p BY <1>5
  <2>2. messages \in Seq(MessageRecords) BY <1>2, <1>3, <1>5
  <2>3. Transcript(messages) BY <1>2, <1>3, <2>1, <2>2 DEF Transcript
  <2> QED BY <2>3 DEF Init, ContextInv, Seen, FitsUpToShortfall
<1> QED BY <1>1, <1>4, <1>5

LEMMA PlanKeeps ==
  ASSUME ContextInv, NEW c, Plan(c)
  PROVE  ContextInv'
<1> DEFINE made == PlanContext(messages, observed, Capacity(c), Measured)
<1>1. /\ plan' = made /\ messages' = messages /\ observed' = observed /\ adapter' = adapter
      /\ loaded' = c /\ status' = IF made.failure = Unknown THEN "calling" ELSE "failed"
  BY DEF Plan
<1>2. Transcript(messages) /\ Seen(messages, observed) BY DEF ContextInv
<1>3. Transcript(messages') /\ Seen(messages', observed') BY <1>1, <1>2
<1> HIDE DEF made
<1>4. CASE made.failure # Unknown
  BY <1>1, <1>3, <1>4 DEF ContextInv, FitsUpToShortfall
<1>5. CASE made.failure = Unknown
  <2>1. Capacity(c) # Unknown => Capacity(c) \in Nat \ {0} BY CapacitySound
  <2>2. PICK k \in Fitting(messages, Measured) :
          /\ made.window = Suffix(messages, k)
          /\ Capacity(c) # Unknown =>
               Total(messages, observed, k) + made.allocated
                 <= Capacity(c) - OutputMargin(Capacity(c))
          /\ made.allocated \in Nat
    BY <1>2, <1>5, <2>1, PlanSound DEF made
  <2>3. k \in 1 .. Turns(messages) /\ Measured[Suffix(messages, k)] <= InputLimit
    BY DEF Fitting
  <2>4. Suffix(messages, k) \in SUBSET DOMAIN messages BY <1>2, <2>3, SuffixWindow
  <2>5. Serialized(made.window) <= InputLimit
    <3> DEFINE W == Suffix(messages, k)
    <3>1. W \in SUBSET DOMAIN messages /\ Measured[W] <= InputLimit /\ made.window = W
      BY <2>2, <2>3, <2>4
    <3> HIDE DEF W
    <3>2. Measured[W] \in Nat /\ Serialized(W) <= Measured[W] BY <1>2, <3>1, Measure
    <3>3. Serialized(W) \in Nat
      <4>1. Compact(messages, W) \in Nat /\ Spaced(messages, W) \in Nat
        BY <1>2, <3>1, SizeType
      <4> QED BY <4>1 DEF Serialized
    <3>4. Serialized(W) <= InputLimit BY <3>1, <3>2, <3>3, PlanAssumption
    <3> QED BY <3>1, <3>4
  <2>6. ASSUME Capacity(c) # Unknown, NEW instance \in Serving(c)
        PROVE  Tokens(messages, made.window) + made.allocated + OutputMargin(Capacity(c))
                 <= instance.length + Short(messages, observed, made.window)
    <3>1. /\ Capacity(c) \in Nat /\ instance.length \in Nat /\ Capacity(c) <= instance.length
      BY <2>6, CapacitySound
    <3>2. OutputMargin(Capacity(c)) \in Nat BY <3>1, MarginType
    <3> DEFINE W == Suffix(messages, k)
    <3>3. /\ Total(messages, observed, k) \in Nat /\ Tokens(messages, W) \in Nat
          /\ Short(messages, observed, W) \in Nat
          /\ Tokens(messages, W) <= Total(messages, observed, k) + Short(messages, observed, W)
      BY <1>2, <2>3, TotalType
    <3>4. Total(messages, observed, k) + made.allocated <= Capacity(c) - OutputMargin(Capacity(c))
      BY <2>2, <2>6
    <3>5. made.window = W BY <2>2
    <3> HIDE DEF W
    <3>6. made.allocated \in Nat BY <2>2
    <3>7. Tokens(messages, W) + made.allocated + OutputMargin(Capacity(c))
            <= instance.length + Short(messages, observed, W)
      BY <3>1, <3>2, <3>3, <3>4, <3>6
    <3> QED BY <3>5, <3>7, Zenon
  <2>7. /\ PromptTokens' = Tokens(messages, made.window)
        /\ Shortfall' = Short(messages, observed, made.window)
    BY <1>1 DEF PromptTokens, Tokens, TokensOf, Shortfall, Short, Beyonds, BeyondsOf
  <2>8. Serialized(plan.window)' = Serialized(made.window)
    BY <1>1 DEF Serialized, Compact, Spaced
  <2>9. FitsUpToShortfall' BY <1>1, <2>5, <2>6, <2>7, <2>8 DEF FitsUpToShortfall
  <2>10. \E l \in 1 .. Turns(messages') : plan'.window = Suffix(messages', l)
    BY <1>1, <2>2, <2>3
  <2>11. status' = "calling" BY <1>1, <1>5
  <2> QED BY <1>3, <2>9, <2>10, <2>11 DEF ContextInv
<1> QED BY <1>4, <1>5

(* Either way of growing a transcript.                                     *)
LEMMA AppendGrows ==
  ASSUME NEW log, Transcript(log), NEW m \in Prompts \cup Answers \cup ToolCalls
  PROVE  Grown(log, Append(log, m)) /\ Append(log, m)[Len(Append(log, m))] = m
<1>1. m \in MessageRecords /\ m.role # "system" /\ m.tokens \in Nat \ {0}
  BY ContextAssumption
<1>2. DOMAIN log = 1 .. Len(log) /\ Len(log) \in Nat /\ log \in Seq(MessageRecords)
  BY TranscriptPositions DEF Transcript
<1> DEFINE longer == Append(log, m)
<1>3. /\ longer \in Seq(MessageRecords) /\ Len(longer) = Len(log) + 1
      /\ longer[Len(log) + 1] = m /\ \A i \in DOMAIN log : longer[i] = log[i]
  BY <1>1, <1>2
<1> HIDE DEF longer
<1>4. \A i \in Len(log) + 1 .. Len(longer) : i = Len(log) + 1 BY <1>2, <1>3
<1>5. Grown(log, longer) BY <1>1, <1>2, <1>3, <1>4 DEF Grown
<1> QED BY <1>3, <1>5 DEF longer

LEMMA ResultsGrow ==
  ASSUME NEW log, Transcript(log), NEW calls \in Seq(Texts), calls # <<>>,
         NEW results \in [DOMAIN calls -> Results]
  PROVE  Grown(log, log \o results)
<1>1. DOMAIN log = 1 .. Len(log) /\ Len(log) \in Nat /\ log \in Seq(MessageRecords)
  BY TranscriptPositions DEF Transcript
<1>2. /\ Results \subseteq MessageRecords
      /\ \A m \in Results : m.role = "tool" /\ m.tokens \in Nat \ {0}
  BY ContextAssumption
<1>3. DOMAIN calls = 1 .. Len(calls) /\ Len(calls) \in Nat /\ Len(calls) # 0 OBVIOUS
<1>4. /\ results \in Seq(MessageRecords) /\ Len(results) = Len(calls)
      /\ \A i \in 1 .. Len(calls) : results[i] \in Results
  BY <1>2, <1>3
<1> DEFINE longer == log \o results
<1>5. /\ longer \in Seq(MessageRecords) /\ Len(longer) = Len(log) + Len(calls)
      /\ \A i \in DOMAIN log : longer[i] = log[i]
      /\ \A i \in Len(log) + 1 .. Len(longer) : longer[i] = results[i - Len(log)]
  BY <1>1, <1>3, <1>4
<1> HIDE DEF longer
<1>6. ASSUME NEW i \in Len(log) + 1 .. Len(longer) PROVE longer[i] \in Results
  <2>1. i - Len(log) \in 1 .. Len(calls) BY <1>1, <1>3, <1>5
  <2> QED BY <1>4, <1>5, <2>1
<1>7. Grown(log, longer) BY <1>1, <1>2, <1>3, <1>5, <1>6 DEF Grown
<1> QED BY <1>7 DEF longer

LEMMA PendingType ==
  ASSUME Transcript(messages)
  PROVE  Pending \in Seq(Texts)
<1>1. Len(messages) \in DOMAIN messages BY TranscriptPositions
<1>2. messages[Len(messages)] \in MessageRecords BY <1>1 DEF Transcript
<1> QED BY <1>2 DEF Pending, MessageRecords

(* A transcript that grows keeps the invariant but for what is asked of a  *)
(* session that waits.                                                     *)
LEMMA GrowthKeeps ==
  ASSUME ContextInv, NEW longer, Grown(messages, longer),
         messages' = longer, observed' = observed, status' \notin {"calling", "waiting"}
  PROVE  ContextInv'
<1>1. Transcript(messages) /\ Seen(messages, observed) BY DEF ContextInv
<1>2. Transcript(longer)
  <2>1. 1 \in Nat \ {0} OBVIOUS
  <2> QED BY <1>1, <2>1, SuffixGrown
<1>3. Seen(longer, observed) BY <1>1, SeenGrown
<1>4. Transcript(messages') /\ Seen(messages', observed') BY <1>2, <1>3
<1> QED BY <1>4 DEF ContextInv, FitsUpToShortfall

LEMMA AnswerKeeps ==
  ASSUME ContextInv, NEW reply \in Answers \cup ToolCalls, Answer(reply)
  PROVE  ContextInv'
<1>1. /\ status = "calling" /\ messages' = Append(messages, reply)
      /\ \E report \in Reports : observed' = Calibrated(report)
      /\ status' = IF reply \in ToolCalls THEN "waiting" ELSE "completed"
  BY DEF Answer
<1>2. Transcript(messages) /\ Seen(messages, observed) BY DEF ContextInv
<1>3. PICK k \in 1 .. Turns(messages) : plan.window = Suffix(messages, k)
  BY <1>1 DEF ContextInv
<1>4. Seen(messages, observed')
  <2>1. PICK report \in Reports : observed' = Calibrated(report) BY <1>1
  <2>2. CASE observed' = observed BY <1>2, <2>2
  <2>3. CASE /\ report # Unknown /\ report >= Cardinality(plan.window)
             /\ observed' = [indices |-> plan.window, tokens |-> report]
    <3>1. plan.window \in SUBSET DOMAIN messages /\ plan.window # {}
      BY <1>2, <1>3, SuffixWindow
    <3>2. IsFiniteSet(plan.window) BY <1>2, <3>1, TranscriptPositions
    <3>3. Cardinality(plan.window) \in Nat /\ Cardinality(plan.window) # 0
      BY <3>1, <3>2, FS_CardinalityType, FS_EmptySet
    <3>4. report # 0 BY <2>3, <3>3
    <3>5. report = PromptTokens BY <2>3, <3>4 DEF Reports
    <3>6. PromptTokens = Tokens(messages, plan.window) BY DEF PromptTokens, Tokens, TokensOf
    <3>7. observed' = [indices |-> Suffix(messages, k),
                       tokens |-> Tokens(messages, Suffix(messages, k))]
      BY <1>3, <2>3, <3>5, <3>6, Zenon
    <3> QED BY <1>2, <3>7, SeenOf
  <2> QED BY <2>1, <2>2, <2>3 DEF Calibrated
<1>5. Grown(messages, messages') /\ messages'[Len(messages')] = reply
  BY <1>1, <1>2, AppendGrows
<1>6. Transcript(messages')
  <2>1. 1 \in Nat \ {0} OBVIOUS
  <2> QED BY <1>2, <1>5, <2>1, SuffixGrown
<1>7. Seen(messages', observed') BY <1>2, <1>4, <1>5, SeenGrown
<1>8. status' # "calling" BY <1>1
<1>9. status' = "waiting" => Pending' # <<>> BY <1>1, <1>5, ContextAssumption DEF Pending
<1> QED BY <1>6, <1>7, <1>8, <1>9 DEF ContextInv, FitsUpToShortfall

LEMMA NextContextInv == ContextInv /\ [Next]_vars => ContextInv'
<1> SUFFICES ASSUME ContextInv, [Next]_vars PROVE ContextInv' OBVIOUS
<1>1. ASSUME NEW c \in Catalogs, Plan(c) PROVE ContextInv' BY <1>1, PlanKeeps
<1>2. ASSUME NEW m \in Answers \cup ToolCalls, Answer(m) PROVE ContextInv' BY <1>2, AnswerKeeps
<1>3. ASSUME NEW results \in [DOMAIN Pending -> Results], SubmitToolResults(results)
      PROVE  ContextInv'
  <2>1. Transcript(messages) /\ Pending # <<>> BY <1>3 DEF ContextInv, SubmitToolResults
  <2>2. Pending \in Seq(Texts) BY <2>1, PendingType
  <2>3. Grown(messages, messages \o results) BY <2>1, <2>2, ResultsGrow
  <2> QED BY <1>3, <2>3, GrowthKeeps DEF SubmitToolResults
<1>4. ASSUME NEW m \in Prompts, ContinueSession(m) PROVE ContextInv'
  <2>1. Grown(messages, Append(messages, m)) BY AppendGrows DEF ContextInv
  <2> QED BY <1>4, <2>1, GrowthKeeps DEF ContinueSession
<1>5. CASE UNCHANGED vars
  <2>1. /\ adapter' = adapter /\ messages' = messages /\ observed' = observed
        /\ status' = status /\ loaded' = loaded /\ plan' = plan
    BY <1>5 DEF vars
  <2> QED BY <2>1 DEF ContextInv, Transcript, Seen, Tokens, TokensOf, Pending,
                      FitsUpToShortfall, PromptTokens, Shortfall, Beyonds,
                      Serialized, Compact, Spaced
<1> QED BY <1>1, <1>2, <1>3, <1>4, <1>5 DEF Next

THEOREM ContextCorrect == Spec => []ContextInv
<1> QED BY InitContextInv, NextContextInv, PTL DEF Spec

(* The prompt, the output and the margin of every call fit every loaded    *)
(* instance that may serve it, but for what the estimates of the messages  *)
(* not counted before fall short of their tokens, and the adapter's own    *)
(* limit: for any tokenizer, transcript and history of calibrations        *)
(* (plan_context, the calibration in _advance).                            *)
THEOREM FitsUpToShortfallThm == Spec => []FitsUpToShortfall
<1>1. ContextInv => FitsUpToShortfall BY DEF ContextInv
<1> QED BY <1>1, ContextCorrect, PTL

(* Every prompt is the instructions and the last turns, each whole         *)
(* (_turns, suffix).                                                       *)
THEOREM PromptCoherentThm == Spec => []PromptCoherent
<1>1. ContextInv => PromptCoherent
  <2> SUFFICES ASSUME ContextInv, status = "calling"
               PROVE  /\ System(messages) \cup {Len(messages)} \subseteq plan.window
                      /\ \A i, j \in DOMAIN messages \ System(messages) :
                           i < j => /\ i \in plan.window => j \in plan.window
                                    /\ (\A k \in i + 1 .. j : messages[k].role # "user")
                                         => (j \in plan.window => i \in plan.window)
    BY DEF PromptCoherent
  <2>1. PICK k \in 1 .. Turns(messages) : plan.window = Suffix(messages, k) BY DEF ContextInv
  <2>2. Transcript(messages) BY DEF ContextInv
  <2>3. k \in Nat \ {0} BY <2>2, SuffixWindow
  <2>4. System(messages) \cup {Len(messages)} \subseteq Suffix(messages, k)
    BY <2>2, <2>3, SuffixGrows
  <2>5. ASSUME NEW i \in DOMAIN messages \ System(messages),
               NEW j \in DOMAIN messages \ System(messages), i < j
        PROVE  /\ i \in Suffix(messages, k) => j \in Suffix(messages, k)
               /\ (\A h \in i + 1 .. j : messages[h].role # "user")
                    => (j \in Suffix(messages, k) => i \in Suffix(messages, k))
    <3>1. i \in Rest(messages) /\ j \in Rest(messages) BY DEF Rest
    <3> QED BY <2>2, <2>3, <2>5, <3>1, SuffixWhole
  <2> QED BY <2>1, <2>4, <2>5
<1> QED BY <1>1, ContextCorrect, PTL

-----------------------------------------------------------------------------
(* The choice is the best one.  A window leaves room for output; it is     *)
(* admissible when that reaches the least output the context asks for.     *)
Room(log, seen, capacity, k) ==
  IF capacity = Unknown THEN Configured
  ELSE capacity - OutputMargin(capacity) - Estimate(log, seen, Suffix(log, k))

Output(log, seen, capacity, k) == Min({Room(log, seen, capacity, k), Configured})

Least(capacity) ==
  IF capacity # Unknown /\ capacity < SmallContext THEN OutputFloorTokens ELSE Configured

Admissible(log, seen, capacity, chars) ==
  {k \in 1 .. Turns(log) : /\ chars[Suffix(log, k)] <= InputLimit
                           /\ Output(log, seen, capacity, k) >= Least(capacity)}

(* made takes choice k, which no other admissible one beats.               *)
Best(log, seen, capacity, chars, made, k) ==
  /\ k \in Admissible(log, seen, capacity, chars)
  /\ made.window = Suffix(log, k) /\ made.allocated = Output(log, seen, capacity, k)
  /\ \A other \in Admissible(log, seen, capacity, chars) \ {k} :
       \/ Output(log, seen, capacity, other) < Output(log, seen, capacity, k)
       \/ Output(log, seen, capacity, other) = Output(log, seen, capacity, k) /\ other < k

LEMMA OutputOf ==
  ASSUME NEW log, Transcript(log), NEW seen, Seen(log, seen), NEW capacity,
         capacity # Unknown => capacity \in Nat \ {0}, NEW k \in 1 .. Turns(log)
  PROVE  /\ Room(log, seen, capacity, k) \in Int
         /\ Output(log, seen, capacity, k) =
              IF Room(log, seen, capacity, k) <= Configured
              THEN Room(log, seen, capacity, k) ELSE Configured
         /\ capacity # Unknown =>
              /\ Room(log, seen, capacity, k)
                   = capacity - OutputMargin(capacity) - Total(log, seen, k)
              /\ capacity \in Nat /\ OutputMargin(capacity) \in Nat
              /\ Total(log, seen, k) \in Nat \ {0}
<1>1. Configured \in Nat BY FloorBounds
<1>2. Total(log, seen, k) \in Nat \ {0} BY TotalType
<1>3. capacity # Unknown =>
        /\ capacity \in Nat /\ OutputMargin(capacity) \in Nat
        /\ Room(log, seen, capacity, k) = capacity - OutputMargin(capacity) - Total(log, seen, k)
  BY MarginType DEF Room, Total
<1>4. capacity = Unknown => Room(log, seen, capacity, k) = Configured BY DEF Room
<1>5. Room(log, seen, capacity, k) \in Int BY <1>1, <1>2, <1>3, <1>4
<1>6. Output(log, seen, capacity, k) =
        IF Room(log, seen, capacity, k) <= Configured
        THEN Room(log, seen, capacity, k) ELSE Configured
  <2>1. Room(log, seen, capacity, k) \in Int /\ Configured \in Int BY <1>1, <1>5
  <2> QED BY <2>1, PairBounds, Zenon DEF Output
<1> QED BY <1>2, <1>3, <1>5, <1>6

(* Roomy choices are the ones that leave the whole allowance.              *)
LEMMA RoomyOutput ==
  ASSUME NEW log, Transcript(log), NEW seen, Seen(log, seen), NEW capacity,
         capacity # Unknown => capacity \in Nat \ {0}, NEW chars, NEW k \in Fitting(log, chars)
  PROVE  /\ k \in 1 .. Turns(log)
         /\ k \in Roomy(log, seen, capacity, chars)
              <=> Output(log, seen, capacity, k) = Configured
<1>1. k \in 1 .. Turns(log) BY DEF Fitting
<1>2. Configured \in Nat BY FloorBounds
<1>3. /\ Room(log, seen, capacity, k) \in Int
      /\ Output(log, seen, capacity, k) =
           IF Room(log, seen, capacity, k) <= Configured
           THEN Room(log, seen, capacity, k) ELSE Configured
      /\ capacity # Unknown =>
           /\ Room(log, seen, capacity, k)
                = capacity - OutputMargin(capacity) - Total(log, seen, k)
           /\ capacity \in Nat /\ OutputMargin(capacity) \in Nat
           /\ Total(log, seen, k) \in Nat \ {0}
  BY <1>1, OutputOf
<1>4. Output(log, seen, capacity, k) = Configured
        <=> Room(log, seen, capacity, k) >= Configured
  BY <1>2, <1>3
<1>5. CASE capacity = Unknown
  <2>1. Room(log, seen, capacity, k) = Configured BY <1>5 DEF Room
  <2>2. k \in Roomy(log, seen, capacity, chars) BY <1>5 DEF Roomy
  <2> QED BY <1>1, <1>2, <1>4, <2>1, <2>2
<1>6. CASE capacity # Unknown
  <2>1. k \in Roomy(log, seen, capacity, chars)
          <=> /\ Budget(capacity, Configured) > 0
              /\ Total(log, seen, k) <= Budget(capacity, Configured)
    BY <1>6 DEF Roomy
  <2>2. Budget(capacity, Configured) = capacity - Configured - OutputMargin(capacity)
    BY DEF Budget
  <2>3. (/\ Budget(capacity, Configured) > 0
         /\ Total(log, seen, k) <= Budget(capacity, Configured))
          <=> Room(log, seen, capacity, k) >= Configured
    BY <1>2, <1>3, <1>6, <2>2
  <2> QED BY <1>1, <1>4, <2>1, <2>3
<1> QED BY <1>5, <1>6

LEMMA AdmissibleIn ==
  ASSUME NEW log, NEW seen, NEW capacity, NEW chars, NEW k
  PROVE  k \in Admissible(log, seen, capacity, chars)
           <=> /\ k \in Fitting(log, chars)
               /\ Output(log, seen, capacity, k) >= Least(capacity)
  BY DEF Admissible, Fitting

LEMMA LeastBounds ==
  ASSUME NEW capacity
  PROVE  Least(capacity) \in Nat \ {0} /\ Least(capacity) <= Configured
  BY FloorBounds DEF Least

(* plan_context, for a measure that grows with the window.                 *)
LEMMA PlanIsBest ==
  ASSUME NEW log, Transcript(log), NEW seen, Seen(log, seen), NEW capacity,
         capacity # Unknown => capacity \in Nat \ {0}, NEW chars,
         1 \notin Fitting(log, chars) => Fitting(log, chars) = {}
  PROVE  LET made == PlanContext(log, seen, capacity, chars)
         IN \/ /\ made.failure = Unknown
               /\ \E k \in 1 .. Turns(log) : Best(log, seen, capacity, chars, made, k)
            \/ /\ made.failure # Unknown
               /\ Admissible(log, seen, capacity, chars) = {}
<1> DEFINE made == PlanContext(log, seen, capacity, chars)
           fitting == Fitting(log, chars)
           roomy == Roomy(log, seen, capacity, chars)
           Out(k) == Output(log, seen, capacity, k)
           admissible == Admissible(log, seen, capacity, chars)
           least == Least(capacity)
<1>0. Configured \in Nat \ {0} /\ OutputFloorTokens \in Nat \ {0} BY FloorBounds
<1>1. roomy \in SUBSET fitting BY DEF Roomy
<1>2. made = IF roomy # {} THEN PlanOf(log, Max(roomy), Configured, Unknown)
             ELSE IF 1 \notin fitting THEN PlanOf(log, 1, Configured, "input_limit_exceeded")
             ELSE IF capacity < SmallContext THEN ReducedOutput(log, seen, capacity, fitting)
             ELSE PlanOf(log, 1, Configured, "context_window_exceeded")
  BY PlanCases, Zenon
<1>3. ASSUME NEW k \in fitting
      PROVE  /\ k \in 1 .. Turns(log) /\ k \in Nat
             /\ Out(k) \in Int /\ Out(k) <= Configured
             /\ k \in roomy <=> Out(k) = Configured
             /\ capacity # Unknown =>
                  /\ Room(log, seen, capacity, k)
                       = capacity - OutputMargin(capacity) - Total(log, seen, k)
                  /\ capacity \in Nat /\ OutputMargin(capacity) \in Nat
                  /\ Total(log, seen, k) \in Nat
                  /\ Out(k) = IF Room(log, seen, capacity, k) <= Configured
                              THEN Room(log, seen, capacity, k) ELSE Configured
  <2>1. k \in 1 .. Turns(log) /\ (k \in roomy <=> Out(k) = Configured) BY RoomyOutput
  <2>2. Turns(log) \in Nat BY TurnStartsOf
  <2> HIDE DEF roomy, fitting
  <2> QED BY <1>0, <2>1, <2>2, OutputOf
<1>4. \A k : k \in admissible <=> k \in fitting /\ Out(k) >= least BY AdmissibleIn
<1>5. least \in Nat \ {0} /\ least <= Configured BY LeastBounds
<1>6. 1 \notin fitting => fitting = {} OBVIOUS
<1>7. \A k \in 1 .. Turns(log) :
        Best(log, seen, capacity, chars, made, k)
          <=> /\ k \in admissible /\ made.window = Suffix(log, k) /\ made.allocated = Out(k)
              /\ \A other \in admissible \ {k} :
                   Out(other) < Out(k) \/ (Out(other) = Out(k) /\ other < k)
  BY DEF Best
<1>8. \/ capacity = Unknown /\ roomy = fitting
      \/ capacity # Unknown
  BY DEF Roomy
<1>9. CASE roomy # {}
  <2> DEFINE k == Max(roomy)
  <2>1. k \in roomy /\ \A other \in roomy : other <= k
    <3> HIDE DEF roomy, fitting
    <3>1. roomy \in SUBSET Fitting(log, chars) BY <1>1 DEF fitting
    <3> QED BY <1>9, <3>1, FittingBounds
  <2>2. made.window = Suffix(log, k) /\ made.allocated = Configured /\ made.failure = Unknown
    BY <1>2, <1>9 DEF PlanOf
  <2> HIDE DEF k, roomy, fitting, Out, admissible, least, made
  <2>3. k \in fitting /\ Out(k) = Configured BY <1>1, <1>3, <2>1
  <2>4. k \in admissible BY <1>0, <1>4, <1>5, <2>3
  <2>5. ASSUME NEW other \in admissible \ {k}
        PROVE  Out(other) < Out(k) \/ (Out(other) = Out(k) /\ other < k)
    <3>1. other \in fitting /\ k \in Nat /\ other \in Nat BY <1>3, <1>4, <2>3
    <3>2. CASE other \in roomy
      <4>1. Out(other) = Configured BY <1>3, <3>1, <3>2
      <4>2. other <= k /\ other # k BY <2>1, <3>2
      <4> QED BY <2>3, <3>1, <4>1, <4>2
    <3>3. CASE other \notin roomy
      <4>1. Out(other) \in Int /\ Out(other) <= Configured /\ Out(other) # Configured
        BY <1>3, <3>1, <3>3
      <4> QED BY <1>0, <2>3, <4>1
    <3> QED BY <3>2, <3>3
  <2>6. k \in 1 .. Turns(log) BY <1>3, <2>3
  <2>7. Best(log, seen, capacity, chars, made, k)
    BY <1>7, <2>2, <2>3, <2>4, <2>5, <2>6
  <2> QED BY <2>2, <2>6, <2>7 DEF made
<1>10. ASSUME roomy = {}, NEW k \in fitting PROVE Out(k) < Configured
  <2> HIDE DEF roomy, fitting, Out
  <2> QED BY <1>0, <1>3, <1>10
<1>11. CASE roomy = {} /\ 1 \notin fitting
  <2>1. made.failure = "input_limit_exceeded" BY <1>2, <1>11 DEF PlanOf
  <2>2. admissible = {} BY <1>4, <1>6, <1>11
  <2> QED BY <2>1, <2>2, PlanAssumption
<1>12. CASE roomy = {} /\ 1 \in fitting /\ ~(capacity < SmallContext)
  <2>1. made.failure = "context_window_exceeded" BY <1>2, <1>12 DEF PlanOf
  <2>2. least = Configured BY <1>12 DEF Least
  <2>3. admissible = {}
    <3> SUFFICES ASSUME NEW k \in admissible PROVE FALSE OBVIOUS
    <3> HIDE DEF admissible, fitting, Out, least, roomy
    <3>1. k \in fitting /\ Out(k) >= Configured BY <1>4, <2>2
    <3>2. Out(k) < Configured /\ Out(k) \in Int BY <1>3, <1>10, <1>12, <3>1
    <3> QED BY <1>0, <3>1, <3>2
  <2> QED BY <2>1, <2>3, PlanAssumption
<1>13. CASE roomy = {} /\ 1 \in fitting /\ capacity < SmallContext
  <2>1. capacity # Unknown BY <1>8, <1>13
  <2>2. made = ReducedOutput(log, seen, capacity, fitting) BY <1>2, <1>13
  <2>3. capacity \in Nat /\ OutputMargin(capacity) \in Nat BY <2>1, MarginType
  <2>4. least = OutputFloorTokens BY <1>13, <2>1 DEF Least
  <2>5. PICK k \in fitting :
          /\ \A other \in fitting :
               /\ Total(log, seen, k) <= Total(log, seen, other)
               /\ Total(log, seen, k) = Total(log, seen, other) => other <= k
          /\ made =
               IF capacity - OutputMargin(capacity) - Total(log, seen, k) >= OutputFloorTokens
               THEN PlanOf(log, k,
                      Min({Configured, capacity - OutputMargin(capacity) - Total(log, seen, k)}),
                      Unknown)
               ELSE PlanOf(log, 1, Configured, "context_window_exceeded")
    <3>1. Fitting(log, chars) # {} BY <1>13
    <3> QED BY <2>2, <2>3, <3>1, ReducedCases
  <2> DEFINE available == capacity - OutputMargin(capacity) - Total(log, seen, k)
  <2> HIDE DEF roomy, fitting, Out, admissible, least, made
  <2>6. /\ available \in Int /\ k \in 1 .. Turns(log) /\ k \in Nat
        /\ Out(k) = available /\ available < Configured
    <3>1. /\ Room(log, seen, capacity, k) = available /\ Total(log, seen, k) \in Nat
          /\ k \in 1 .. Turns(log) /\ k \in Nat
          /\ Out(k) = IF Room(log, seen, capacity, k) <= Configured
                      THEN Room(log, seen, capacity, k) ELSE Configured
      BY <1>3, <2>1
    <3>2. available \in Int BY <2>3, <3>1
    <3>3. Out(k) < Configured BY <1>10, <1>13
    <3> HIDE DEF available
    <3> QED BY <1>0, <3>1, <3>2, <3>3
  <2>7. ASSUME NEW other \in fitting
        PROVE  /\ Out(other) \in Int /\ Out(other) <= available /\ other \in Nat
               /\ Out(other) = available => other <= k
    <3>1. /\ Room(log, seen, capacity, other)
               = capacity - OutputMargin(capacity) - Total(log, seen, other)
          /\ Total(log, seen, other) \in Nat /\ other \in Nat
          /\ Out(other) = IF Room(log, seen, capacity, other) <= Configured
                          THEN Room(log, seen, capacity, other) ELSE Configured
      BY <1>3, <2>1
    <3>2. Out(other) < Configured BY <1>10, <1>13
    <3>3. Out(other) = capacity - OutputMargin(capacity) - Total(log, seen, other)
      BY <1>0, <2>3, <3>1, <3>2
    <3>4. Total(log, seen, k) \in Nat BY <1>3, <2>1
    <3>5. /\ Total(log, seen, k) <= Total(log, seen, other)
          /\ Total(log, seen, k) = Total(log, seen, other) => other <= k
      BY <2>5
    <3> QED BY <2>3, <3>1, <3>3, <3>4, <3>5
  <2> HIDE DEF available
  <2>8. CASE available >= OutputFloorTokens
    <3>1. made = PlanOf(log, k, Min({Configured, available}), Unknown)
      BY <2>5, <2>8 DEF available
    <3>2. Min({Configured, available}) = available
      <4>1. Min({Configured, available}) = IF Configured <= available THEN Configured ELSE available
        <5>1. Configured \in Int /\ available \in Int BY <1>0, <2>6
        <5> QED BY <5>1, PairBounds, Zenon
      <4> QED BY <1>0, <2>6, <4>1
    <3>3. made.window = Suffix(log, k) /\ made.allocated = Out(k) /\ made.failure = Unknown
      BY <2>6, <3>1, <3>2 DEF PlanOf
    <3>4. k \in admissible BY <1>4, <2>4, <2>6, <2>8
    <3>5. ASSUME NEW other \in admissible \ {k}
          PROVE  Out(other) < Out(k) \/ (Out(other) = Out(k) /\ other < k)
      <4>1. other \in fitting BY <1>4
      <4> QED BY <2>6, <2>7, <4>1
    <3>6. Best(log, seen, capacity, chars, made, k)
      BY <1>7, <2>6, <3>3, <3>4, <3>5
    <3> QED BY <2>6, <3>3, <3>6 DEF made
  <2>9. CASE ~(available >= OutputFloorTokens)
    <3>1. made = PlanOf(log, 1, Configured, "context_window_exceeded")
      BY <2>5, <2>9 DEF available
    <3>2. made.failure # Unknown BY <3>1, PlanAssumption DEF PlanOf
    <3>3. admissible = {}
      <4> SUFFICES ASSUME NEW other \in admissible PROVE FALSE OBVIOUS
      <4>1. other \in fitting /\ Out(other) >= OutputFloorTokens BY <1>4, <2>4
      <4>2. Out(other) \in Int /\ Out(other) <= available BY <2>7, <4>1
      <4> QED BY <1>0, <2>6, <2>9, <4>1, <4>2
    <3> QED BY <3>2, <3>3 DEF made, admissible
  <2> QED BY <2>8, <2>9
<1> QED BY <1>9, <1>11, <1>12, <1>13

(* A call is refused only when no choice is admissible, and otherwise gets *)
(* the best one (plan_context).                                            *)
THEOREM BestPlanThm == Spec => BestPlan
<1>1. ASSUME ContextInv, NEW c \in Catalogs, Plan(c) PROVE BestChoice(Capacity(c))
  <2> DEFINE capacity == Capacity(c)
  <2>1. Transcript(messages) /\ Seen(messages, observed) BY <1>1 DEF ContextInv
  <2>2. capacity # Unknown => capacity \in Nat \ {0} BY CapacitySound
  <2>3. plan' = PlanContext(messages, observed, capacity, Measured) BY <1>1 DEF Plan
  <2> HIDE DEF capacity
  <2>4. 1 \notin Fitting(messages, Measured) => Fitting(messages, Measured) = {}
    <3> SUFFICES ASSUME NEW k \in Fitting(messages, Measured) PROVE 1 \in Fitting(messages, Measured)
      OBVIOUS
    <3>1. k \in 1 .. Turns(messages) /\ Measured[Suffix(messages, k)] <= InputLimit BY DEF Fitting
    <3>2. k \in Nat \ {0} BY <2>1, <3>1, SuffixWindow
    <3>3. 1 \in 1 .. Turns(messages)
      <4>1. Turns(messages) \in Nat \ {0} BY <2>1, TurnStartsOf
      <4> QED BY <4>1
    <3> DEFINE V == Suffix(messages, 1)
               W == Suffix(messages, k)
    <3>4. V \in SUBSET W
      <4>1. 1 \in Nat \ {0} /\ 1 <= k BY <3>2
      <4> QED BY <2>1, <3>2, <4>1, SuffixGrows
    <3>5. W \in SUBSET DOMAIN messages /\ V \in SUBSET DOMAIN messages
      BY <2>1, <3>1, <3>3, SuffixWindow
    <3> HIDE DEF V, W
    <3>6. Measured[W] \in Nat /\ Measured[V] \in Nat /\ Measured[V] <= Measured[W]
      BY <2>1, <3>4, <3>5, Measure
    <3>7. Measured[W] <= InputLimit /\ InputLimit \in Nat BY <3>1, PlanAssumption DEF W
    <3>8. Measured[V] <= InputLimit BY <3>6, <3>7
    <3> QED BY <3>3, <3>8 DEF Fitting, V
  <2>5. \/ /\ plan'.failure = Unknown
           /\ \E k \in 1 .. Turns(messages) :
                Best(messages, observed, capacity, Measured, plan', k)
        \/ /\ plan'.failure # Unknown
           /\ Admissible(messages, observed, capacity, Measured) = {}
    BY <2>1, <2>2, <2>3, <2>4, PlanIsBest
  <2>6. BestChoice(capacity)
    BY <2>5, Zenon DEF BestChoice, Best, Admissible, Output, Room, Least
  <2> QED BY <2>6 DEF capacity
<1>2. ContextInv /\ [Next]_vars
        => [\A c \in Catalogs : Plan(c) => BestChoice(Capacity(c))]_vars
  BY <1>1
<1> QED BY <1>2, ContextCorrect, PTL DEF Spec, BestPlan

(* A prompt the provider has counted is kept whole while its count fits    *)
(* (estimate, the ordering of the first pass).                             *)
THEOREM ConfirmedPromptKeptThm == Spec => ConfirmedPromptKept
<1>1. ASSUME ContextInv, NEW c \in Catalogs, Plan(c), observed # Unknown,
             Capacity(c) # Unknown, ConfirmedFits(Capacity(c))
      PROVE  observed.indices \subseteq plan'.window
  <2> DEFINE capacity == Capacity(c)
             V == observed.indices
             newer == {i \in DOMAIN messages : i > Max(V)}
  <2>1. Transcript(messages) /\ Seen(messages, observed) BY <1>1 DEF ContextInv
  <2>2. capacity \in Nat \ {0} BY <1>1, CapacitySound
  <2>3. plan' = PlanContext(messages, observed, capacity, Measured) BY <1>1 DEF Plan
  <2>4. /\ observed.tokens + SumOver(Estimates(messages), newer) <= Budget(capacity, Configured)
        /\ Measured[V \cup newer] <= InputLimit
    BY <1>1 DEF ConfirmedFits
  <2>5. /\ V \in SUBSET DOMAIN messages /\ V # {}
        /\ \E k \in 1 .. Turns(messages) : V \cup newer = Suffix(messages, k)
    BY <1>1, <2>1 DEF Seen
  <2>6. PICK k \in 1 .. Turns(messages) : V \cup newer = Suffix(messages, k) BY <2>5
  <2>7. (V \cup newer) \ V = newer
    <3>1. Len(messages) \in Nat /\ \A i \in DOMAIN messages : i \in Nat /\ i <= Len(messages)
      BY <2>1, TranscriptPositions
    <3>2. V \in SUBSET (0 .. Len(messages)) BY <2>5, <3>1
    <3>3. Max(V) \in V /\ \A i \in V : i <= Max(V) BY <2>5, <3>1, <3>2, MaxProperties
    <3>4. \A i \in V : i \notin newer BY <2>5, <3>1, <3>3
    <3> QED BY <3>4
  <2>8. Total(messages, observed, k) = observed.tokens + SumOver(Estimates(messages), newer)
    <3> DEFINE W == Suffix(messages, k)
    <3>1. V \subseteq W BY <2>6
    <3>2. Estimate(messages, observed, W)
            = observed.tokens + SumOver(Estimates(messages), W \ V)
      BY <1>1, <3>1 DEF Estimate
    <3>3. W \ V = newer BY <2>6, <2>7, Zenon
    <3> HIDE DEF newer, V
    <3>4. SumOver(Estimates(messages), W \ V) = SumOver(Estimates(messages), newer)
      BY <3>3, Zenon
    <3> HIDE DEF W
    <3>5. Estimate(messages, observed, W)
            = observed.tokens + SumOver(Estimates(messages), newer)
      BY <3>2, <3>4, Zenon DEF V
    <3> QED BY <3>5 DEF W, Total
  <2>9. k \in Fitting(messages, Measured)
    <3>1. Measured[Suffix(messages, k)] <= InputLimit BY <2>4, <2>6, Zenon
    <3> QED BY <3>1 DEF Fitting
  <2> DEFINE roomy == Roomy(messages, observed, capacity, Measured)
  <2> HIDE DEF V, newer
  <2>10. k \in roomy
    <3>1. Total(messages, observed, k) \in Nat \ {0} BY <2>1, TotalType
    <3>2. Total(messages, observed, k) <= Budget(capacity, Configured) BY <2>4, <2>8
    <3>3. Budget(capacity, Configured) \in Int BY <2>2, MarginType
    <3>4. Budget(capacity, Configured) > 0 BY <3>1, <3>2, <3>3
    <3> QED BY <1>1, <2>9, <3>2, <3>4 DEF Roomy
  <2>11. plan' = PlanOf(messages, Max(roomy), Configured, Unknown)
    <3>1. roomy # {} BY <2>10
    <3> QED BY <2>1, <2>3, <3>1, PlanCases, Zenon
  <2>12. Max(roomy) \in Nat \ {0} /\ k \in Nat \ {0} /\ k <= Max(roomy)
    <3>1. roomy \in SUBSET Fitting(messages, Measured) BY DEF Roomy
    <3> HIDE DEF roomy
    <3>2. Max(roomy) \in roomy /\ k <= Max(roomy) /\ roomy \subseteq 1 .. Turns(messages)
      BY <2>1, <2>10, <3>1, FittingBounds
    <3>3. Max(roomy) \in 1 .. Turns(messages) BY <3>2
    <3> QED BY <2>1, <3>2, <3>3, SuffixWindow
  <2> HIDE DEF roomy
  <2>13. Suffix(messages, k) \subseteq Suffix(messages, Max(roomy)) BY <2>1, <2>12, SuffixGrows
  <2>14. plan'.window = Suffix(messages, Max(roomy)) BY <2>11 DEF PlanOf
  <2>15. V \subseteq Suffix(messages, k) BY <2>6
  <2> QED BY <2>13, <2>14, <2>15 DEF V
<1>2. ContextInv /\ [Next]_vars =>
        [\A c \in Catalogs :
           Plan(c) /\ observed # Unknown /\ Capacity(c) # Unknown /\ ConfirmedFits(Capacity(c))
             => observed.indices \subseteq plan'.window]_vars
  BY <1>1
<1> QED BY <1>2, ContextCorrect, PTL DEF Spec, ConfirmedPromptKept
=============================================================================
