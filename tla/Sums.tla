-------------------------------- MODULE Sums --------------------------------
(***************************************************************************)
(* Sums over finite sets, as the models take them from the community       *)
(* modules: SumFunctionOnSet(f, S) adds f[x] over the elements of S.       *)
(*                                                                         *)
(* The library's induction theorems have operators for parameters, which   *)
(* no prover here instantiates.  That the strict inclusion of finite sets  *)
(* is well-founded is stated without one, and what follows rests on it:    *)
(* of the sets that refute a claim one is least.                           *)
(***************************************************************************)
EXTENDS Functions, FiniteSetsExt, Sequences, FiniteSetTheorems, TLAPS

(* Of finite sets some one has none of the others inside.                  *)
LEMMA FiniteLeast ==
  ASSUME NEW S, IsFiniteSet(S), NEW T \in SUBSET SUBSET S, T # {}
  PROVE  \E X \in T : \A Y \in T : Y \subseteq X => Y = X
<1>1. T \subseteq FiniteSubsetsOf(S)
  BY FS_Subset DEF FiniteSubsetsOf
<1>2. IsWellFoundedOn(StrictSubsetOrdering(S), FiniteSubsetsOf(S))
  BY FS_StrictSubsetOrderingWellFounded
<1>3. \E X \in T : \A Y \in T : ~(<<Y, X>> \in StrictSubsetOrdering(S))
  BY <1>1, <1>2, WFMin
<1> QED
  BY <1>3 DEF StrictSubsetOrdering

(* The element that a sum takes first.                                     *)
FirstOf(s) == CHOOSE x \in s : TRUE

(* g sums f over the subsets of S.                                         *)
SumsUp(g, f, S) ==
  g = [s \in SUBSET S |-> IF s = {} THEN 0 ELSE f[FirstOf(s)] + g[s \ {FirstOf(s)}]]

Integral(f, S) == IsFiniteSet(S) /\ \A x \in S : f[x] \in Int

LEMMA Picked == ASSUME NEW s, s # {} PROVE FirstOf(s) \in s
  BY DEF FirstOf

(* What two such functions say of a set that both know is the same.        *)
LEMMA SumsAgree ==
  ASSUME NEW f, NEW S, NEW T, Integral(f, S), Integral(f, T),
         NEW g, NEW h, SumsUp(g, f, S), SumsUp(h, f, T),
         NEW u \in SUBSET (S \cap T)
  PROVE  g[u] = h[u]
<1> DEFINE Bad == {v \in SUBSET (S \cap T) : g[v] # h[v]}
<1> SUFFICES ASSUME Bad # {} PROVE FALSE
  OBVIOUS
<1>1. IsFiniteSet(S \cap T)
  BY FS_Subset DEF Integral
<1>2. PICK X \in Bad : \A Y \in Bad : Y \subseteq X => Y = X
  <2>1. Bad \in SUBSET SUBSET (S \cap T)
    OBVIOUS
  <2> HIDE DEF Bad
  <2> QED
    BY <1>1, <2>1, FiniteLeast
<1>3. g[X] # h[X] /\ X \in SUBSET S /\ X \in SUBSET T
  BY <1>2
<1>4. g[X] = IF X = {} THEN 0 ELSE f[FirstOf(X)] + g[X \ {FirstOf(X)}]
  BY <1>3 DEF SumsUp
<1>5. h[X] = IF X = {} THEN 0 ELSE f[FirstOf(X)] + h[X \ {FirstOf(X)}]
  BY <1>3 DEF SumsUp
<1>6. X # {}
  BY <1>3, <1>4, <1>5
<1>7. FirstOf(X) \in X
  BY <1>6, Picked
<1>8. X \ {FirstOf(X)} \notin Bad
  BY <1>2, <1>7
<1>9. X \ {FirstOf(X)} \in SUBSET (S \cap T)
  BY <1>3
<1>10. g[X \ {FirstOf(X)}] = h[X \ {FirstOf(X)}]
  BY <1>8, <1>9
<1> QED
  BY <1>3, <1>4, <1>5, <1>10

(* There is one for every finite set.                                      *)
LEMMA SumsExist ==
  ASSUME NEW f, NEW S, Integral(f, S)
  PROVE  \E g : SumsUp(g, f, S)
<1> DEFINE Bad == {s \in SUBSET S : ~\E g : SumsUp(g, f, s)}
<1> SUFFICES ASSUME Bad # {} PROVE FALSE
  OBVIOUS
<1>1. PICK X \in Bad : \A Y \in Bad : Y \subseteq X => Y = X
  <2>1. Bad \in SUBSET SUBSET S /\ IsFiniteSet(S)
    BY DEF Integral
  <2> HIDE DEF Bad
  <2> QED
    BY <2>1, FiniteLeast
<1>2. \A s \in SUBSET X : Integral(f, s)
  BY FS_Subset DEF Integral
<1> DEFINE G(s) == CHOOSE g : SumsUp(g, f, s)
           h == [s \in SUBSET X |-> IF s = {} THEN 0 ELSE f[FirstOf(s)] + G(s \ {FirstOf(s)})[s \ {FirstOf(s)}]]
<1>3. ASSUME NEW v \in SUBSET X, v # X PROVE SumsUp(G(v), f, v)
  <2>1. v \notin Bad
    BY <1>1, <1>3
  <2>2. \E g : SumsUp(g, f, v)
    BY <2>1
  <2> QED
    BY <2>2
<1> HIDE DEF G
<1>4. ASSUME NEW v \in SUBSET X, v # X PROVE G(v)[v] = h[v]
  <2>1. G(v)[v] = IF v = {} THEN 0 ELSE f[FirstOf(v)] + G(v)[v \ {FirstOf(v)}]
    BY <1>3, <1>4 DEF SumsUp
  <2>2. CASE v = {}
    BY <2>1, <2>2
  <2>3. CASE v # {}
    <3> DEFINE w == v \ {FirstOf(v)}
    <3>1. FirstOf(v) \in v
      BY <2>3, Picked
    <3>2. w \in SUBSET X /\ w # X /\ w \in SUBSET (v \cap w)
      BY <3>1
    <3>3. SumsUp(G(w), f, w) /\ SumsUp(G(v), f, v)
      BY <1>3, <1>4, <3>2
    <3>4. w \in SUBSET (v \cap w) /\ Integral(f, v) /\ Integral(f, w)
      BY <3>2, <1>2
    <3>5. G(v)[w] = G(w)[w]
      <4> HIDE DEF w
      <4> QED
        BY <3>3, <3>4, SumsAgree
    <3> QED
      BY <2>1, <2>3, <3>5
  <2> QED
    BY <2>2, <2>3
<1>5. ASSUME NEW s \in SUBSET X PROVE h[s] = IF s = {} THEN 0 ELSE f[FirstOf(s)] + h[s \ {FirstOf(s)}]
  <2>1. CASE s = {}
    BY <2>1
  <2>2. CASE s # {}
    <3>1. FirstOf(s) \in s
      BY <2>2, Picked
    <3>2. s \ {FirstOf(s)} \in SUBSET X /\ s \ {FirstOf(s)} # X
      BY <3>1
    <3> QED
      BY <2>2, <3>2, <1>4
  <2> QED
    BY <2>1, <2>2
<1>6. SumsUp(h, f, X)
  <2>1. h = [s \in SUBSET X |-> h[s]]
    OBVIOUS
  <2> HIDE DEF h
  <2> QED
    BY <2>1, <1>5 DEF SumsUp
<1> QED
  BY <1>1, <1>6

-----------------------------------------------------------------------------
(* What the models ask of a sum.                                           *)

(* It is the value of such a function.                                     *)
LEMMA SumIs ==
  ASSUME NEW f, NEW S, Integral(f, S)
  PROVE  \E g : SumsUp(g, f, S) /\ SumFunctionOnSet(f, S) = g[S]
<1> DEFINE g == CHOOSE g : SumsUp(g, f, S)
<1>1. SumFunctionOnSet(f, S) = g[S]
  BY Zenon DEF SumFunctionOnSet, FoldFunctionOnSet, MapThenFoldSet, SumsUp, FirstOf
<1>2. SumsUp(g, f, S)
  BY SumsExist
<1> QED
  BY <1>1, <1>2

(* On a part of the set it is what the same function says of the part.     *)
LEMMA SumOfPart ==
  ASSUME NEW f, NEW S, Integral(f, S), NEW g, SumsUp(g, f, S), NEW T \in SUBSET S
  PROVE  SumFunctionOnSet(f, T) = g[T]
<1>1. Integral(f, T)
  BY FS_Subset DEF Integral
<1>2. PICK h : SumsUp(h, f, T) /\ SumFunctionOnSet(f, T) = h[T]
  BY <1>1, SumIs
<1>3. T \in SUBSET (S \cap T)
  OBVIOUS
<1>4. g[T] = h[T]
  BY <1>1, <1>2, <1>3, SumsAgree
<1> QED
  BY <1>2, <1>4

LEMMA SumEmpty == ASSUME NEW f PROVE SumFunctionOnSet(f, {}) = 0
<1>1. Integral(f, {})
  BY FS_EmptySet DEF Integral
<1>2. PICK g : SumsUp(g, f, {}) /\ SumFunctionOnSet(f, {}) = g[{}]
  BY <1>1, SumIs
<1> QED
  BY <1>2 DEF SumsUp

(* The first element apart.                                                *)
LEMMA SumFirst ==
  ASSUME NEW f, NEW S, Integral(f, S), S # {}
  PROVE  SumFunctionOnSet(f, S) = f[FirstOf(S)] + SumFunctionOnSet(f, S \ {FirstOf(S)})
<1>1. PICK g : SumsUp(g, f, S) /\ SumFunctionOnSet(f, S) = g[S]
  BY SumIs
<1>2. g[S] = f[FirstOf(S)] + g[S \ {FirstOf(S)}]
  BY <1>1 DEF SumsUp
<1>3. S \ {FirstOf(S)} \in SUBSET S
  OBVIOUS
<1>4. SumFunctionOnSet(f, S \ {FirstOf(S)}) = g[S \ {FirstOf(S)}]
  BY <1>1, <1>3, SumOfPart
<1> QED
  BY <1>1, <1>2, <1>4

(* A sum of integers is one.                                               *)
LEMMA SumType ==
  ASSUME NEW f, NEW S, Integral(f, S)
  PROVE  SumFunctionOnSet(f, S) \in Int
<1> DEFINE Bad == {s \in SUBSET S : SumFunctionOnSet(f, s) \notin Int}
<1> SUFFICES ASSUME Bad # {} PROVE FALSE
  OBVIOUS
<1>1. PICK X \in Bad : \A Y \in Bad : Y \subseteq X => Y = X
  <2>1. Bad \in SUBSET SUBSET S /\ IsFiniteSet(S)
    BY DEF Integral
  <2> HIDE DEF Bad
  <2> QED
    BY <2>1, FiniteLeast
<1>2. X # {}
  BY <1>1, SumEmpty
<1>3. FirstOf(X) \in X
  BY <1>2, Picked
<1>4. Integral(f, X)
  BY FS_Subset DEF Integral
<1>5. SumFunctionOnSet(f, X) = f[FirstOf(X)] + SumFunctionOnSet(f, X \ {FirstOf(X)})
  BY <1>2, <1>4, SumFirst
<1>6. X \ {FirstOf(X)} \notin Bad
  BY <1>1, <1>3
<1>7. SumFunctionOnSet(f, X \ {FirstOf(X)}) \in Int
  BY <1>6
<1>8. f[FirstOf(X)] \in Int
  BY <1>3, <1>4 DEF Integral
<1> QED
  BY <1>1, <1>5, <1>7, <1>8

(* Any element apart: the order does not matter.                           *)
LEMMA SumSplit ==
  ASSUME NEW f, NEW S, Integral(f, S), NEW x \in S
  PROVE  SumFunctionOnSet(f, S) = f[x] + SumFunctionOnSet(f, S \ {x})
<1> DEFINE Splits(s, y) == SumFunctionOnSet(f, s) = f[y] + SumFunctionOnSet(f, s \ {y})
           Bad == {s \in SUBSET S : \E y \in s : ~Splits(s, y)}
<1> SUFFICES ASSUME Bad # {} PROVE FALSE
  OBVIOUS
<1>1. PICK X \in Bad : \A Y \in Bad : Y \subseteq X => Y = X
  <2>1. Bad \in SUBSET SUBSET S /\ IsFiniteSet(S)
    BY DEF Integral
  <2> HIDE DEF Bad
  <2> QED
    BY <2>1, FiniteLeast
<1>2. PICK y \in X : ~Splits(X, y)
  BY <1>1
<1> DEFINE p == FirstOf(X)
<1>3. X \in SUBSET S /\ p \in X
  BY <1>1, <1>2, Picked
<1>4. \A s \in SUBSET S : Integral(f, s)
  BY FS_Subset DEF Integral
<1>5. Splits(X, p)
  BY <1>3, <1>4, SumFirst
<1>6. p # y
  BY <1>2, <1>5
<1>7. X \ {p} \notin Bad /\ y \in X \ {p} /\ X \ {y} \notin Bad /\ p \in X \ {y}
  BY <1>1, <1>2, <1>3, <1>6
<1>8. Splits(X \ {p}, y) /\ Splits(X \ {y}, p)
  BY <1>3, <1>7
<1>9. (X \ {p}) \ {y} = (X \ {y}) \ {p}
  OBVIOUS
<1>10. f[y] \in Int /\ f[p] \in Int /\ SumFunctionOnSet(f, (X \ {y}) \ {p}) \in Int
  <2>1. Integral(f, (X \ {y}) \ {p})
    BY <1>3, <1>4
  <2> QED
    BY <1>3, <2>1, SumType DEF Integral
<1>11. Splits(X, y)
  <2> DEFINE a == SumFunctionOnSet(f, (X \ {y}) \ {p})
  <2>1. SumFunctionOnSet(f, X) = f[p] + SumFunctionOnSet(f, X \ {p})
    BY <1>5
  <2>2. SumFunctionOnSet(f, X \ {p}) = f[y] + a
    BY <1>8, <1>9
  <2>3. SumFunctionOnSet(f, X \ {y}) = f[p] + a
    BY <1>8
  <2>4. SumFunctionOnSet(f, X) = f[y] + SumFunctionOnSet(f, X \ {y})
    <3>1. f[p] \in Int /\ f[y] \in Int /\ a \in Int
      BY <1>10
    <3> HIDE DEF a, p
    <3> QED
      BY <2>1, <2>2, <2>3, <3>1
  <2> QED
    BY <2>4
<1> QED
  BY <1>2, <1>11

(* Of functions that are nowhere less the sum is not less.                 *)
LEMMA SumAtMost ==
  ASSUME NEW f, NEW g, NEW S, Integral(f, S), Integral(g, S), \A x \in S : f[x] <= g[x]
  PROVE  SumFunctionOnSet(f, S) <= SumFunctionOnSet(g, S)
<1> DEFINE Bad == {s \in SUBSET S : ~(SumFunctionOnSet(f, s) <= SumFunctionOnSet(g, s))}
<1> SUFFICES ASSUME Bad # {} PROVE FALSE
  OBVIOUS
<1>1. PICK X \in Bad : \A Y \in Bad : Y \subseteq X => Y = X
  <2>1. Bad \in SUBSET SUBSET S /\ IsFiniteSet(S)
    BY DEF Integral
  <2> HIDE DEF Bad
  <2> QED
    BY <2>1, FiniteLeast
<1>2. X # {}
  <2> SUFFICES ASSUME X = {} PROVE FALSE
    OBVIOUS
  <2>1. SumFunctionOnSet(f, X) = 0 /\ SumFunctionOnSet(g, X) = 0
    BY SumEmpty, Zenon
  <2> QED
    BY <1>1, <2>1
<1>3. PICK y : y \in X
  BY <1>2
<1>4. \A s \in SUBSET S : Integral(f, s) /\ Integral(g, s)
  BY FS_Subset DEF Integral
<1>5. Integral(f, X) /\ Integral(g, X) /\ Integral(f, X \ {y}) /\ Integral(g, X \ {y})
  BY <1>1, <1>4
<1>6. /\ SumFunctionOnSet(f, X) = f[y] + SumFunctionOnSet(f, X \ {y})
      /\ SumFunctionOnSet(g, X) = g[y] + SumFunctionOnSet(g, X \ {y})
  BY <1>3, <1>5, SumSplit
<1>7. SumFunctionOnSet(f, X \ {y}) \in Int /\ SumFunctionOnSet(g, X \ {y}) \in Int
  BY <1>5, SumType
<1>8. SumFunctionOnSet(f, X \ {y}) <= SumFunctionOnSet(g, X \ {y})
  BY <1>1, <1>3
<1>9. f[y] \in Int /\ g[y] \in Int /\ f[y] <= g[y]
  BY <1>1, <1>3, <1>5 DEF Integral
<1> QED
  BY <1>1, <1>6, <1>7, <1>8, <1>9

(* Functions that agree on a set have one sum there.                       *)
LEMMA SumSame ==
  ASSUME NEW f, NEW g, NEW S, Integral(f, S), \A x \in S : f[x] = g[x]
  PROVE  SumFunctionOnSet(f, S) = SumFunctionOnSet(g, S)
<1>1. Integral(g, S) /\ (\A x \in S : f[x] <= g[x]) /\ (\A x \in S : g[x] <= f[x])
  BY DEF Integral
<1>2. SumFunctionOnSet(f, S) <= SumFunctionOnSet(g, S)
  BY <1>1, SumAtMost
<1>3. SumFunctionOnSet(g, S) <= SumFunctionOnSet(f, S)
  BY <1>1, SumAtMost
<1> QED
  BY <1>1, <1>2, <1>3, SumType

(* Of naturals it is one.                                                  *)
LEMMA SumNat ==
  ASSUME NEW f, NEW S, IsFiniteSet(S), \A x \in S : f[x] \in Nat
  PROVE  SumFunctionOnSet(f, S) \in Nat
<1> DEFINE Bad == {s \in SUBSET S : SumFunctionOnSet(f, s) \notin Nat}
<1> SUFFICES ASSUME Bad # {} PROVE FALSE
  OBVIOUS
<1>1. PICK X \in Bad : \A Y \in Bad : Y \subseteq X => Y = X
  <2>1. Bad \in SUBSET SUBSET S
    OBVIOUS
  <2> HIDE DEF Bad
  <2> QED
    BY <2>1, FiniteLeast
<1>2. X # {}
  <2> SUFFICES ASSUME X = {} PROVE FALSE
    OBVIOUS
  <2>1. SumFunctionOnSet(f, X) = 0
    BY SumEmpty, Zenon
  <2> QED
    BY <1>1, <2>1
<1>3. PICK y : y \in X
  BY <1>2
<1>4. Integral(f, X)
  BY <1>1, FS_Subset DEF Integral
<1>5. SumFunctionOnSet(f, X) = f[y] + SumFunctionOnSet(f, X \ {y})
  BY <1>3, <1>4, SumSplit
<1>6. SumFunctionOnSet(f, X \ {y}) \in Nat /\ f[y] \in Nat
  BY <1>1, <1>3
<1> QED
  BY <1>1, <1>5, <1>6

(* Of zeros it is zero.                                                    *)
LEMMA SumZero ==
  ASSUME NEW f, NEW S, Integral(f, S), \A x \in S : f[x] = 0
  PROVE  SumFunctionOnSet(f, S) = 0
<1> DEFINE Bad == {s \in SUBSET S : SumFunctionOnSet(f, s) # 0}
<1> SUFFICES ASSUME Bad # {} PROVE FALSE
  OBVIOUS
<1>1. PICK X \in Bad : \A Y \in Bad : Y \subseteq X => Y = X
  <2>1. Bad \in SUBSET SUBSET S /\ IsFiniteSet(S)
    BY DEF Integral
  <2> HIDE DEF Bad
  <2> QED
    BY <2>1, FiniteLeast
<1>2. X # {}
  BY <1>1, SumEmpty
<1>3. FirstOf(X) \in X
  BY <1>2, Picked
<1>4. Integral(f, X)
  BY <1>1, FS_Subset DEF Integral
<1>5. SumFunctionOnSet(f, X) = f[FirstOf(X)] + SumFunctionOnSet(f, X \ {FirstOf(X)})
  BY <1>2, <1>4, SumFirst
<1>6. X \ {FirstOf(X)} \notin Bad
  BY <1>1, <1>3
<1>7. SumFunctionOnSet(f, X \ {FirstOf(X)}) = 0 /\ f[FirstOf(X)] = 0
  BY <1>1, <1>3, <1>6
<1> QED
  BY <1>1, <1>5, <1>7

(* What is zero does not count.                                            *)
LEMMA SumRest ==
  ASSUME NEW f, NEW S, Integral(f, S), NEW T \in SUBSET S, \A x \in S \ T : f[x] = 0
  PROVE  SumFunctionOnSet(f, S) = SumFunctionOnSet(f, T)
<1> DEFINE Bad == {s \in SUBSET S : T \subseteq s /\ SumFunctionOnSet(f, s) # SumFunctionOnSet(f, T)}
<1> SUFFICES ASSUME Bad # {} PROVE FALSE
  OBVIOUS
<1>1. PICK X \in Bad : \A Y \in Bad : Y \subseteq X => Y = X
  <2>1. Bad \in SUBSET SUBSET S /\ IsFiniteSet(S)
    BY DEF Integral
  <2> HIDE DEF Bad
  <2> QED
    BY <2>1, FiniteLeast
<1>2. PICK x \in X : x \notin T
  <2>1. T \subseteq X /\ X # T
    BY <1>1
  <2> QED
    BY <2>1
<1>3. Integral(f, X) /\ Integral(f, X \ {x})
  BY <1>1, FS_Subset DEF Integral
<1>4. SumFunctionOnSet(f, X) = f[x] + SumFunctionOnSet(f, X \ {x})
  BY <1>3, SumSplit
<1>5. X \ {x} \notin Bad
  BY <1>1, <1>2
<1>6. SumFunctionOnSet(f, X \ {x}) = SumFunctionOnSet(f, T)
  BY <1>1, <1>2, <1>5
<1>7. f[x] = 0 /\ SumFunctionOnSet(f, X \ {x}) \in Int
  BY <1>1, <1>2, <1>3, SumType
<1> QED
  BY <1>1, <1>4, <1>6, <1>7

(* When one element is counted otherwise, the sum moves by as much.        *)
LEMMA SumMoves ==
  ASSUME NEW f, NEW g, NEW S, Integral(f, S), Integral(g, S), NEW x \in S,
         \A y \in S \ {x} : f[y] = g[y]
  PROVE  SumFunctionOnSet(g, S) = SumFunctionOnSet(f, S) + (g[x] - f[x])
<1>1. Integral(f, S \ {x})
  BY FS_Subset DEF Integral
<1>2. SumFunctionOnSet(f, S \ {x}) = SumFunctionOnSet(g, S \ {x})
  BY <1>1, SumSame
<1>3. /\ SumFunctionOnSet(f, S) = f[x] + SumFunctionOnSet(f, S \ {x})
      /\ SumFunctionOnSet(g, S) = g[x] + SumFunctionOnSet(g, S \ {x})
  BY SumSplit
<1>4. SumFunctionOnSet(f, S \ {x}) \in Int /\ f[x] \in Int /\ g[x] \in Int
  BY <1>1, SumType DEF Integral
<1> QED
  BY <1>2, <1>3, <1>4

(* The sum of sums is the sum of all.                                      *)
LEMMA SumPlus ==
  ASSUME NEW f, NEW g, NEW h, NEW S, Integral(f, S), Integral(g, S),
         \A x \in S : h[x] = f[x] + g[x]
  PROVE  SumFunctionOnSet(h, S) = SumFunctionOnSet(f, S) + SumFunctionOnSet(g, S)
<1> DEFINE Adds(s) == SumFunctionOnSet(h, s) = SumFunctionOnSet(f, s) + SumFunctionOnSet(g, s)
           Bad == {s \in SUBSET S : ~Adds(s)}
<1> SUFFICES ASSUME Bad # {} PROVE FALSE
  BY DEF Bad
<1>1. PICK X \in Bad : \A Y \in Bad : Y \subseteq X => Y = X
  <2>1. Bad \in SUBSET SUBSET S /\ IsFiniteSet(S)
    BY DEF Integral
  <2> HIDE DEF Bad
  <2> QED
    BY <2>1, FiniteLeast
<1>2. X \in SUBSET S /\ ~Adds(X)
  BY <1>1
<1>3. \A s \in SUBSET S : Integral(f, s) /\ Integral(g, s) /\ Integral(h, s)
  BY FS_Subset DEF Integral
<1>4. CASE X = {}
  <2>1. SumFunctionOnSet(f, X) = 0 /\ SumFunctionOnSet(g, X) = 0 /\ SumFunctionOnSet(h, X) = 0
    BY <1>4, SumEmpty
  <2> QED
    BY <1>2, <2>1
<1>5. CASE X # {}
  <2>1. PICK x : x \in X
    BY <1>5
  <2> DEFINE Y == X \ {x}
  <2>2. Y \in SUBSET S /\ Y \notin Bad
    BY <1>1, <1>2, <2>1
  <2>3. Adds(Y)
    BY <2>2
  <2>4. /\ SumFunctionOnSet(f, X) = f[x] + SumFunctionOnSet(f, Y)
        /\ SumFunctionOnSet(g, X) = g[x] + SumFunctionOnSet(g, Y)
        /\ SumFunctionOnSet(h, X) = h[x] + SumFunctionOnSet(h, Y)
    BY <1>2, <1>3, <2>1, SumSplit
  <2>5. f[x] \in Int /\ g[x] \in Int /\ h[x] = f[x] + g[x]
    BY <1>2, <2>1 DEF Integral
  <2>6. SumFunctionOnSet(f, Y) \in Int /\ SumFunctionOnSet(g, Y) \in Int
    BY <1>3, <2>2, SumType
  <2> QED
    BY <1>2, <2>3, <2>4, <2>5, <2>6
<1> QED
  BY <1>4, <1>5

(* Two sets that share no element are summed apart.                        *)
LEMMA SumUnion ==
  ASSUME NEW f, NEW S, NEW T, Integral(f, S \cup T), S \cap T = {}
  PROVE  SumFunctionOnSet(f, S \cup T) = SumFunctionOnSet(f, S) + SumFunctionOnSet(f, T)
<1>1. PICK U : U = S \cup T
  OBVIOUS
<1>2. PICK g : g = [x \in U |-> IF x \in S THEN f[x] ELSE 0]
  OBVIOUS
<1>3. PICK h : h = [x \in U |-> IF x \in T THEN f[x] ELSE 0]
  OBVIOUS
<1>4. Integral(f, U) /\ Integral(g, U) /\ Integral(h, U)
  BY <1>1, <1>2, <1>3 DEF Integral
<1>5. \A x \in U : f[x] = g[x] + h[x]
  BY <1>1, <1>2, <1>3, <1>4 DEF Integral
<1>6. SumFunctionOnSet(f, U) = SumFunctionOnSet(g, U) + SumFunctionOnSet(h, U)
  BY <1>4, <1>5, SumPlus
<1>7. SumFunctionOnSet(g, U) = SumFunctionOnSet(g, S)
  BY <1>1, <1>2, <1>4, SumRest
<1>8. SumFunctionOnSet(h, U) = SumFunctionOnSet(h, T)
  BY <1>1, <1>3, <1>4, SumRest
<1>9. Integral(f, S) /\ Integral(f, T)
  BY <1>1, <1>4, FS_Subset DEF Integral
<1>10. SumFunctionOnSet(f, S) = SumFunctionOnSet(g, S) /\ SumFunctionOnSet(f, T) = SumFunctionOnSet(h, T)
  BY <1>1, <1>2, <1>3, <1>9, SumSame
<1> QED
  BY <1>1, <1>6, <1>7, <1>8, <1>10

(* The terms that a function sends to one group, or to any of several.     *)
GroupOf(f, S, of, x) == [b \in S |-> IF of[b] = x THEN f[b] ELSE 0]

GroupsOf(f, S, of, X) == [b \in S |-> IF of[b] \in X THEN f[b] ELSE 0]

MembersOf(S, of, x) == {b \in S : of[b] = x}

(* The terms may be summed group by group.                                 *)
LEMMA SumByGroup ==
  ASSUME NEW f, NEW S, Integral(f, S), NEW of, NEW X, IsFiniteSet(X), NEW t,
         \A x \in X : t[x] = SumFunctionOnSet(GroupOf(f, S, of, x), S)
  PROVE  SumFunctionOnSet(t, X) = SumFunctionOnSet(GroupsOf(f, S, of, X), S)
<1> DEFINE Group(x) == GroupOf(f, S, of, x)
           All(s) == GroupsOf(f, S, of, s)
           Bad == {s \in SUBSET X : SumFunctionOnSet(t, s) # SumFunctionOnSet(All(s), S)}
<1> SUFFICES ASSUME Bad # {} PROVE FALSE
  BY DEF Bad
<1>1. PICK Y \in Bad : \A Z \in Bad : Z \subseteq Y => Z = Y
  <2>1. Bad \in SUBSET SUBSET X
    BY DEF Bad
  <2> HIDE DEF Bad
  <2> QED
    BY <2>1, FiniteLeast
<1>2. Y \in SUBSET X /\ SumFunctionOnSet(t, Y) # SumFunctionOnSet(All(Y), S)
  BY <1>1
<1>3. \A x : Integral(Group(x), S)
  BY DEF Integral, GroupOf
<1>4. \A s : Integral(All(s), S)
  BY DEF Integral, GroupsOf
<1>5. \A x \in X : t[x] = SumFunctionOnSet(Group(x), S) /\ t[x] \in Int
  <2> TAKE x \in X
  <2>1. t[x] = SumFunctionOnSet(Group(x), S)
    OBVIOUS
  <2> HIDE DEF Group
  <2> QED
    BY <1>3, <2>1, SumType
<1>6. CASE Y = {}
  <2>1. \A b \in S : All(Y)[b] = 0
    BY <1>6 DEF GroupsOf
  <2>2. SumFunctionOnSet(t, Y) = 0
    BY <1>6, SumEmpty
  <2>3. SumFunctionOnSet(All(Y), S) = 0
    <3> HIDE DEF All
    <3> QED
      BY <1>4, <2>1, SumZero
  <2> QED
    BY <1>2, <2>2, <2>3
<1>7. CASE Y # {}
  <2>1. PICK x : x \in Y
    BY <1>7
  <2> DEFINE Z == Y \ {x}
  <2>2. Z \in SUBSET X /\ Z \notin Bad /\ x \in X
    BY <1>1, <1>2, <2>1
  <2>3. SumFunctionOnSet(t, Z) = SumFunctionOnSet(All(Z), S)
    BY <2>2
  <2>4. \A b \in S : All(Y)[b] = Group(x)[b] + All(Z)[b]
    <3> TAKE b \in S
    <3>1. f[b] \in Int
      BY DEF Integral
    <3> QED
      BY <2>1, <3>1 DEF GroupOf, GroupsOf
  <2>5. Integral(t, Y)
    <3>1. IsFiniteSet(Y) /\ \A y \in Y : t[y] \in Int
      BY <1>2, <1>5, FS_Subset
    <3> QED
      BY <3>1 DEF Integral
  <2>6. SumFunctionOnSet(t, Y) = t[x] + SumFunctionOnSet(t, Z)
    BY <2>1, <2>5, SumSplit
  <2>7. SumFunctionOnSet(All(Y), S) = SumFunctionOnSet(Group(x), S) + SumFunctionOnSet(All(Z), S)
    <3>1. Integral(All(Y), S) /\ Integral(All(Z), S) /\ Integral(Group(x), S)
      BY <1>3, <1>4
    <3> HIDE DEF All, Group, Z
    <3> QED
      BY <2>4, <3>1, SumPlus
  <2> QED
    BY <1>2, <1>5, <2>2, <2>3, <2>6, <2>7
<1> QED
  BY <1>6, <1>7

(* Of one group it is the sum over its members, and where every term has a *)
(* group it is the sum of all.                                             *)
LEMMA SumOfGroup ==
  ASSUME NEW f, NEW S, Integral(f, S), NEW of, NEW x
  PROVE  SumFunctionOnSet(GroupOf(f, S, of, x), S) = SumFunctionOnSet(f, MembersOf(S, of, x))
<1>1. PICK g : g = GroupOf(f, S, of, x)
  OBVIOUS
<1>2. PICK T : T = MembersOf(S, of, x)
  OBVIOUS
<1>3. Integral(g, S)
  BY <1>1 DEF Integral, GroupOf
<1>4. T \in SUBSET S /\ \A b \in S \ T : g[b] = 0
  BY <1>1, <1>2 DEF GroupOf, MembersOf
<1>5. \A b \in T : g[b] = f[b]
  BY <1>1, <1>2 DEF GroupOf, MembersOf
<1>6. SumFunctionOnSet(g, S) = SumFunctionOnSet(g, T)
  BY <1>3, <1>4, SumRest
<1>7. Integral(f, T)
  BY <1>4, FS_Subset DEF Integral
<1>8. SumFunctionOnSet(f, T) = SumFunctionOnSet(g, T)
  BY <1>5, <1>7, SumSame
<1> QED
  BY <1>1, <1>2, <1>6, <1>8

LEMMA SumOfGroups ==
  ASSUME NEW f, NEW S, Integral(f, S), NEW of, NEW X, IsFiniteSet(X), \A b \in S : of[b] \in X,
         NEW t, \A x \in X : t[x] = SumFunctionOnSet(f, MembersOf(S, of, x))
  PROVE  SumFunctionOnSet(t, X) = SumFunctionOnSet(f, S)
<1>1. ASSUME NEW x \in X PROVE t[x] = SumFunctionOnSet(GroupOf(f, S, of, x), S)
  BY SumOfGroup
<1>2. PICK all : all = GroupsOf(f, S, of, X)
  OBVIOUS
<1>3. SumFunctionOnSet(t, X) = SumFunctionOnSet(all, S)
  BY <1>1, <1>2, SumByGroup
<1>4. \A b \in S : f[b] = all[b]
  BY <1>2 DEF GroupsOf
<1>5. SumFunctionOnSet(f, S) = SumFunctionOnSet(all, S)
  BY <1>4, SumSame
<1> QED
  BY <1>3, <1>5

LEMMA SumSingle ==
  ASSUME NEW f, NEW x, f[x] \in Int
  PROVE  SumFunctionOnSet(f, {x}) = f[x]
<1>1. Integral(f, {x})
  BY FS_Singleton DEF Integral
<1>2. SumFunctionOnSet(f, {x}) = f[x] + SumFunctionOnSet(f, {x} \ {x})
  BY <1>1, SumSplit
<1>3. {x} \ {x} = {}
  OBVIOUS
<1>4. SumFunctionOnSet(f, {x} \ {x}) = 0
  BY <1>3, SumEmpty
<1> QED
  BY <1>2, <1>4

(* A sum of ones counts.                                                   *)
LEMMA SumOnes ==
  ASSUME NEW f, NEW S, IsFiniteSet(S), \A x \in S : f[x] = 1
  PROVE  SumFunctionOnSet(f, S) = Cardinality(S)
<1> DEFINE Bad == {s \in SUBSET S : SumFunctionOnSet(f, s) # Cardinality(s)}
<1> SUFFICES ASSUME Bad # {} PROVE FALSE
  BY DEF Bad
<1>1. PICK X \in Bad : \A Y \in Bad : Y \subseteq X => Y = X
  <2>1. Bad \in SUBSET SUBSET S
    BY DEF Bad
  <2> HIDE DEF Bad
  <2> QED
    BY <2>1, FiniteLeast
<1>2. X \in SUBSET S /\ SumFunctionOnSet(f, X) # Cardinality(X)
  BY <1>1
<1>3. IsFiniteSet(X) /\ Integral(f, X)
  <2>1. IsFiniteSet(X)
    BY <1>2, FS_Subset
  <2>2. \A x \in X : f[x] \in Int
    BY <1>2
  <2> QED
    BY <2>1, <2>2 DEF Integral
<1>4. CASE X = {}
  <2>1. SumFunctionOnSet(f, X) = 0 /\ Cardinality(X) = 0
    BY <1>4, SumEmpty, FS_EmptySet
  <2> QED
    BY <1>2, <2>1
<1>5. CASE X # {}
  <2>1. PICK x : x \in X
    BY <1>5
  <2> DEFINE Y == X \ {x}
  <2>2. Y \in SUBSET S /\ Y \notin Bad
    BY <1>1, <1>2, <2>1
  <2>3. SumFunctionOnSet(f, Y) = Cardinality(Y)
    BY <2>2
  <2>4. SumFunctionOnSet(f, X) = f[x] + SumFunctionOnSet(f, Y)
    BY <1>3, <2>1, SumSplit
  <2>5. Cardinality(Y) = Cardinality(X) - 1
    BY <1>3, <2>1, FS_RemoveElement
  <2>6. Cardinality(X) \in Nat /\ f[x] = 1
    BY <1>2, <1>3, <2>1, FS_CardinalityType
  <2> QED
    BY <1>2, <2>3, <2>4, <2>5, <2>6
<1> QED
  BY <1>4, <1>5

(* Of the numbers below a bound that a set holds one is the greatest.      *)
LEMMA Greatest ==
  ASSUME NEW n \in Nat, NEW T \in SUBSET (0 .. n), T # {}
  PROVE  \E k \in T : \A j \in T : j <= k
<1> DEFINE I == 0 .. n
           Above == {{j \in I : j > k} : k \in T}
<1>1. IsFiniteSet(I)
  BY FS_Interval
<1>2. Above \in SUBSET SUBSET I /\ Above # {}
  OBVIOUS
<1>3. PICK X \in Above : \A Y \in Above : Y \subseteq X => Y = X
  <2> HIDE DEF Above, I
  <2> QED
    BY <1>1, <1>2, FiniteLeast
<1>4. PICK k \in T : X = {j \in I : j > k}
  BY <1>3
<1>5. ASSUME NEW j \in T, ~(j <= k) PROVE FALSE
  <2> DEFINE Y == {l \in I : l > j}
  <2>1. Y \in Above /\ Y \subseteq X
    BY <1>4, <1>5
  <2>2. j \in X /\ j \notin Y
    BY <1>4, <1>5
  <2> QED
    BY <1>3, <2>1, <2>2
<1> QED
  BY <1>5

(* Of the naturals that a set holds one is the least.                      *)
LEMMA Least ==
  ASSUME NEW T \in SUBSET Nat, T # {}
  PROVE  \E k \in T : \A j \in T : k <= j
<1>1. PICK n : n \in T
  OBVIOUS
<1> DEFINE D == {n - j : j \in {i \in T : i <= n}}
<1>2. D \in SUBSET (0 .. n) /\ n - n \in D
  BY <1>1
<1>3. PICK d \in D : \A e \in D : e <= d
  <2> HIDE DEF D
  <2> QED
    BY <1>1, <1>2, Greatest
<1>4. PICK k \in T : k <= n /\ d = n - k
  BY <1>3
<1>5. ASSUME NEW j \in T PROVE k <= j
  <2>1. CASE j > n
    BY <1>1, <1>4, <2>1
  <2>2. CASE j <= n
    <3>1. n - j \in D
      BY <2>2
    <3>2. n - j <= n - k
      BY <1>3, <1>4, <3>1
    <3> QED
      BY <1>1, <3>2
  <2> QED
    BY <1>1, <2>1, <2>2
<1> QED
  BY <1>5

-----------------------------------------------------------------------------
(* Folds of sequences from the left, with a function for the operator: of  *)
(* the state so far and the next element.                                  *)

(* The last position of some.                                              *)
LEMMA LastPosition ==
  ASSUME NEW n \in Nat, NEW t \in SUBSET (1 .. n), t # {}
  PROVE  Max(t) \in t /\ \A y \in t : Max(t) >= y
<1>1. t \in SUBSET (0 .. n)
  OBVIOUS
<1>2. PICK k \in t : \A j \in t : j <= k
  BY <1>1, Greatest
<1>3. \A j \in t : k >= j
  BY <1>2
<1> QED
  BY <1>3 DEF Max

(* g folds s at every set of its positions.                                *)
FoldsWith(g, f, base, s) ==
  g = [u \in SUBSET DOMAIN s |->
         IF u = {} THEN base ELSE f[<<g[u \ {Max(u)}], s[Max(u)]>>]]

(* h is one wherever its values are among those that f is for.             *)
FoldsAmong(h, f, base, s, A) ==
  /\ h[{}] = base
  /\ \A u \in SUBSET DOMAIN s : u # {} /\ h[u \ {Max(u)}] \in A
       => h[u] = f[<<h[u \ {Max(u)}], s[Max(u)]>>]

(* Then they always are.                                                   *)
LEMMA FoldKeeps ==
  ASSUME NEW A, NEW B, NEW f \in [A \X B -> A], NEW base \in A, NEW s \in Seq(B), NEW h,
         FoldsAmong(h, f, base, s, A)
  PROVE  \A u \in SUBSET DOMAIN s : h[u] \in A
<1> DEFINE Bad == {u \in SUBSET DOMAIN s : h[u] \notin A}
<1> SUFFICES ASSUME Bad # {} PROVE FALSE
  OBVIOUS
<1>1. DOMAIN s = 1 .. Len(s) /\ Len(s) \in Nat /\ IsFiniteSet(1 .. Len(s))
  BY FS_Interval
<1>2. PICK X \in Bad : \A Y \in Bad : Y \subseteq X => Y = X
  <2>1. Bad \in SUBSET SUBSET DOMAIN s
    OBVIOUS
  <2> HIDE DEF Bad
  <2> QED
    BY <1>1, <2>1, FiniteLeast
<1>3. X \in SUBSET DOMAIN s /\ h[X] \notin A /\ X # {}
  BY <1>2 DEF FoldsAmong
<1>4. Max(X) \in X
  BY <1>1, <1>3, LastPosition
<1>5. X \ {Max(X)} \in SUBSET DOMAIN s /\ X \ {Max(X)} \notin Bad
  BY <1>2, <1>3, <1>4
<1>6. h[X \ {Max(X)}] \in A
  BY <1>5
<1>7. h[X] = f[<<h[X \ {Max(X)}], s[Max(X)]>>]
  BY <1>3, <1>6 DEF FoldsAmong
<1>8. s[Max(X)] \in B
  BY <1>3, <1>4
<1> QED
  BY <1>3, <1>6, <1>7, <1>8

(* Every sequence has its fold, and what every step keeps it keeps.        *)
LEMMA FoldExists ==
  ASSUME NEW A, NEW B, NEW f \in [A \X B -> A], NEW base \in A, NEW s \in Seq(B)
  PROVE  \E g : FoldsWith(g, f, base, s) /\ \A u \in SUBSET DOMAIN s : g[u] \in A
<1> DEFINE Good(t, g) == g = [u \in SUBSET t |-> IF u = {} THEN base ELSE f[<<g[u \ {Max(u)}], s[Max(u)]>>]]
           Bad == {t \in SUBSET DOMAIN s : ~\E g : Good(t, g)}
           I == 1 .. Len(s)
<1>0. DOMAIN s = I /\ IsFiniteSet(I) /\ Len(s) \in Nat
  BY FS_Interval
<1>1. Bad = {}
  <2> SUFFICES ASSUME Bad # {} PROVE FALSE
    OBVIOUS
  <2>1. PICK X \in Bad : \A Y \in Bad : Y \subseteq X => Y = X
    <3>1. Bad \in SUBSET SUBSET I /\ IsFiniteSet(I) /\ Bad # {}
      BY <1>0
    <3> HIDE DEF Bad, I
    <3> QED
      BY <3>1, FiniteLeast
  <2>2. X \in SUBSET I
    BY <1>0
  <2>3. \A u \in SUBSET X : u # {} => Max(u) \in u
    <3> TAKE u \in SUBSET X
    <3>1. u \in SUBSET (1 .. Len(s))
      BY <2>2
    <3> QED
      BY <1>0, <3>1, LastPosition
  <2> DEFINE G(t) == CHOOSE g : Good(t, g)
             h == [u \in SUBSET X |-> IF u = {} THEN base ELSE f[<<G(u \ {Max(u)})[u \ {Max(u)}], s[Max(u)]>>]]
  <2>4. ASSUME NEW v \in SUBSET X, v # X PROVE Good(v, G(v))
    <3>1. v \notin Bad /\ v \in SUBSET DOMAIN s
      BY <2>1, <2>4, <2>2, <1>0
    <3>2. \E g : Good(v, g)
      BY <3>1
    <3> QED
      BY <3>2
  <2> HIDE DEF G
  <2>5. ASSUME NEW v \in SUBSET X, v # X, NEW w \in SUBSET v
        PROVE  G(v)[w] = G(w)[w]
    <3> DEFINE Off == {u \in SUBSET w : G(v)[u] # G(w)[u]}
    <3> SUFFICES ASSUME Off # {} PROVE FALSE
      OBVIOUS
    <3>1. IsFiniteSet(w)
      BY <2>2, <1>0, FS_Subset
    <3>2. PICK Z \in Off : \A Y \in Off : Y \subseteq Z => Y = Z
      <4>1. Off \in SUBSET SUBSET w
        OBVIOUS
      <4> HIDE DEF Off
      <4> QED
        BY <3>1, <4>1, FiniteLeast
    <3>3. Z \in SUBSET w /\ Z \in SUBSET v /\ Z \in SUBSET X /\ G(v)[Z] # G(w)[Z] /\ w \in SUBSET X /\ w # X
      BY <3>2, <2>5
    <3>4. Good(v, G(v)) /\ Good(w, G(w))
      BY <3>3, <2>4, <2>5
    <3>5. G(v)[Z] = IF Z = {} THEN base ELSE f[<<G(v)[Z \ {Max(Z)}], s[Max(Z)]>>]
      BY <3>3, <3>4
    <3>6. G(w)[Z] = IF Z = {} THEN base ELSE f[<<G(w)[Z \ {Max(Z)}], s[Max(Z)]>>]
      BY <3>3, <3>4
    <3>7. Z # {}
      BY <3>3, <3>5, <3>6
    <3>8. Max(Z) \in Z
      BY <3>3, <3>7, <2>3
    <3>9. Z \ {Max(Z)} \notin Off
      BY <3>2, <3>8
    <3>10. G(v)[Z \ {Max(Z)}] = G(w)[Z \ {Max(Z)}]
      BY <3>3, <3>9
    <3> QED
      BY <3>3, <3>5, <3>6, <3>7, <3>10
  <2>6. ASSUME NEW v \in SUBSET X, v # X PROVE G(v)[v] = h[v]
    <3>1. Good(v, G(v)) /\ v \in SUBSET v
      BY <2>4, <2>6
    <3>2. G(v)[v] = IF v = {} THEN base ELSE f[<<G(v)[v \ {Max(v)}], s[Max(v)]>>]
      BY <3>1
    <3>3. v # {} => G(v)[v \ {Max(v)}] = G(v \ {Max(v)})[v \ {Max(v)}]
      BY <2>5, <2>6
    <3> QED
      BY <3>2, <3>3
  <2>7. ASSUME NEW u \in SUBSET X
        PROVE  h[u] = IF u = {} THEN base ELSE f[<<h[u \ {Max(u)}], s[Max(u)]>>]
    <3>1. CASE u = {}
      BY <3>1
    <3>2. CASE u # {}
      <4>1. Max(u) \in u
        BY <3>2, <2>3
      <4>2. u \ {Max(u)} \in SUBSET X /\ u \ {Max(u)} # X
        BY <4>1
      <4>3. h[u \ {Max(u)}] = G(u \ {Max(u)})[u \ {Max(u)}]
        BY <4>2, <2>6
      <4>4. h[u] = f[<<G(u \ {Max(u)})[u \ {Max(u)}], s[Max(u)]>>]
        BY <3>2
      <4> QED
        BY <3>2, <4>3, <4>4
    <3> QED
      BY <3>1, <3>2
  <2>8. h = [u \in SUBSET X |-> h[u]]
    OBVIOUS
  <2>9. Good(X, h)
    <3> HIDE DEF h
    <3> QED
      BY <2>7, <2>8
  <2> QED
    BY <2>1, <2>9
<1>2. PICK g : Good(DOMAIN s, g)
  BY <1>1
<1>3. FoldsWith(g, f, base, s)
  BY <1>2 DEF FoldsWith
<1>4. \A u \in SUBSET DOMAIN s : g[u] \in A
  <2>1. \A u \in SUBSET DOMAIN s :
          g[u] = IF u = {} THEN base ELSE f[<<g[u \ {Max(u)}], s[Max(u)]>>]
    BY <1>3 DEF FoldsWith
  <2>2. g[{}] = base
    BY <2>1
  <2>3. FoldsAmong(g, f, base, s, A)
    BY <2>1, <2>2 DEF FoldsAmong
  <2> QED
    BY <2>3, FoldKeeps
<1> QED
  BY <1>3, <1>4
=============================================================================
