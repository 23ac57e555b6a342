-------------------------- MODULE Recursion_proofs --------------------------
(***************************************************************************)
(* Recursive functions over finite sets and over numbers: that the         *)
(* function a definition by CHOOSE speaks of exists, is the only one, and  *)
(* keeps what each of its steps keeps.                                     *)
(*                                                                         *)
(* There is no induction here: if a statement failed for some set or       *)
(* number it would fail for a smallest one (SmallestSubset,                *)
(* SmallestNumber), and there it does not.                                 *)
(***************************************************************************)
EXTENDS FiniteSetTheorems, WellFoundedInduction, TLAPS

Pick(S) == CHOOSE x \in S : TRUE

(* The sums of f over the subsets of D, in the order CHOOSE takes members. *)
Sums(f, D) ==
    {g \in [SUBSET D -> Int] :
       \A S \in SUBSET D : g[S] = IF S = {} THEN 0 ELSE f[Pick(S)] + g[S \ {Pick(S)}]}

LEMMA SmallestSubset ==
    ASSUME NEW D, IsFiniteSet(D), NEW B, B \subseteq SUBSET D, B # {}
    PROVE  \E S \in B : \A T \in B : ~(T \subseteq S /\ T # S)
<1>. DEFINE R == StrictSubsetOrdering(D)
<1>1. IsWellFoundedOn(R, FiniteSubsetsOf(D))
  BY FS_StrictSubsetOrderingWellFounded
<1>2. B \subseteq FiniteSubsetsOf(D)
  BY FS_Subset DEF FiniteSubsetsOf
<1>3. PICK S \in B : \A T \in B : ~(<<T, S>> \in R)
  BY <1>1, <1>2, WFMin, Zenon
<1>4. ASSUME NEW T \in B, T \subseteq S, T # S
      PROVE  FALSE
  <2>1. <<T, S>> \in R
    BY <1>4 DEF StrictSubsetOrdering
  <2>. QED  BY <2>1, <1>3
<1>. QED  BY <1>4, <1>3

(* Two sums agree on a set where the functions do.                         *)
LEMMA SumsAgree ==
    ASSUME NEW D, IsFiniteSet(D), NEW f, NEW E, NEW e, NEW g \in Sums(f, D), NEW h \in Sums(e, E),
           NEW U, U \subseteq D, U \subseteq E, \A x \in U : f[x] = e[x]
    PROVE  g[U] = h[U]
<1>. SUFFICES ASSUME g[U] # h[U] PROVE FALSE
  OBVIOUS
<1>. DEFINE B == {S \in SUBSET U : g[S] # h[S]}
<1>1. B \subseteq SUBSET D /\ B # {}
  OBVIOUS
<1>2. \E S \in B : \A T \in B : ~(T \subseteq S /\ T # S)
  <2>1. IsFiniteSet(U)
    BY FS_Subset
  <2>. HIDE DEF B
  <2>. QED  BY <1>1, <2>1, SmallestSubset
<1>2a. PICK S \in B : \A T \in B : ~(T \subseteq S /\ T # S)
  BY <1>2, Zenon
<1>3. S # {}
  <2>. SUFFICES ASSUME S = {} PROVE FALSE
    OBVIOUS
  <2>1. g[S] = 0 /\ h[S] = 0
    BY DEF Sums
  <2>. QED  BY <2>1
<1>4. Pick(S) \in S
  BY <1>3 DEF Pick
<1>5. S \ {Pick(S)} \notin B
  BY <1>2a, <1>4
<1>6. g[S \ {Pick(S)}] = h[S \ {Pick(S)}]
  BY <1>5
<1>7. g[S] = f[Pick(S)] + g[S \ {Pick(S)}] /\ h[S] = e[Pick(S)] + h[S \ {Pick(S)}]
  BY <1>3 DEF Sums
<1>8. f[Pick(S)] = e[Pick(S)]
  BY <1>4
<1>. QED  BY <1>6, <1>7, <1>8

LEMMA SumExists ==
    ASSUME NEW D, IsFiniteSet(D), NEW f, \A x \in D : f[x] \in Int
    PROVE  Sums(f, D) # {}
<1>. SUFFICES ASSUME Sums(f, D) = {} PROVE FALSE
  OBVIOUS
<1>. DEFINE B == {T \in SUBSET D : Sums(f, T) = {}}
<1>1. B \subseteq SUBSET D /\ B # {}
  OBVIOUS
<1>2. \E T \in B : \A S \in B : ~(S \subseteq T /\ S # T)
  <2>. HIDE DEF B
  <2>. QED  BY <1>1, SmallestSubset, Zenon
<1>2a. PICK T \in B : \A S \in B : ~(S \subseteq T /\ S # T)
  BY <1>2, Zenon
<1>. DEFINE sum(S) == (CHOOSE g \in Sums(f, S) : TRUE)[S]
            value(S) == IF S = {} THEN 0 ELSE f[Pick(S)] + sum(S \ {Pick(S)})
            h == [S \in SUBSET T |-> value(S)]
<1>3. ASSUME NEW S \in SUBSET T, S # T
      PROVE  sum(S) = value(S) /\ sum(S) \in Int
  <2>1. PICK g \in Sums(f, S) : sum(S) = g[S]
    <3>1. S \notin B
      BY <1>2a, <1>3
    <3>. QED  BY <3>1
  <2>2. g[S] \in Int /\ (S = {} => g[S] = 0)
    BY <2>1 DEF Sums
  <2>3. ASSUME S # {}
        PROVE  g[S] = f[Pick(S)] + sum(S \ {Pick(S)})
    <3>1. Pick(S) \in S /\ S \ {Pick(S)} \notin B
      BY <1>2a, <1>3, <2>3 DEF Pick
    <3>2. PICK k \in Sums(f, S \ {Pick(S)}) : sum(S \ {Pick(S)}) = k[S \ {Pick(S)}]
      BY <3>1
    <3>3. IsFiniteSet(S)
      BY FS_Subset
    <3>4. g[S \ {Pick(S)}] = k[S \ {Pick(S)}]
      <4>. DEFINE U == S \ {Pick(S)}
      <4>1. IsFiniteSet(U) /\ U \subseteq S
        BY <3>3, FS_Subset
      <4>2. k \in Sums(f, U) /\ g \in Sums(f, S)
        BY <3>2, <2>1
      <4>. HIDE DEF U
      <4>3. k[U] = g[U]
        BY <4>1, <4>2, SumsAgree
      <4>. QED  BY <4>3 DEF U
    <3>5. g[S] = f[Pick(S)] + g[S \ {Pick(S)}]
      BY <2>1, <2>3 DEF Sums
    <3>. QED  BY <3>2, <3>4, <3>5
  <2>. QED  BY <2>1, <2>2, <2>3
<1>4. ASSUME NEW S \in SUBSET T
      PROVE  value(S) \in Int /\ (S # {} => h[S \ {Pick(S)}] = sum(S \ {Pick(S)}))
  <2>1. CASE S = {}
    BY <2>1
  <2>2. CASE S # {}
    <3>1. Pick(S) \in S /\ S \ {Pick(S)} \in SUBSET T /\ S \ {Pick(S)} # T
      BY <2>2 DEF Pick
    <3>2. sum(S \ {Pick(S)}) = value(S \ {Pick(S)}) /\ sum(S \ {Pick(S)}) \in Int
      BY <3>1, <1>3
    <3>3. f[Pick(S)] \in Int
      BY <3>1
    <3>4. h[S \ {Pick(S)}] = value(S \ {Pick(S)})
      BY <3>1
    <3>. QED  BY <3>2, <3>3, <3>4, <2>2
  <2>. QED  BY <2>1, <2>2
<1>5. h \in Sums(f, T)
  <2>1. h \in [SUBSET T -> Int]
    BY <1>4
  <2>2. ASSUME NEW S \in SUBSET T
        PROVE  h[S] = IF S = {} THEN 0 ELSE f[Pick(S)] + h[S \ {Pick(S)}]
    <3>1. h[S] = value(S)
      OBVIOUS
    <3>2. S # {} => h[S \ {Pick(S)}] = sum(S \ {Pick(S)})
      BY <1>4
    <3>. HIDE DEF h, sum
    <3>. QED  BY <3>1, <3>2
  <2>. HIDE DEF h
  <2>. QED  BY <2>1, <2>2 DEF Sums
<1>. QED  BY <1>2a, <1>5

(* The element a sum takes out first does not matter.                      *)
LEMMA SumTakesAny ==
    ASSUME NEW D, IsFiniteSet(D), NEW f \in [D -> Int], NEW g \in Sums(f, D)
    PROVE  \A S \in SUBSET D : \A y \in S : g[S] = f[y] + g[S \ {y}]
<1>. DEFINE B == {S \in SUBSET D : \E y \in S : g[S] # f[y] + g[S \ {y}]}
<1>0. B \subseteq SUBSET D
  OBVIOUS
<1>. SUFFICES ASSUME B # {} PROVE FALSE
  OBVIOUS
<1>1. \E S \in B : \A T \in B : ~(T \subseteq S /\ T # S)
  <2>. HIDE DEF B
  <2>. QED  BY <1>0, SmallestSubset
<1>2. PICK S \in B : \A T \in B : ~(T \subseteq S /\ T # S)
  BY <1>1, Zenon
<1>3. PICK y \in S : g[S] # f[y] + g[S \ {y}]
  OBVIOUS
<1>. DEFINE x == Pick(S)
<1>4. x \in S /\ g[S] = f[x] + g[S \ {x}]
  BY DEF Sums, Pick
<1>5. x # y
  BY <1>3, <1>4
<1>6. S \ {x} \notin B /\ S \ {y} \notin B
  BY <1>2, <1>3, <1>4
<1>7. g[S \ {x}] = f[y] + g[(S \ {x}) \ {y}]
  BY <1>3, <1>5, <1>6
<1>8. g[S \ {y}] = f[x] + g[(S \ {y}) \ {x}]
  BY <1>4, <1>5, <1>6
<1>9. (S \ {x}) \ {y} = (S \ {y}) \ {x}
  OBVIOUS
<1>10. f[x] \in Int /\ f[y] \in Int /\ g[(S \ {x}) \ {y}] \in Int
  BY <1>3, <1>4 DEF Sums
<1>. HIDE DEF x, B
<1>11. f[y] + (f[x] + g[(S \ {x}) \ {y}]) = f[x] + (f[y] + g[(S \ {x}) \ {y}])
  BY <1>10
<1>. QED  BY <1>3, <1>4, <1>7, <1>8, <1>9, <1>11

(* What the definition of a sum chooses is one.                            *)
LEMMA ChosenIsSum ==
    ASSUME NEW D, IsFiniteSet(D), NEW f, \A x \in D : f[x] \in Int,
           NEW s,
           s = [S \in SUBSET D |-> IF S = {} THEN 0 ELSE f[Pick(S)] + s[S \ {Pick(S)}]]
    PROVE  s \in Sums(f, D)
<1>. DEFINE B == {S \in SUBSET D : s[S] \notin Int}
<1>1. ASSUME B # {} PROVE FALSE
  <2>1. B \subseteq SUBSET D
    OBVIOUS
  <2>2. \E S \in B : \A T \in B : ~(T \subseteq S /\ T # S)
    <3>. HIDE DEF B
    <3>. QED  BY <1>1, <2>1, SmallestSubset
  <2>3. PICK S \in B : \A T \in B : ~(T \subseteq S /\ T # S)
    BY <2>2, Zenon
  <2>4. s[S] = IF S = {} THEN 0 ELSE f[Pick(S)] + s[S \ {Pick(S)}]
    OBVIOUS
  <2>5. S # {}
    BY <2>4
  <2>6. Pick(S) \in S
    BY <2>5 DEF Pick
  <2>7. s[S \ {Pick(S)}] \in Int
    <3>1. S \ {Pick(S)} \notin B
      <4>. HIDE DEF B
      <4>. QED  BY <2>3, <2>6, Zenon
    <3>2. S \ {Pick(S)} \in SUBSET D
      OBVIOUS
    <3>. QED  BY <3>1, <3>2, Zenon
  <2>8. f[Pick(S)] \in Int
    BY <2>6
  <2>. QED  BY <2>4, <2>5, <2>7, <2>8
<1>. QED  BY <1>1 DEF Sums

(* The folds of step over the subsets of T, each taken apart as pick says. *)
Picks(pick, D) == \A S \in SUBSET D : S # {} => pick[S] \in S
FoldMaps(D, V) == [V -> [D -> V]]
FoldsOf(T, V, v, step, pick) ==
    {g \in [SUBSET T -> V] :
       \A S \in SUBSET T : g[S] = IF S = {} THEN v ELSE step[g[S \ {pick[S]}]][pick[S]]}

LEMMA FoldsAgree ==
    ASSUME NEW D, IsFiniteSet(D), NEW V, NEW v \in V, NEW step \in FoldMaps(D, V),
           NEW pick, Picks(pick, D), NEW T \in SUBSET D, NEW U \in SUBSET D,
           NEW g \in FoldsOf(T, V, v, step, pick), NEW h \in FoldsOf(U, V, v, step, pick),
           NEW W, W \subseteq T, W \subseteq U
    PROVE  g[W] = h[W]
<1>. SUFFICES ASSUME g[W] # h[W] PROVE FALSE
  OBVIOUS
<1>. DEFINE B == {S \in SUBSET W : g[S] # h[S]}
<1>1. B \subseteq SUBSET D /\ B # {}
  OBVIOUS
<1>2. \E S \in B : \A R \in B : ~(R \subseteq S /\ R # S)
  <2>. HIDE DEF B
  <2>. QED  BY <1>1, SmallestSubset
<1>3. PICK S \in B : \A R \in B : ~(R \subseteq S /\ R # S)
  BY <1>2, Zenon
<1>4. S \in SUBSET W /\ g[S] # h[S] /\ S \in SUBSET T /\ S \in SUBSET U
  OBVIOUS
<1>5. S # {}
  BY <1>4 DEF FoldsOf
<1>6. pick[S] \in S /\ S \ {pick[S]} \notin B
  BY <1>3, <1>4, <1>5 DEF Picks
<1>7. g[S \ {pick[S]}] = h[S \ {pick[S]}]
  BY <1>4, <1>6
<1>8. g[S] = step[g[S \ {pick[S]}]][pick[S]] /\ h[S] = step[h[S \ {pick[S]}]][pick[S]]
  BY <1>4, <1>5 DEF FoldsOf
<1>. QED  BY <1>4, <1>7, <1>8

LEMMA FoldExists ==
    ASSUME NEW D, IsFiniteSet(D), NEW V, NEW v \in V, NEW step \in FoldMaps(D, V),
           NEW pick, Picks(pick, D)
    PROVE  FoldsOf(D, V, v, step, pick) # {}
<1>. SUFFICES ASSUME FoldsOf(D, V, v, step, pick) = {} PROVE FALSE
  OBVIOUS
<1>. DEFINE Of(T) == FoldsOf(T, V, v, step, pick)
            B == {T \in SUBSET D : Of(T) = {}}
<1>1. B \subseteq SUBSET D /\ B # {}
  OBVIOUS
<1>2. \E T \in B : \A S \in B : ~(S \subseteq T /\ S # T)
  <2>. HIDE DEF B
  <2>. QED  BY <1>1, SmallestSubset, Zenon
<1>3. PICK T \in B : \A S \in B : ~(S \subseteq T /\ S # T)
  BY <1>2, Zenon
<1>. DEFINE fold(S) == (CHOOSE g \in Of(S) : TRUE)[S]
            rest(S) == S \ {pick[S]}
            value(S) == IF S = {} THEN v ELSE step[fold(rest(S))][pick[S]]
            h == [S \in SUBSET T |-> value(S)]
<1>4. ASSUME NEW S \in SUBSET T, S # {}
      PROVE  pick[S] \in S /\ rest(S) \in SUBSET T /\ rest(S) \subseteq S /\ rest(S) # T
  BY <1>4 DEF Picks
<1>5. ASSUME NEW S \in SUBSET T, S # T
      PROVE  fold(S) = value(S) /\ fold(S) \in V
  <2>1. PICK g \in Of(S) : fold(S) = g[S]
    <3>1. S \notin B
      BY <1>3, <1>5
    <3>. QED  BY <3>1
  <2>2. g[S] \in V /\ (S = {} => g[S] = v)
    BY <2>1 DEF FoldsOf
  <2>3. ASSUME S # {}
        PROVE  g[S] = value(S)
    <3>1. rest(S) \notin B /\ rest(S) \in SUBSET D
      BY <1>3, <1>4, <2>3
    <3>2. PICK k \in Of(rest(S)) : fold(rest(S)) = k[rest(S)]
      BY <3>1
    <3>3. g[rest(S)] = k[rest(S)]
      <4>. DEFINE U == rest(S)
      <4>1. U \subseteq S /\ U \in SUBSET D /\ S \in SUBSET D
        BY <1>4, <2>3
      <4>2. k \in FoldsOf(U, V, v, step, pick) /\ g \in FoldsOf(S, V, v, step, pick)
        BY <3>2, <2>1
      <4>. HIDE DEF U
      <4>3. k[U] = g[U]
        BY <4>1, <4>2, FoldsAgree
      <4>. QED  BY <4>3 DEF U
    <3>4. g[S] = step[g[rest(S)]][pick[S]]
      BY <2>1, <2>3 DEF FoldsOf
    <3>. QED  BY <2>3, <3>2, <3>3, <3>4
  <2>. QED  BY <2>1, <2>2, <2>3
<1>6. ASSUME NEW S \in SUBSET T
      PROVE  value(S) \in V /\ (S # {} => h[rest(S)] = fold(rest(S)))
  <2>1. CASE S = {}
    BY <2>1
  <2>2. CASE S # {}
    <3>1. pick[S] \in S /\ rest(S) \in SUBSET T /\ rest(S) # T
      BY <1>4, <2>2
    <3>2. h[rest(S)] = value(rest(S))
      BY <3>1
    <3>. HIDE DEF h
    <3>3. fold(rest(S)) = value(rest(S)) /\ fold(rest(S)) \in V
      BY <3>1, <1>5
    <3>4. step[fold(rest(S))][pick[S]] \in V
      <4>. HIDE DEF fold, rest
      <4>. QED  BY <3>1, <3>3 DEF FoldMaps
    <3>. QED  BY <2>2, <3>2, <3>3, <3>4
  <2>. QED  BY <2>1, <2>2
<1>7. h \in Of(T)
  <2>1. h \in [SUBSET T -> V]
    BY <1>6
  <2>2. ASSUME NEW S \in SUBSET T
        PROVE  h[S] = IF S = {} THEN v ELSE step[h[S \ {pick[S]}]][pick[S]]
    <3>1. h[S] = value(S)
      OBVIOUS
    <3>2. S # {} => h[rest(S)] = fold(rest(S))
      BY <1>6
    <3>. HIDE DEF h, fold
    <3>. QED  BY <3>1, <3>2
  <2>. HIDE DEF h
  <2>. QED  BY <2>1, <2>2 DEF FoldsOf
<1>. QED  BY <1>3, <1>7

(* What is defined over the subsets of D, each from one with a member      *)
(* less, stays in V if every step does.                                    *)
LEMMA FoldStays ==
    ASSUME NEW D, IsFiniteSet(D), NEW V, NEW pick, Picks(pick, D), NEW s, s[{}] \in V,
           \A S \in SUBSET D : S # {} /\ s[S \ {pick[S]}] \in V => s[S] \in V
    PROVE  \A S \in SUBSET D : s[S] \in V
<1>. DEFINE B == {S \in SUBSET D : s[S] \notin V}
<1>1. ASSUME B # {} PROVE FALSE
  <2>1. B \subseteq SUBSET D
    OBVIOUS
  <2>2. \E S \in B : \A R \in B : ~(R \subseteq S /\ R # S)
    <3>. HIDE DEF B
    <3>. QED  BY <1>1, <2>1, SmallestSubset
  <2>3. PICK S \in B : \A R \in B : ~(R \subseteq S /\ R # S)
    BY <2>2, Zenon
  <2>4. S # {} /\ S \in SUBSET D /\ s[S] \notin V
    OBVIOUS
  <2>5. pick[S] \in S /\ S \ {pick[S]} \notin B
    BY <2>3, <2>4 DEF Picks
  <2>6. s[S \ {pick[S]}] \in V
    BY <2>4, <2>5
  <2>. QED  BY <2>4, <2>6
<1>. QED  BY <1>1

(* A sum of natural numbers is one.                                        *)
LEMMA SumNat ==
    ASSUME NEW D, IsFiniteSet(D), NEW f \in [D -> Nat], NEW g \in Sums(f, D)
    PROVE  \A S \in SUBSET D : g[S] \in Nat
<1>. DEFINE B == {S \in SUBSET D : g[S] \notin Nat}
<1>1. ASSUME B # {} PROVE FALSE
  <2>1. B \subseteq SUBSET D
    OBVIOUS
  <2>2. \E S \in B : \A T \in B : ~(T \subseteq S /\ T # S)
    <3>. HIDE DEF B
    <3>. QED  BY <1>1, <2>1, SmallestSubset
  <2>3. PICK S \in B : \A T \in B : ~(T \subseteq S /\ T # S)
    BY <2>2, Zenon
  <2>4. g[S] = IF S = {} THEN 0 ELSE f[Pick(S)] + g[S \ {Pick(S)}]
    BY DEF Sums
  <2>5. S # {}
    BY <2>4
  <2>6. Pick(S) \in S
    BY <2>5 DEF Pick
  <2>7. g[S \ {Pick(S)}] \in Nat /\ f[Pick(S)] \in Nat
    BY <2>3, <2>6
  <2>. QED  BY <2>4, <2>5, <2>7
<1>. QED  BY <1>1

----------------------------------------------------------------------------
LEMMA SmallestNumber ==
    ASSUME NEW B, B \subseteq Nat, B # {}
    PROVE  \E n \in B : \A m \in B : n <= m
<1>1. PICK n \in B : \A m \in B : <<m, n>> \notin OpToRel(<, Nat)
  BY WFMin, NatLessThanWellFounded, Zenon
<1>2. ASSUME NEW m \in B PROVE ~(m < n)
  BY <1>1 DEF OpToRel
<1>. QED  BY <1>2

(* A function that is defined from its value at the number before exists.  *)
Steps(g, a, b, v, step) ==
    \A n \in a .. b : g[n] = IF n = a THEN v ELSE step[g[n - 1]][n]

StepMaps(a, b, V) == [V -> [a + 1 .. b -> V]]

LEMMA StepsExist ==
    ASSUME NEW a \in Nat, NEW b \in Nat, a <= b, NEW V, NEW v \in V, NEW step \in StepMaps(a, b, V)
    PROVE  \E g \in [a .. b -> V] : Steps(g, a, b, v, step)
<1>. USE DEF Steps, StepMaps
<1>. DEFINE Known(k) == \E g \in [a .. k -> V] :
                          \A n \in a .. k : g[n] = IF n = a THEN v ELSE step[g[n - 1]][n]
            B == {k \in Nat : k \in a .. b /\ ~Known(k)}
<1>. SUFFICES ASSUME ~Known(b) PROVE FALSE
  OBVIOUS
<1>1. B \subseteq Nat /\ b \in B
  <2>. HIDE DEF Known
  <2>. QED  OBVIOUS
<1>2. \E k \in B : \A m \in B : k <= m
  <2>. HIDE DEF B
  <2>. QED  BY <1>1, SmallestNumber
<1>3. PICK k \in B : \A m \in B : k <= m
  BY <1>2
<1>4. k # a
  <2>. SUFFICES Known(a)
    OBVIOUS
  <2>. DEFINE g == [n \in a .. a |-> v]
  <2>1. g \in [a .. a -> V] /\ \A n \in a .. a : n = a /\ g[n] = v
    OBVIOUS
  <2>. QED  BY <2>1
<1>5. k - 1 \in a .. b /\ k - 1 \in Nat /\ k \in a + 1 .. b
  BY <1>3, <1>4
<1>6. Known(k - 1)
  <2>. HIDE DEF Known
  <2>. QED  BY <1>3, <1>5
<1>7. PICK g \in [a .. k - 1 -> V] :
        \A n \in a .. k - 1 : g[n] = IF n = a THEN v ELSE step[g[n - 1]][n]
  BY <1>6
<1>. DEFINE h == [n \in a .. k |-> IF n = k THEN step[g[k - 1]][k] ELSE g[n]]
<1>8. h \in [a .. k -> V]
  BY <1>5, <1>7
<1>9. ASSUME NEW n \in a .. k
      PROVE  h[n] = IF n = a THEN v ELSE step[h[n - 1]][n]
  <2>1. CASE n = k
    BY <2>1, <1>4, <1>5
  <2>2. CASE n # k
    <3>1. n \in a .. k - 1 /\ (n # a => n - 1 \in a .. k /\ n - 1 # k)
      BY <2>2, <1>5
    <3>. QED  BY <3>1, <1>7, <2>2
  <2>. QED  BY <2>1, <2>2
<1>10. Known(k)
  <2>. HIDE DEF h
  <2>. QED  BY <1>8, <1>9
<1>. QED  BY <1>3, <1>10

(* Nothing fails in a .. b that does not fail at the number before.        *)
LEMMA NoneFails ==
    ASSUME NEW a \in Nat, NEW b \in Nat, NEW B, B \subseteq a .. b, a \notin B,
           \A n \in a + 1 .. b : n \in B => n - 1 \in B
    PROVE  B = {}
<1>. SUFFICES ASSUME B # {} PROVE FALSE
  OBVIOUS
<1>1. B \subseteq Nat
  OBVIOUS
<1>2. PICK n \in B : \A m \in B : n <= m
  BY <1>1, SmallestNumber
<1>3. n \in a + 1 .. b
  BY <1>2
<1>. QED  BY <1>2, <1>3
=============================================================================
