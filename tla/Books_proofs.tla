---------------------------- MODULE Books_proofs ----------------------------
(***************************************************************************)
(* Proofs about what is booked to accounts: the ledger of a live account,  *)
(* a paper account that copies, a paper account under the risk loop, the   *)
(* equity series of a live account, and at the end the four side by side.  *)
(*                                                                         *)
(* First the ledger.  What the entry gate counts covers the position at    *)
(* the exchange: what a reconciliation read of the market covers what had  *)
(* filled when it read the fills, and every execution after that is still  *)
(* counted as an open order.  First what adding up sizes gives, then the   *)
(* helpers of the ledger, the invariant, and one lemma for each action.    *)
(***************************************************************************)
EXTENDS MCBooks, Recursion_proofs, FunctionTheorems, SequenceTheorems

(* Total is such a sum.                                                    *)
LEMMA TotalIs ==
    ASSUME NEW D, IsFiniteSet(D), NEW f \in [D -> Nat]
    PROVE  \E g \in Sums(f, D) : Total(f) = g[D] /\ \A S \in SUBSET D : g[S] \in Nat
<1>. DEFINE rec(g) == [S \in SUBSET D |-> IF S = {} THEN 0 ELSE f[Pick(S)] + g[S \ {Pick(S)}]]
            s == CHOOSE g : g = rec(g)
<1>1. PICK g \in Sums(f, D) : TRUE
  BY SumExists
<1>2. g = rec(g)
  BY DEF Sums
<1>3. s = rec(s)
  BY <1>2
<1>4. Total(f) = s[D]
  BY DEF Total, Pick
<1>. HIDE DEF s
<1>5. s \in Sums(f, D)
  <2>1. \A x \in D : f[x] \in Int
    OBVIOUS
  <2>. QED  BY <1>3, <2>1, ChosenIsSum
<1>. QED  BY <1>4, <1>5, SumNat

Without(f, y) == [x \in DOMAIN f \ {y} |-> f[x]]

LEMMA TotalSplit ==
    ASSUME NEW D, IsFiniteSet(D), NEW f \in [D -> Nat], NEW y \in D
    PROVE  Total(f) = f[y] + Total(Without(f, y)) /\ Total(Without(f, y)) \in Nat /\ Total(f) \in Nat
<1>. DEFINE E == D \ {y}
            e == Without(f, y)
<1>1. IsFiniteSet(E) /\ e \in [E -> Nat] /\ E \subseteq D /\ \A x \in E : f[x] = e[x]
  BY FS_Subset DEF Without
<1>2. PICK g \in Sums(f, D) : Total(f) = g[D] /\ \A S \in SUBSET D : g[S] \in Nat
  BY TotalIs
<1>. HIDE DEF E, e
<1>3. PICK h \in Sums(e, E) : Total(e) = h[E] /\ \A S \in SUBSET E : h[S] \in Nat
  BY <1>1, TotalIs
<1>4. g[E] = h[E]
  BY <1>1, SumsAgree
<1>5. g[D] = f[y] + g[E]
  BY SumTakesAny DEF E
<1>6. h[E] \in Nat /\ f[y] \in Nat
  BY <1>3
<1>. QED  BY <1>2, <1>3, <1>4, <1>5, <1>6 DEF e

LEMMA TotalNat ==
    ASSUME NEW D, IsFiniteSet(D), NEW f \in [D -> Nat]
    PROVE  Total(f) \in Nat
<1>1. PICK g \in Sums(f, D) : Total(f) = g[D] /\ \A S \in SUBSET D : g[S] \in Nat
  BY TotalIs
<1>. QED  BY <1>1

(* A sum of no more is no more.                                            *)
LEMMA TotalMonotone ==
    ASSUME NEW D, IsFiniteSet(D), NEW f \in [D -> Nat], NEW e \in [D -> Nat],
           \A x \in D : f[x] <= e[x]
    PROVE  Total(f) <= Total(e)
<1>1. PICK g \in Sums(f, D) : Total(f) = g[D] /\ \A S \in SUBSET D : g[S] \in Nat
  BY TotalIs
<1>2. PICK h \in Sums(e, D) : Total(e) = h[D] /\ \A S \in SUBSET D : h[S] \in Nat
  BY TotalIs
<1>. DEFINE B == {S \in SUBSET D : ~(g[S] <= h[S])}
<1>3. B \subseteq SUBSET D
  OBVIOUS
<1>. SUFFICES ASSUME B # {} PROVE FALSE
  BY <1>1, <1>2
<1>4. \E S \in B : \A T \in B : ~(T \subseteq S /\ T # S)
  <2>. HIDE DEF B
  <2>. QED  BY <1>3, SmallestSubset
<1>5. PICK S \in B : \A T \in B : ~(T \subseteq S /\ T # S)
  BY <1>4, Zenon
<1>. DEFINE x == Pick(S)
<1>6. S # {}
  <2>. SUFFICES ASSUME S = {} PROVE FALSE
    OBVIOUS
  <2>1. g[S] = 0 /\ h[S] = 0
    BY DEF Sums
  <2>. QED  BY <2>1
<1>7. x \in S
  BY <1>6 DEF Pick
<1>8. g[S] = f[x] + g[S \ {x}] /\ h[S] = e[x] + h[S \ {x}]
  BY <1>6 DEF Sums
<1>9. g[S \ {x}] <= h[S \ {x}]
  BY <1>5, <1>7
<1>10. g[S \ {x}] \in Nat /\ h[S \ {x}] \in Nat /\ f[x] \in Nat /\ e[x] \in Nat /\ f[x] <= e[x]
  BY <1>1, <1>2, <1>7
<1>. HIDE DEF x
<1>. QED  BY <1>8, <1>9, <1>10

LEMMA DivisionRounds ==
    ASSUME NEW a \in Nat, NEW t \in Nat \ {0}
    PROVE  a \div t \in Nat /\ t * (a \div t) <= a
OBVIOUS

LEMMA ScaleStep ==
    ASSUME NEW t \in Nat, NEW p \in Nat, NEW q \in Nat, NEW a \in Nat, NEW g \in Nat, NEW h \in Nat,
           t * q <= a * p, t * h <= p * g
    PROVE  t * (q + h) <= p * (a + g)
<1>1. t * (q + h) = t * q + t * h /\ p * (a + g) = a * p + p * g
  OBVIOUS
<1>2. t * q \in Nat /\ t * h \in Nat /\ a * p \in Nat /\ p * g \in Nat
  OBVIOUS
<1>. QED  BY <1>1, <1>2

LEMMA Cancel ==
    ASSUME NEW t \in Nat \ {0}, NEW q \in Nat, NEW p \in Nat, t * q <= p * t
    PROVE  q <= p
OBVIOUS

(* Parts scaled down to p, and rounded down, sum up to no more than p.     *)
LEMMA TotalScaled ==
    ASSUME NEW D, IsFiniteSet(D), NEW f \in [D -> Nat], NEW p \in Nat, p < Total(f)
    PROVE  LET e == [x \in D |-> (f[x] * p) \div Total(f)]
           IN e \in [D -> Nat] /\ Total(e) <= p
<1>. DEFINE t == Total(f)
            e == [x \in D |-> (f[x] * p) \div t]
<1>1. t \in Nat \ {0}
  BY TotalNat
<1>2. ASSUME NEW x \in D
      PROVE  e[x] \in Nat /\ t * e[x] <= f[x] * p
  <2>1. f[x] * p \in Nat
    OBVIOUS
  <2>. HIDE DEF t
  <2>2. (f[x] * p) \div t \in Nat /\ t * ((f[x] * p) \div t) <= f[x] * p
    BY <1>1, <2>1, DivisionRounds
  <2>. QED  BY <2>2
<1>3. e \in [D -> Nat]
  BY <1>2
<1>4. PICK g \in Sums(f, D) : t = g[D] /\ \A S \in SUBSET D : g[S] \in Nat
  BY TotalIs
<1>. HIDE DEF e, t
<1>5. PICK h \in Sums(e, D) : Total(e) = h[D] /\ \A S \in SUBSET D : h[S] \in Nat
  BY <1>3, TotalIs
<1>. DEFINE B == {S \in SUBSET D : ~(t * h[S] <= p * g[S])}
<1>6. B \subseteq SUBSET D
  OBVIOUS
<1>7. ASSUME B # {} PROVE FALSE
  <2>1. \E S \in B : \A T \in B : ~(T \subseteq S /\ T # S)
    <3>. HIDE DEF B
    <3>. QED  BY <1>6, <1>7, SmallestSubset
  <2>2. PICK S \in B : \A T \in B : ~(T \subseteq S /\ T # S)
    BY <2>1, Zenon
  <2>. DEFINE x == Pick(S)
  <2>3. S # {}
    <3>. SUFFICES ASSUME S = {} PROVE FALSE
      OBVIOUS
    <3>1. g[S] = 0 /\ h[S] = 0
      BY DEF Sums
    <3>. QED  BY <3>1, <1>1
  <2>4. x \in S
    BY <2>3 DEF Pick
  <2>5. g[S] = f[x] + g[S \ {x}] /\ h[S] = e[x] + h[S \ {x}]
    BY <2>3 DEF Sums
  <2>6. t * h[S \ {x}] <= p * g[S \ {x}]
    BY <2>2, <2>4
  <2>7. g[S \ {x}] \in Nat /\ h[S \ {x}] \in Nat /\ f[x] \in Nat /\ e[x] \in Nat
    BY <2>4, <1>3, <1>4, <1>5
  <2>8. t * e[x] <= f[x] * p
    BY <1>2, <2>4 DEF e
  <2>. HIDE DEF x
  <2>9. t * (e[x] + h[S \ {x}]) <= p * (f[x] + g[S \ {x}])
    BY <1>1, <2>6, <2>7, <2>8, ScaleStep
  <2>. QED  BY <2>5, <2>9
<1>8. t * h[D] <= p * g[D]
  BY <1>7
<1>9. h[D] \in Nat
  BY <1>5
<1>10. h[D] <= p
  BY <1>1, <1>4, <1>8, <1>9, Cancel
<1>. QED  BY <1>3, <1>5, <1>10 DEF e, t
----------------------------------------------------------------------------
Who == Sources \cup {Exchange}

LEMMA CloserOfWho ==
    ASSUME NEW inventory, NEW size PROVE CloserOf(inventory, size) \in Who
<1>1. CASE \E s \in Sources : Owners(inventory) = {s} /\ size <= inventory[s]
  <2>1. (CHOOSE s \in Sources : Owners(inventory) = {s}) \in Sources
    BY <1>1
  <2>. QED  BY <1>1, <2>1 DEF CloserOf, Who
<1>2. CASE ~\E s \in Sources : Owners(inventory) = {s} /\ size <= inventory[s]
  BY <1>2 DEF CloserOf, Who
<1>. QED  BY <1>1, <1>2

LEMMA CreditedWho ==
    ASSUME trades \in Seq(Trade), NEW i \in 1 .. Len(trades), NEW owned
    PROVE  Credited(i, owned) \in Who /\ trades[i].size \in Nat
<1>1. trades[i] \in Trade
  OBVIOUS
<1>. QED  BY <1>1, CloserOfWho DEF Trade, Credited, Who

LEMMA AppliedTyped ==
    ASSUME NEW i, trades[i].size \in Nat, NEW who \in Who, NEW owned \in [Sources -> Nat]
    PROVE  Applied(i, who, owned) \in [Sources -> Nat]
BY LedgerAssumption DEF Applied, Who, Least

Books == [credit : Seq(Who), src : [Sources -> Nat]]

LEMMA ImportedTyped ==
    ASSUME trades \in Seq(Trade), NEW c \in Seq(Who), NEW owned \in [Sources -> Nat],
           NEW upto \in Nat, Len(c) <= upto, upto <= Len(trades)
    PROVE  Imported(c, owned, upto) \in Books /\ Len(Imported(c, owned, upto).credit) = upto
<1>. DEFINE a == Len(c)
            v == [credit |-> c, src |-> owned]
            next(w, n) == [credit |-> Append(w.credit, Credited(n, w.src)),
                           src |-> Applied(n, Credited(n, w.src), w.src)]
            rec(g) == [n \in a .. upto |-> IF n = a THEN v ELSE next(g[n - 1], n)]
            s == CHOOSE g : g = rec(g)
            step == [w \in Books |-> [n \in a + 1 .. upto |-> next(w, n)]]
<1>1. ASSUME NEW w \in Books, NEW n \in a + 1 .. upto
      PROVE  next(w, n) \in Books /\ Len(next(w, n).credit) = Len(w.credit) + 1
  <2>1. n \in 1 .. Len(trades)
    OBVIOUS
  <2>2. w.credit \in Seq(Who) /\ w.src \in [Sources -> Nat]
    BY DEF Books
  <2>3. Credited(n, w.src) \in Who /\ trades[n].size \in Nat
    BY <2>1, CreditedWho
  <2>4. Applied(n, Credited(n, w.src), w.src) \in [Sources -> Nat]
    BY <2>2, <2>3, AppliedTyped
  <2>. QED  BY <2>2, <2>3, <2>4 DEF Books
<1>2. v \in Books /\ a \in Nat /\ a <= upto
  BY DEF Books
<1>3. PICK g \in [a .. upto -> Books] : Steps(g, a, upto, v, step)
  <2>1. step \in StepMaps(a, upto, Books)
    BY <1>1 DEF StepMaps
  <2>. HIDE DEF step, v, a
  <2>. QED  BY <1>2, <2>1, StepsExist
<1>4. g = rec(g)
  <2>1. ASSUME NEW n \in a .. upto, n # a
        PROVE  g[n] = next(g[n - 1], n)
    <3>1. n - 1 \in a .. upto /\ n \in a + 1 .. upto
      BY <2>1
    <3>2. g[n - 1] \in Books
      BY <3>1
    <3>3. g[n] = step[g[n - 1]][n]
      BY <1>3, <2>1 DEF Steps
    <3>. QED  BY <3>1, <3>2, <3>3
  <2>. HIDE DEF next, v, a, step
  <2>. QED  BY <1>3, <2>1 DEF Steps
<1>5. s = rec(s)
  <2>. HIDE DEF rec
  <2>. QED  BY <1>4
<1>6. Imported(c, owned, upto) = s[upto]
  BY DEF Imported
<1>. HIDE DEF s
<1>. DEFINE B == {n \in a .. upto : ~(s[n] \in Books /\ Len(s[n].credit) = n)}
<1>7. \A n \in a + 1 .. upto : n \in B => n - 1 \in B
  <2>. SUFFICES ASSUME NEW n \in a + 1 .. upto, n - 1 \notin B PROVE n \notin B
    OBVIOUS
  <2>1. n \in a .. upto /\ n - 1 \in a .. upto /\ n # a
    BY <1>2
  <2>2. s[n] = next(s[n - 1], n)
    <3>. HIDE DEF next, v, B
    <3>. QED  BY <1>5, <2>1
  <2>3. s[n - 1] \in Books /\ Len(s[n - 1].credit) = n - 1
    BY <2>1
  <2>4. s[n] \in Books /\ Len(s[n].credit) = n
    <3>. HIDE DEF next
    <3>. QED  BY <1>1, <1>2, <2>2, <2>3
  <2>. QED  BY <2>4
<1>8. a \notin B
  BY <1>2, <1>5
<1>9. B = {}
  <2>1. B \subseteq a .. upto
    OBVIOUS
  <2>. HIDE DEF B, a
  <2>. QED  BY <1>2, <1>7, <1>8, <2>1, NoneFails
<1>. QED  BY <1>2, <1>6, <1>9

LEMMA MovedTyped ==
    ASSUME NEW k, NEW size \in Nat, NEW open, NEW p \in [Sources -> Nat]
    PROVE  [p EXCEPT ![k] = IF open THEN @ + size ELSE @ - Least(@, size)] \in [Sources -> Nat]
<1>1. ASSUME NEW s \in Sources
      PROVE  p[s] + size \in Nat /\ p[s] - Least(p[s], size) \in Nat
  BY DEF Least
<1>. HIDE DEF Least
<1>. QED  BY <1>1

Inventories == [credit : Seq(Who), inventory : [Sources -> Nat]]

LEMMA ReplayTyped ==
    ASSUME trades \in Seq(Trade), NEW c \in Seq(Who), Len(c) <= Len(trades)
    PROVE  FromInventory(c) \in Seq(Who) /\ Len(FromInventory(c)) = Len(c)
<1>. DEFINE a == 0
            upto == Len(c)
            v == [inventory |-> [s \in Sources |-> 0], credit |-> <<>>]
            who(w, n) == IF c[n] = Exchange /\ ~trades[n].open
                         THEN CloserOf(w.inventory, trades[n].size) ELSE c[n]
            next(w, n) == [credit |-> Append(w.credit, who(w, n)),
                           inventory |-> IF who(w, n) = Exchange THEN w.inventory
                                         ELSE [w.inventory EXCEPT ![who(w, n)] =
                                                 IF trades[n].open THEN @ + trades[n].size
                                                 ELSE @ - Least(@, trades[n].size)]]
            rec(g) == [n \in 0 .. Len(c) |-> IF n = 0 THEN v ELSE next(g[n - 1], n)]
            s == CHOOSE g : g = rec(g)
            step == [w \in Inventories |-> [n \in a + 1 .. upto |-> next(w, n)]]
<1>1. ASSUME NEW w \in Inventories, NEW n \in a + 1 .. upto
      PROVE  next(w, n) \in Inventories /\ Len(next(w, n).credit) = Len(w.credit) + 1
  <2>1. n \in 1 .. Len(trades) /\ c[n] \in Who
    OBVIOUS
  <2>2. w.credit \in Seq(Who) /\ w.inventory \in [Sources -> Nat]
    BY DEF Inventories
  <2>3. who(w, n) \in Who
    BY <2>1, CloserOfWho
  <2>4. trades[n].size \in Nat
    BY <2>1, CreditedWho
  <2>. HIDE DEF who
  <2>5. [w.inventory EXCEPT ![who(w, n)] = IF trades[n].open THEN @ + trades[n].size
                                           ELSE @ - Least(@, trades[n].size)] \in [Sources -> Nat]
    BY <2>2, <2>4, MovedTyped
  <2>. QED  BY <2>2, <2>3, <2>5 DEF Inventories
<1>2. v \in Inventories /\ a \in Nat /\ a <= upto /\ upto \in Nat
  BY DEF Inventories
<1>3. PICK g \in [a .. upto -> Inventories] : Steps(g, a, upto, v, step)
  <2>1. step \in StepMaps(a, upto, Inventories)
    BY <1>1 DEF StepMaps
  <2>. HIDE DEF step, v, a, upto
  <2>. QED  BY <1>2, <2>1, StepsExist
<1>4. g = rec(g)
  <2>1. ASSUME NEW n \in 0 .. Len(c), n # 0
        PROVE  g[n] = next(g[n - 1], n)
    <3>1. n - 1 \in 0 .. Len(c) /\ n \in a + 1 .. upto
      BY <2>1
    <3>2. g[n - 1] \in Inventories
      BY <3>1
    <3>3. g[n] = step[g[n - 1]][n]
      BY <1>3, <2>1 DEF Steps
    <3>. HIDE DEF next
    <3>. QED  BY <3>1, <3>2, <3>3
  <2>. HIDE DEF next, v, step
  <2>. QED  BY <1>3, <2>1 DEF Steps
<1>5. s = rec(s)
  <2>. HIDE DEF rec
  <2>. QED  BY <1>4
<1>6. FromInventory(c) = s[Len(c)].credit
  BY DEF FromInventory, Replay
<1>. HIDE DEF s
<1>. DEFINE B == {n \in 0 .. Len(c) : ~(s[n] \in Inventories /\ Len(s[n].credit) = n)}
<1>7. \A n \in a + 1 .. upto : n \in B => n - 1 \in B
  <2>. SUFFICES ASSUME NEW n \in a + 1 .. upto, n - 1 \notin B PROVE n \notin B
    OBVIOUS
  <2>1. n \in 0 .. Len(c) /\ n - 1 \in 0 .. Len(c) /\ n # 0
    OBVIOUS
  <2>2. s[n] = next(s[n - 1], n)
    <3>. HIDE DEF next, v, B
    <3>. QED  BY <1>5, <2>1
  <2>3. s[n - 1] \in Inventories /\ Len(s[n - 1].credit) = n - 1
    BY <2>1
  <2>4. s[n] \in Inventories /\ Len(s[n].credit) = n
    <3>. HIDE DEF next
    <3>. QED  BY <1>1, <2>2, <2>3
  <2>. QED  BY <2>4
<1>8. 0 \notin B
  <2>1. s[0] = v
    <3>. HIDE DEF v, next
    <3>. QED  BY <1>5
  <2>2. v.credit = <<>>
    OBVIOUS
  <2>. QED  BY <1>2, <2>1, <2>2
<1>9. B = {}
  <2>1. B \subseteq a .. upto /\ a \notin B
    BY <1>8
  <2>. HIDE DEF B, a, upto
  <2>. QED  BY <1>2, <1>7, <2>1, NoneFails
<1>10. s[Len(c)] \in Inventories /\ Len(s[Len(c)].credit) = Len(c)
  BY <1>9
<1>. QED  BY <1>6, <1>10 DEF Inventories

LEMMA FromOrdersTyped ==
    ASSUME trades \in Seq(Trade), NEW c \in Seq(Who), Len(c) <= Len(trades)
    PROVE  FromOrders(c) \in Seq(Who) /\ Len(FromOrders(c)) = Len(c)
BY DEF FromOrders, Who
----------------------------------------------------------------------------
(* The invariant.  What sources opened after the first n executions is     *)
(* ahead of them.                                                          *)
Weight(t, n, i) == IF i > n /\ t[i].by \in Sources /\ t[i].open THEN t[i].size ELSE 0

Ahead(t, n) == Total([i \in DOMAIN t |-> Weight(t, n, i)])

Run == [pc : {"idle", "fills", "read"}, upto : Nat, read : BOOLEAN, pos : Nat,
        whole : BOOLEAN, out : Nat]

RunTyped ==
    /\ run \in Run
    /\ run.pc # "idle" => Len(credit) <= run.upto /\ run.upto <= Len(trades)

Fits == \A i \in DOMAIN trades : trades[i].size <= trades[i].ask

ReadCovers ==
    run.pc = "read" =>
        (run.whole => run.read) /\ net <= run.pos + run.out + Ahead(trades, run.upto)

Covered ==
    complete => net <= row + outside + Ahead(trades, Len(credit)) /\ Total(src) <= row

LedgerInv == TypeOK /\ RunTyped /\ Fits /\ ReadCovers /\ Covered

LEMMA WeightNat ==
    ASSUME NEW t \in Seq(Trade), NEW n \in Nat
    PROVE  [i \in DOMAIN t |-> Weight(t, n, i)] \in [1 .. Len(t) -> Nat] /\ IsFiniteSet(1 .. Len(t))
<1>1. ASSUME NEW i \in 1 .. Len(t)
      PROVE  t[i].size \in Nat
  <2>1. t[i] \in Trade
    OBVIOUS
  <2>. QED  BY <2>1 DEF Trade
<1>2. \A i \in DOMAIN t : Weight(t, n, i) \in Nat
  BY <1>1 DEF Weight
<1>3. DOMAIN t = 1 .. Len(t) /\ IsFiniteSet(1 .. Len(t))
  BY FS_Interval
<1>. QED  BY <1>2, <1>3

LEMMA AheadNat ==
    ASSUME NEW t \in Seq(Trade), NEW n \in Nat
    PROVE  Ahead(t, n) \in Nat
BY WeightNat, TotalNat DEF Ahead

LEMMA AheadAppend ==
    ASSUME NEW t \in Seq(Trade), NEW e \in Trade, NEW n \in Nat, n <= Len(t)
    PROVE  /\ e.by \in Sources /\ e.open => Ahead(Append(t, e), n) = Ahead(t, n) + e.size
           /\ ~(e.by \in Sources /\ e.open) => Ahead(Append(t, e), n) = Ahead(t, n)
<1>. DEFINE u == Append(t, e)
            y == Len(t) + 1
            D == 1 .. y
            f == [i \in DOMAIN u |-> Weight(u, n, i)]
<1>1. u \in Seq(Trade) /\ Len(u) = y /\ DOMAIN u = D /\ y \in D /\ u[y] = e /\ y > n
  OBVIOUS
<1>2. f \in [D -> Nat] /\ IsFiniteSet(D)
  <2>. HIDE DEF u, y
  <2>. QED  BY <1>1, WeightNat
<1>3. Without(f, y) = [i \in DOMAIN t |-> Weight(t, n, i)]
  <2>1. DOMAIN f \ {y} = DOMAIN t
    <3>1. DOMAIN f = 1 .. Len(t) + 1
      BY <1>1
    <3>2. DOMAIN t = 1 .. Len(t) /\ Len(t) \in Nat
      OBVIOUS
    <3>3. (1 .. Len(t) + 1) \ {Len(t) + 1} = 1 .. Len(t)
      BY <3>2
    <3>. HIDE DEF f
    <3>. QED  BY <3>1, <3>2, <3>3
  <2>2. \A i \in DOMAIN t : u[i] = t[i]
    OBVIOUS
  <2>. QED  BY <2>1, <2>2 DEF Without, Weight
<1>4. f[y] = IF e.by \in Sources /\ e.open THEN e.size ELSE 0
  BY <1>1 DEF Weight
<1>. HIDE DEF f, D, u
<1>5. Total(f) = f[y] + Total(Without(f, y)) /\ Total(Without(f, y)) \in Nat
  <2>. HIDE DEF y
  <2>. QED  BY <1>1, <1>2, TotalSplit
<1>6. Ahead(u, n) = Total(f) /\ Ahead(t, n) = Total(Without(f, y))
  BY <1>3 DEF Ahead, f
<1>7. e.size \in Nat
  BY DEF Trade
<1>. QED  BY <1>4, <1>5, <1>6, <1>7 DEF u

LEMMA AheadKnown ==
    ASSUME NEW t \in Seq(Trade), NEW n \in Nat, NEW i \in DOMAIN t
    PROVE  Ahead([t EXCEPT ![i].known = TRUE], n) = Ahead(t, n)
<1>. DEFINE u == [t EXCEPT ![i].known = TRUE]
<1>1. DOMAIN u = DOMAIN t
  OBVIOUS
<1>2. ASSUME NEW j \in DOMAIN t
      PROVE  Weight(u, n, j) = Weight(t, n, j)
  <2>1. t[j] \in Trade
    OBVIOUS
  <2>2. u[j].by = t[j].by /\ u[j].open = t[j].open /\ u[j].size = t[j].size
    BY <2>1 DEF Trade
  <2>. HIDE DEF u
  <2>. QED  BY <2>2 DEF Weight
<1>. HIDE DEF u
<1>3. [j \in DOMAIN u |-> Weight(u, n, j)] = [j \in DOMAIN t |-> Weight(t, n, j)]
  BY <1>1, <1>2
<1>4. Ahead(u, n) = Ahead(t, n)
  BY <1>3, Zenon DEF Ahead
<1>. QED  BY <1>4 DEF u

(* What the gate reserves for orders covers what they have ahead.          *)
LEMMA InvCovers == LedgerInv => NothingMissed
<1>. SUFFICES ASSUME LedgerInv, complete
              PROVE  Exposure + outside >= net /\ Total(src) <= row
  BY DEF NothingMissed
<1>. DEFINE r == [i \in DOMAIN trades |-> Reserved(i)]
            w == [i \in DOMAIN trades |-> Weight(trades, Len(credit), i)]
            D == 1 .. Len(trades)
<1>1. trades \in Seq(Trade) /\ Len(credit) \in Nat
  BY DEF LedgerInv, TypeOK
<1>2. w \in [D -> Nat] /\ IsFiniteSet(D)
  BY <1>1, WeightNat
<1>3. ASSUME NEW i \in D
      PROVE  Reserved(i) \in Nat /\ Weight(trades, Len(credit), i) <= Reserved(i)
  <2>1. trades[i] \in Trade /\ trades[i].size <= trades[i].ask
    BY <1>1 DEF LedgerInv, Fits
  <2>2. trades[i].size \in Nat /\ trades[i].ask \in Nat
    BY <2>1, LedgerAssumption DEF Trade
  <2>3. Material(i) \in Nat /\ (i > Len(credit) => Material(i) = 0)
    BY <2>2, <1>1 DEF Material
  <2>. QED  BY <2>1, <2>2, <2>3, <1>1 DEF Reserved, Weight
<1>4. r \in [D -> Nat] /\ \A i \in D : w[i] <= r[i]
  BY <1>1, <1>3
<1>. HIDE DEF r, w, D
<1>5. Total(w) <= Total(r) /\ Total(w) \in Nat /\ Total(r) \in Nat
  BY <1>2, <1>4, TotalMonotone, TotalNat
<1>6. Total(w) = Ahead(trades, Len(credit)) /\ Exposure = Most(Total(src), row) + Total(r)
  BY DEF Ahead, Exposure, w, r
<1>7. Total(src) \in Nat
  BY LedgerAssumption, TotalNat DEF LedgerInv, TypeOK
<1>8. row \in Nat /\ outside \in Nat /\ net \in Nat
  BY DEF LedgerInv, TypeOK
<1>9. net <= row + outside + Ahead(trades, Len(credit)) /\ Total(src) <= row
  BY DEF LedgerInv, Covered
<1>. QED  BY <1>5, <1>6, <1>7, <1>8, <1>9 DEF Most
----------------------------------------------------------------------------
LEMMA InvInit == Init => LedgerInv
<1>. SUFFICES ASSUME Init PROVE LedgerInv
  OBVIOUS
<1>1. TypeOK
  <2>1. trades \in Seq(Trade) /\ Len(trades) = 0 /\ credit \in Seq(Sources \cup {Exchange}) /\ Len(credit) = 0
    BY DEF Init
  <2>2. src \in [Sources -> Nat] /\ row \in Nat /\ net \in Nat /\ outside \in Nat /\ complete \in BOOLEAN
    BY DEF Init
  <2>. QED  BY <2>1, <2>2, LedgerAssumption DEF TypeOK
<1>2. RunTyped /\ Fits /\ ReadCovers /\ Covered
  BY DEF Init, RunTyped, Run, Fits, ReadCovers, Covered, NoRun
<1>. QED  BY <1>1, <1>2 DEF LedgerInv

LEMMA Appended ==
    ASSUME NEW t \in Seq(Trade), NEW e \in Trade
    PROVE  /\ Append(t, e) \in Seq(Trade) /\ Len(Append(t, e)) = Len(t) + 1
           /\ \A i \in DOMAIN Append(t, e) :
                Append(t, e)[i] = e \/ (i \in DOMAIN t /\ Append(t, e)[i] = t[i])
<1>1. Append(t, e) \in Seq(Trade) /\ Len(Append(t, e)) = Len(t) + 1
  OBVIOUS
<1>2. ASSUME NEW i \in 1 .. Len(t) PROVE i \in DOMAIN t /\ Append(t, e)[i] = t[i]
  OBVIOUS
<1>3. Append(t, e)[Len(t) + 1] = e
  OBVIOUS
<1>4. ASSUME NEW i \in DOMAIN Append(t, e) PROVE i \in 1 .. Len(t) \/ i = Len(t) + 1
  <2>1. DOMAIN Append(t, e) = 1 .. Len(t) + 1 /\ Len(t) \in Nat
    BY <1>1
  <2>. QED  BY <2>1
<1>5. ASSUME NEW i \in DOMAIN Append(t, e)
      PROVE  Append(t, e)[i] = e \/ (i \in DOMAIN t /\ Append(t, e)[i] = t[i])
  <2>. DEFINE u == Append(t, e)
  <2>1. i \in 1 .. Len(t) \/ i = Len(t) + 1
    BY <1>4
  <2>. HIDE DEF u
  <2>2. i \in 1 .. Len(t) => i \in DOMAIN t /\ u[i] = t[i]
    BY <1>2 DEF u
  <2>3. u[Len(t) + 1] = e
    BY <1>3 DEF u
  <2>4. u[i] = e \/ (i \in DOMAIN t /\ u[i] = t[i])
    BY <2>1, <2>2, <2>3
  <2>. QED  BY <2>4 DEF u
<1>. QED  BY <1>1, <1>5

LEMMA RunMoved ==
    ASSUME NEW r \in Run, NEW d \in Nat
    PROVE  LET n == [r EXCEPT !.out = @ + d]
           IN /\ n \in Run /\ n.pc = r.pc /\ n.upto = r.upto /\ n.whole = r.whole
              /\ n.read = r.read /\ n.pos = r.pos /\ n.out = r.out + d
BY DEF Run

LEMMA TradeMoved ==
    ASSUME NEW n \in Nat, NEW m \in Nat, NEW d \in Nat, NEW g \in Nat,
           NEW p \in Nat, NEW o \in Nat, NEW a \in Nat, m <= n + d + g, n <= p + o + a
    PROVE  m <= p + (o + d) + (a + g)
OBVIOUS

(* An execution brings the position no more than it is ahead, or than is   *)
(* noted as opened outside.                                                *)
LEMMA AfterTrade ==
    ASSUME LedgerInv, NEW e \in Trade, trades' = Append(trades, e), e.size <= e.ask,
           Len(trades) < MaxTrades, UNCHANGED ledger,
           NEW d \in Nat, net' \in Nat,
           net' <= net + d + (IF e.by \in Sources /\ e.open THEN e.size ELSE 0),
           outside' = outside + d, run' = [run EXCEPT !.out = @ + d]
    PROVE  LedgerInv'
<1>. DEFINE gain == IF e.by \in Sources /\ e.open THEN e.size ELSE 0
<1>0. UNCHANGED <<credit, src, row, complete>>
  BY DEF ledger
<1>1. trades \in Seq(Trade) /\ Len(credit) \in Nat /\ Len(credit) <= Len(trades)
  BY DEF LedgerInv, TypeOK
<1>2. trades' \in Seq(Trade) /\ Len(trades') = Len(trades) + 1
      /\ \A i \in DOMAIN trades' : trades'[i] = e \/ (i \in DOMAIN trades /\ trades'[i] = trades[i])
  BY <1>1, Appended
<1>3. TypeOK'
  BY <1>0, <1>2, LedgerAssumption DEF LedgerInv, TypeOK
<1>4. RunTyped'
  <2>1. run' \in Run /\ run'.pc = run.pc /\ run'.upto = run.upto
    BY RunMoved DEF LedgerInv, RunTyped
  <2>2. run.pc # "idle" => Len(credit) <= run.upto /\ run.upto <= Len(trades)
    BY DEF LedgerInv, RunTyped
  <2>3. run.upto \in Nat /\ Len(trades) \in Nat
    BY <1>1 DEF LedgerInv, RunTyped, Run
  <2>4. run'.pc # "idle" => Len(credit') <= run'.upto /\ run'.upto <= Len(trades')
    BY <1>0, <1>2, <2>1, <2>2, <2>3
  <2>. QED  BY <2>1, <2>4 DEF RunTyped
<1>5. Fits'
  BY <1>2 DEF LedgerInv, Fits
<1>6. gain \in Nat /\ \A n \in Nat : n <= Len(trades) => Ahead(trades', n) = Ahead(trades, n) + gain
  <2>1. e.size \in Nat
    BY DEF Trade
  <2>2. ASSUME NEW n \in Nat, n <= Len(trades)
        PROVE  Ahead(trades', n) = Ahead(trades, n) + gain
    <3>1. Ahead(trades, n) \in Nat
      BY <1>1, AheadNat
    <3>. QED  BY <1>1, <2>2, <3>1, AheadAppend
  <2>. QED  BY <2>1, <2>2
<1>. HIDE DEF gain
<1>7. net \in Nat /\ outside \in Nat /\ row \in Nat /\ net' <= net + d + gain
  BY DEF LedgerInv, TypeOK, gain
<1>8. ReadCovers'
  <2>. SUFFICES ASSUME run'.pc = "read"
                PROVE  (run'.whole => run'.read) /\ net' <= run'.pos + run'.out + Ahead(trades', run'.upto)
    BY DEF ReadCovers
  <2>1. run.pc = "read" /\ run'.whole = run.whole /\ run'.read = run.read /\ run'.pos = run.pos
        /\ run'.out = run.out + d /\ run'.upto = run.upto
        /\ run.upto \in Nat /\ run.upto <= Len(trades) /\ run.pos \in Nat /\ run.out \in Nat
    <3>1. run \in Run /\ (run.pc # "idle" => run.upto <= Len(trades))
      BY DEF LedgerInv, RunTyped
    <3>2. run.upto \in Nat /\ run.pos \in Nat /\ run.out \in Nat
      BY <3>1 DEF Run
    <3>. QED  BY <3>1, <3>2, RunMoved
  <2>2. (run.whole => run.read) /\ net <= run.pos + run.out + Ahead(trades, run.upto)
    BY <2>1 DEF LedgerInv, ReadCovers
  <2>3. Ahead(trades', run.upto) = Ahead(trades, run.upto) + gain /\ Ahead(trades, run.upto) \in Nat
    BY <1>1, <1>6, <2>1, AheadNat
  <2>4. net' <= run.pos + (run.out + d) + (Ahead(trades, run.upto) + gain)
    BY ZenonT(30), <1>6, <1>7, <2>1, <2>2, <2>3, TradeMoved
  <2>. QED  BY <2>1, <2>2, <2>3, <2>4
<1>9. Covered'
  <2>. SUFFICES ASSUME complete'
                PROVE  net' <= row' + outside' + Ahead(trades', Len(credit')) /\ Total(src') <= row'
    BY DEF Covered
  <2>1. net <= row + outside + Ahead(trades, Len(credit)) /\ Total(src) <= row
    BY <1>0 DEF LedgerInv, Covered
  <2>2. Ahead(trades', Len(credit)) = Ahead(trades, Len(credit)) + gain /\ Ahead(trades, Len(credit)) \in Nat
    BY <1>1, <1>6, AheadNat
  <2>. QED  BY SMTT(20), <1>0, <1>6, <1>7, <2>1, <2>2
<1>. QED  BY <1>3, <1>4, <1>5, <1>8, <1>9 DEF LedgerInv

LEMMA RunOut ==
    ASSUME RunTyped PROVE run = [run EXCEPT !.out = @ + 0]
BY DEF RunTyped, Run

LEMMA InvOpenTrade ==
    ASSUME LedgerInv, NEW s \in Sources, NEW ask \in Lots, NEW size \in Lots, NEW tagged \in BOOLEAN,
           OpenTrade(s, ask, size, tagged)
    PROVE  LedgerInv'
<1>. DEFINE e == [by |-> s, open |-> TRUE, ask |-> ask, size |-> size, tagged |-> tagged, known |-> FALSE]
<1>1. e \in Trade /\ trades' = Append(trades, e)
  BY LedgerAssumption DEF Trade, OpenTrade, Execution
<1>2. e.size <= e.ask /\ Len(trades) < MaxTrades /\ UNCHANGED ledger
  BY DEF OpenTrade
<1>3. net \in Nat /\ outside \in Nat /\ size \in Nat /\ e.by \in Sources /\ e.open /\ e.size = size
  BY LedgerAssumption DEF LedgerInv, TypeOK
<1>4. net' = net + size /\ outside' = outside /\ run' = run
  BY DEF OpenTrade
<1>. HIDE DEF e
<1>5. run' = [run EXCEPT !.out = @ + 0]
  BY <1>4, RunOut DEF LedgerInv
<1>6. net' \in Nat /\ net' <= net + 0 + (IF e.by \in Sources /\ e.open THEN e.size ELSE 0)
      /\ outside' = outside + 0
  BY <1>3, <1>4
<1>. QED  BY <1>1, <1>2, <1>5, <1>6, AfterTrade

LEMMA InvCloseTrade ==
    ASSUME LedgerInv, NEW s \in Sources, NEW ask \in Lots, NEW tagged \in BOOLEAN,
           CloseTrade(s, ask, tagged)
    PROVE  LedgerInv'
<1>. DEFINE size == Least(ask, net)
            e == [by |-> s, open |-> FALSE, ask |-> ask, size |-> size, tagged |-> tagged, known |-> FALSE]
<1>0. net \in Nat /\ outside \in Nat /\ ask \in Nat
  BY LedgerAssumption DEF LedgerInv, TypeOK
<1>1. size \in Nat /\ size <= ask /\ size <= net
  BY <1>0 DEF Least
<1>2. e \in Trade /\ trades' = Append(trades, e)
  BY <1>1, LedgerAssumption DEF Trade, CloseTrade, Execution
<1>3. e.size <= e.ask /\ Len(trades) < MaxTrades /\ UNCHANGED ledger /\ ~e.open
  BY <1>1 DEF CloseTrade
<1>4. net' = net - size /\ outside' = outside /\ run' = run
  BY DEF CloseTrade
<1>. HIDE DEF e, size
<1>5. run' = [run EXCEPT !.out = @ + 0]
  BY <1>4, RunOut DEF LedgerInv
<1>6. net' \in Nat /\ net' <= net + 0 + (IF e.by \in Sources /\ e.open THEN e.size ELSE 0)
      /\ outside' = outside + 0
  BY <1>0, <1>1, <1>3, <1>4
<1>. QED  BY <1>2, <1>3, <1>5, <1>6, AfterTrade

LEMMA InvOutsideTrade ==
    ASSUME LedgerInv, NEW open \in BOOLEAN, NEW size \in Lots, OutsideTrade(open, size)
    PROVE  LedgerInv'
<1>. DEFINE e == [by |-> Exchange, open |-> open, ask |-> size, size |-> size, tagged |-> FALSE,
                  known |-> FALSE]
            d == IF open THEN size ELSE 0
<1>0. net \in Nat /\ outside \in Nat /\ size \in Nat
  BY LedgerAssumption DEF LedgerInv, TypeOK
<1>1. e \in Trade /\ trades' = Append(trades, e)
  BY <1>0 DEF Trade, OutsideTrade, Execution
<1>2. e.size <= e.ask /\ e.by \notin Sources
  BY <1>0, LedgerAssumption
<1>3. Len(trades) < MaxTrades /\ UNCHANGED ledger
  BY DEF OutsideTrade
<1>4. d \in Nat /\ outside' = outside + d
  BY <1>0 DEF OutsideTrade
<1>5. run' = [run EXCEPT !.out = @ + d]
  BY RunOut DEF OutsideTrade, LedgerInv
<1>6. net' \in Nat /\ net' <= net + d
  BY <1>0 DEF OutsideTrade
<1>. HIDE DEF e, d
<1>7. net' <= net + d + (IF e.by \in Sources /\ e.open THEN e.size ELSE 0)
  BY <1>0, <1>2, <1>4, <1>6
<1>. QED  BY <1>1, <1>2, <1>3, <1>4, <1>5, <1>6, <1>7, AfterTrade

LEMMA InvLearn ==
    ASSUME LedgerInv, NEW i \in DOMAIN trades, Learn(i)
    PROVE  LedgerInv'
<1>0. UNCHANGED <<credit, src, row, complete, net, outside, run>> /\ trades' = [trades EXCEPT ![i].known = TRUE]
  BY DEF Learn, ledger
<1>1. trades \in Seq(Trade) /\ Len(credit) \in Nat
  BY DEF LedgerInv, TypeOK
<1>2. trades' \in Seq(Trade) /\ Len(trades') = Len(trades)
  <2>1. trades[i] \in Trade
    BY <1>1
  <2>2. [trades[i] EXCEPT !.known = TRUE] \in Trade
    BY <2>1 DEF Trade
  <2>3. trades' = [trades EXCEPT ![i] = [trades[i] EXCEPT !.known = TRUE]]
    BY <1>0
  <2>. QED  BY <1>1, <2>2, <2>3
<1>3. TypeOK'
  BY <1>0, <1>2 DEF LedgerInv, TypeOK
<1>4. RunTyped'
  BY <1>0, <1>2 DEF LedgerInv, RunTyped
<1>5. Fits'
  <2>1. ASSUME NEW j \in DOMAIN trades'
        PROVE  trades'[j].size <= trades'[j].ask
    <3>1. j \in DOMAIN trades
      BY <1>0
    <3>2. trades[j] \in Trade /\ trades[j].size <= trades[j].ask
      BY <1>1, <3>1 DEF LedgerInv, Fits
    <3>3. trades'[j].size = trades[j].size /\ trades'[j].ask = trades[j].ask
      BY <1>0, <3>1, <3>2 DEF Trade
    <3>. QED  BY <3>2, <3>3
  <2>. QED  BY <2>1 DEF Fits
<1>6. \A n \in Nat : Ahead(trades', n) = Ahead(trades, n)
  BY <1>0, <1>1, AheadKnown
<1>7. run.upto \in Nat
  BY DEF LedgerInv, RunTyped, Run
<1>8. ReadCovers' /\ Covered'
  <2>1. Ahead(trades', run.upto) = Ahead(trades, run.upto)
        /\ Ahead(trades', Len(credit)) = Ahead(trades, Len(credit))
    BY <1>1, <1>6, <1>7
  <2>. QED  BY <1>0, <2>1 DEF LedgerInv, ReadCovers, Covered
<1>. QED  BY <1>3, <1>4, <1>5, <1>8 DEF LedgerInv

LEMMA InvFetchFills ==
    ASSUME LedgerInv, FetchFills
    PROVE  LedgerInv'
<1>1. UNCHANGED <<trades, credit, src, row, complete, net, outside>>
  BY DEF FetchFills, ledger
<1>2. PICK n \in Len(credit) .. Len(trades) :
        run' = [NoRun EXCEPT !.pc = "fills", !.upto = n, !.whole = (n = Len(trades))]
  BY DEF FetchFills
<1>3. Len(credit) \in Nat /\ Len(trades) \in Nat
  BY DEF LedgerInv, TypeOK
<1>4. run' \in Run /\ run'.pc = "fills" /\ run'.upto = n /\ Len(credit) <= n /\ n <= Len(trades)
  <2>1. n \in Nat /\ Len(credit) <= n /\ n <= Len(trades)
    BY <1>3
  <2>2. run' = [pc |-> "fills", upto |-> n, read |-> FALSE, pos |-> 0,
                whole |-> (n = Len(trades)), out |-> 0]
    BY <1>2 DEF NoRun
  <2>3. (n = Len(trades)) \in BOOLEAN
    OBVIOUS
  <2>. QED  BY <2>1, <2>2, <2>3 DEF Run
<1>5. TypeOK' /\ Fits'
  BY <1>1 DEF LedgerInv, TypeOK, Fits
<1>6. RunTyped' /\ ReadCovers'
  BY <1>1, <1>4 DEF RunTyped, ReadCovers
<1>7. Covered'
  BY <1>1 DEF LedgerInv, Covered
<1>. QED  BY <1>5, <1>6, <1>7 DEF LedgerInv

LEMMA InvFetchPositions ==
    ASSUME LedgerInv, FetchPositions
    PROVE  LedgerInv'
<1>1. UNCHANGED <<trades, credit, src, row, complete, net, outside>>
  BY DEF FetchPositions, ledger
<1>2. PICK read \in BOOLEAN :
        run' = [run EXCEPT !.pc = "read", !.read = read, !.pos = net, !.out = 0, !.whole = @ /\ read]
  BY DEF FetchPositions
<1>3. run \in Run /\ net \in Nat /\ trades \in Seq(Trade)
      /\ Len(credit) <= run.upto /\ run.upto <= Len(trades)
  BY DEF LedgerInv, RunTyped, TypeOK, FetchPositions
<1>4. run' \in Run /\ run'.upto = run.upto /\ run'.pos = net /\ run'.out = 0
      /\ (run'.whole => run'.read)
  BY <1>2, <1>3 DEF Run
<1>5. TypeOK' /\ Fits'
  BY <1>1 DEF LedgerInv, TypeOK, Fits
<1>6. RunTyped'
  BY <1>1, <1>3, <1>4 DEF RunTyped
<1>7. ReadCovers'
  <2>1. run.upto \in Nat
    BY <1>3 DEF Run
  <2>2. Ahead(trades, run.upto) \in Nat
    BY <1>3, <2>1, AheadNat
  <2>. QED  BY <1>1, <1>3, <1>4, <2>2 DEF ReadCovers
<1>8. Covered'
  BY <1>1 DEF LedgerInv, Covered
<1>. QED  BY <1>5, <1>6, <1>7, <1>8 DEF LedgerInv

LEMMA InvFailReconciliation ==
    ASSUME LedgerInv, FailReconciliation
    PROVE  LedgerInv'
<1>1. run' \in Run /\ run'.pc = "idle" /\ complete' = FALSE
  BY DEF FailReconciliation, NoRun, Run
<1>2. UNCHANGED <<trades, credit, src, row, net, outside>>
  BY DEF FailReconciliation
<1>3. TypeOK' /\ Fits'
  BY <1>1, <1>2 DEF LedgerInv, TypeOK, Fits
<1>4. RunTyped' /\ ReadCovers' /\ Covered'
  BY <1>1 DEF RunTyped, ReadCovers, Covered
<1>. QED  BY <1>3, <1>4 DEF LedgerInv

(* The rows of the sources are scaled down to the position that was read.  *)
LEMMA SyncedFits ==
    ASSUME NEW owned \in [Sources -> Nat], NEW pos \in Nat
    PROVE  Synced(owned, pos) \in [Sources -> Nat] /\ Total(Synced(owned, pos)) <= pos
<1>0. IsFiniteSet(Sources)
  BY LedgerAssumption
<1>1. CASE pos < Total(owned)
  <2>1. Synced(owned, pos) = [s \in Sources |-> (owned[s] * pos) \div Total(owned)]
    BY <1>1 DEF Synced
  <2>. QED  BY <1>0, <1>1, <2>1, TotalScaled
<1>2. CASE ~(pos < Total(owned))
  <2>1. Synced(owned, pos) = owned
    BY <1>2 DEF Synced
  <2>2. Total(owned) \in Nat
    BY <1>0, TotalNat
  <2>. QED  BY <1>2, <2>1, <2>2
<1>. QED  BY <1>1, <1>2

LEMMA InvApplyReconciliation ==
    ASSUME LedgerInv, ApplyReconciliation
    PROVE  LedgerInv'
<1>. DEFINE repaired == FromInventory(FromOrders(credit))
            imported == Imported(repaired, src, run.upto)
<1>1. trades \in Seq(Trade) /\ credit \in Seq(Who) /\ Len(credit) <= Len(trades)
      /\ src \in [Sources -> Nat] /\ row \in Nat /\ outside \in Nat /\ net \in Nat
  BY DEF LedgerInv, TypeOK, Who
<1>2. run \in Run /\ run.pc = "read" /\ Len(credit) <= run.upto /\ run.upto <= Len(trades)
  BY DEF LedgerInv, RunTyped, ApplyReconciliation
<1>3. run.upto \in Nat /\ run.pos \in Nat /\ run.out \in Nat /\ run.read \in BOOLEAN /\ run.whole \in BOOLEAN
  BY <1>2 DEF Run
<1>4. repaired \in Seq(Who) /\ Len(repaired) = Len(credit)
  BY <1>1, FromOrdersTyped, ReplayTyped
<1>. HIDE DEF repaired
<1>5. imported \in Books /\ Len(imported.credit) = run.upto
  BY <1>1, <1>2, <1>3, <1>4, ImportedTyped
<1>6. /\ credit' = imported.credit
      /\ src' = IF run.read THEN Synced(imported.src, run.pos) ELSE imported.src
      /\ row' = IF run.read THEN run.pos ELSE row
      /\ complete' = run.whole /\ outside' = IF run.read THEN run.out ELSE outside
      /\ run' = NoRun /\ UNCHANGED <<trades, net>>
  BY DEF ApplyReconciliation, repaired
<1>. HIDE DEF imported
<1>7. imported.src \in [Sources -> Nat] /\ imported.credit \in Seq(Who)
  BY <1>5 DEF Books
<1>8. src' \in [Sources -> Nat]
  BY <1>3, <1>6, <1>7, SyncedFits
<1>9. TypeOK'
  BY <1>1, <1>2, <1>3, <1>5, <1>6, <1>7, <1>8 DEF LedgerInv, TypeOK, Who
<1>10. Fits' /\ RunTyped' /\ ReadCovers'
  BY <1>6 DEF LedgerInv, Fits, RunTyped, ReadCovers, NoRun, Run
<1>11. Covered'
  <2>. SUFFICES ASSUME complete'
                PROVE  net' <= row' + outside' + Ahead(trades', Len(credit')) /\ Total(src') <= row'
    BY DEF Covered
  <2>1. run.whole /\ run.read /\ net <= run.pos + run.out + Ahead(trades, run.upto)
    BY <1>2, <1>6 DEF LedgerInv, ReadCovers
  <2>2. row' = run.pos /\ outside' = run.out /\ src' = Synced(imported.src, run.pos)
    BY <1>6, <2>1
  <2>3. Total(src') <= row'
    BY <1>3, <1>7, <2>2, SyncedFits
  <2>. QED  BY <1>5, <1>6, <2>1, <2>2, <2>3
<1>. QED  BY <1>9, <1>10, <1>11 DEF LedgerInv

LEMMA InvNext ==
    ASSUME LedgerInv, [Next]_vars
    PROVE  LedgerInv'
<1>1. ASSUME NEW s \in Sources, NEW ask \in Lots, NEW size \in Lots, NEW tagged \in BOOLEAN,
             OpenTrade(s, ask, size, tagged)
      PROVE  LedgerInv'
  BY <1>1, InvOpenTrade
<1>2. ASSUME NEW s \in Sources, NEW ask \in Lots, NEW tagged \in BOOLEAN, CloseTrade(s, ask, tagged)
      PROVE  LedgerInv'
  BY <1>2, InvCloseTrade
<1>3. ASSUME NEW open \in BOOLEAN, NEW size \in Lots, OutsideTrade(open, size)
      PROVE  LedgerInv'
  BY <1>3, InvOutsideTrade
<1>4. ASSUME NEW i \in DOMAIN trades, Learn(i)
      PROVE  LedgerInv'
  BY <1>4, InvLearn
<1>5. CASE FetchFills \/ FetchPositions \/ ApplyReconciliation \/ FailReconciliation
  BY <1>5, InvFetchFills, InvFetchPositions, InvApplyReconciliation, InvFailReconciliation
<1>6. CASE UNCHANGED vars
  BY <1>6 DEF vars, LedgerInv, TypeOK, RunTyped, Fits, ReadCovers, Covered
<1>. QED  BY <1>1, <1>2, <1>3, <1>4, <1>5, <1>6 DEF Next

(* The invariant holds. *)
THEOREM LedgerInvariant == Spec => []LedgerInv
<1>. QED  BY InvInit, InvNext, PTL DEF Spec

(* After a complete reconciliation what the entry gate counts covers the   *)
(* position at the exchange, but for what was opened outside since, and    *)
(* the sources own no more than the position that was read.                *)
THEOREM GateMissesNothing == Spec => []NothingMissed
<1>. QED  BY LedgerInvariant, InvCovers, PTL
----------------------------------------------------------------------------

(***************************************************************************)
(* The paper account that copies.  What is copied is decided under the     *)
(* locks of the source and of the account: an outcome that was executed is *)
(* not written again, because the batch merges into the rows it finds      *)
(* there (Kept), and an entry looks at the positions of the other sources  *)
(* (Sided).  PartKeeps says both of one part; a fill and a batch compose   *)
(* it.                                                                     *)
(*                                                                         *)
(* The balance a batch writes may be old, and the invariant says nothing   *)
(* about it.                                                               *)
(***************************************************************************)
Sides == {"long", "short"}

Position == {NoPos} \cup [side : Sides, size : Nat \ {0}, id : Seq(Nat)]

PartsOf(s, i) == DOMAIN Plan[s][i].parts

Outcomes(s, i) == [PartsOf(s, i) -> RowOutcome]

RowsOf(s) ==
    {r \in [DOMAIN Plan[s] -> UNION {Outcomes(s, i) : i \in DOMAIN Plan[s]}] :
       \A i \in DOMAIN Plan[s] : r[i] \in Outcomes(s, i)}

Batch(s) == [pos : Position, rows : RowsOf(s), cash : Nat, enabled : BOOLEAN, exit : BOOLEAN]

(* Executed outcomes stay.                                                 *)
Kept(s, old, new) ==
    \A i \in DOMAIN Plan[s] : \A p \in PartsOf(s, i) :
        old[i][p] \in Executed => new[i][p] = old[i][p]

(* The position is on the side of the other positions.                     *)
Sided(s, pos) == pos # NoPos => ~HeldOpposite(s, pos.side)

LEMMA PlanFacts ==
    ASSUME NEW s \in Wallets, NEW i \in DOMAIN Plan[s]
    PROVE  /\ Plan[s][i].after \in Sides \cup {"none"}
           /\ Len(Plan[s][i].parts) \in {1, 2} /\ PartsOf(s, i) = 1 .. Len(Plan[s][i].parts)
           /\ \A p \in PartsOf(s, i) : Plan[s][i].parts[p] \in Part
<1>. DEFINE F == [parts : Seq(Part), after : {"long", "short", "none"}]
<1>1. Plan[s] \in Seq(F)
  BY PlanAssumption DEF Wallets
<1>2. Plan[s][i] \in F
  <2>. HIDE DEF F
  <2>. QED  BY <1>1
<1>3. Len(Plan[s][i].parts) \in {1, 2}
  BY PlanAssumption
<1>4. Plan[s][i].parts \in Seq(Part) /\ Plan[s][i].after \in Sides \cup {"none"}
  BY <1>2 DEF Sides
<1>. QED  BY <1>3, <1>4 DEF PartsOf

LEMMA RowsTyped ==
    ASSUME NEW s \in Wallets, NEW r \in RowsOf(s), NEW i \in DOMAIN Plan[s]
    PROVE  DOMAIN r = DOMAIN Plan[s] /\ r[i] \in [PartsOf(s, i) -> RowOutcome]
BY DEF RowsOf, Outcomes

LEMMA RecordedRow ==
    ASSUME NEW s \in Wallets, NEW r \in RowsOf(s), NEW i \in DOMAIN Plan[s], NEW p \in PartsOf(s, i),
           NEW o \in RowOutcome
    PROVE  LET n == [r EXCEPT ![i][p] = o]
           IN /\ n \in RowsOf(s)
              /\ \A j \in DOMAIN Plan[s] : \A q \in PartsOf(s, j) :
                   n[j][q] = IF j = i /\ q = p THEN o ELSE r[j][q]
<1>. DEFINE n == [r EXCEPT ![i][p] = o]
<1>1. DOMAIN n = DOMAIN Plan[s]
  BY RowsTyped
<1>2. ASSUME NEW j \in DOMAIN Plan[s]
      PROVE  n[j] \in [PartsOf(s, j) -> RowOutcome]
             /\ \A q \in PartsOf(s, j) : n[j][q] = IF j = i /\ q = p THEN o ELSE r[j][q]
  <2>1. DOMAIN r = DOMAIN Plan[s] /\ r[j] \in [PartsOf(s, j) -> RowOutcome]
        /\ r[i] \in [PartsOf(s, i) -> RowOutcome]
    BY RowsTyped
  <2>2. CASE j = i
    <3>1. n[j] = [r[i] EXCEPT ![p] = o]
      BY <2>1, <2>2
    <3>. QED  BY <2>1, <2>2, <3>1
  <2>3. CASE j # i
    <3>1. n[j] = r[j]
      BY <2>1, <2>3
    <3>. QED  BY <2>1, <2>3, <3>1
  <2>. QED  BY <2>2, <2>3
<1>3. n = [j \in DOMAIN Plan[s] |-> n[j]]
  BY <1>1
<1>. HIDE DEF n
<1>4. n \in RowsOf(s)
  <2>1. \A j \in DOMAIN Plan[s] : n[j] \in Outcomes(s, j)
    BY <1>2 DEF Outcomes
  <2>2. \A j \in DOMAIN Plan[s] : n[j] \in UNION {Outcomes(s, k) : k \in DOMAIN Plan[s]}
    BY <2>1
  <2>3. n \in [DOMAIN Plan[s] -> UNION {Outcomes(s, k) : k \in DOMAIN Plan[s]}]
    BY <1>3, <2>2
  <2>. QED  BY <2>1, <2>3 DEF RowsOf
<1>. QED  BY <1>2, <1>4 DEF n

LEMMA MergedRows ==
    ASSUME NEW s \in Wallets, NEW r \in RowsOf(s)
    PROVE  MergeBelow(r) \in RowsOf(s) /\ Kept(s, r, MergeBelow(r))
<1>. DEFINE n == MergeBelow(r)
<1>1. n = [i \in DOMAIN r |-> [p \in DOMAIN r[i] |-> IF r[i][p] = "below" THEN "merged" ELSE r[i][p]]]
  BY DEF MergeBelow
<1>2. DOMAIN r = DOMAIN Plan[s]
  BY DEF RowsOf
<1>3. ASSUME NEW j \in DOMAIN Plan[s]
      PROVE  /\ n[j] \in Outcomes(s, j)
             /\ \A q \in PartsOf(s, j) : n[j][q] = IF r[j][q] = "below" THEN "merged" ELSE r[j][q]
  <2>1. r[j] \in [PartsOf(s, j) -> RowOutcome]
    BY RowsTyped
  <2>2. n[j] = [p \in DOMAIN r[j] |-> IF r[j][p] = "below" THEN "merged" ELSE r[j][p]]
    BY <1>1, <1>2
  <2>3. "merged" \in RowOutcome
    BY DEF RowOutcome
  <2>. QED  BY <2>1, <2>2, <2>3 DEF Outcomes
<1>4. n = [j \in DOMAIN Plan[s] |-> n[j]]
  BY <1>1, <1>2
<1>. HIDE DEF n
<1>5. n \in RowsOf(s)
  <2>2. \A j \in DOMAIN Plan[s] : n[j] \in UNION {Outcomes(s, k) : k \in DOMAIN Plan[s]}
    BY <1>3
  <2>3. n \in [DOMAIN Plan[s] -> UNION {Outcomes(s, k) : k \in DOMAIN Plan[s]}]
    BY <1>4, <2>2
  <2>. QED  BY <1>3, <2>3 DEF RowsOf
<1>6. Kept(s, r, n)
  <2>1. "below" \notin Executed
    BY DEF Executed
  <2>. QED  BY <1>3, <2>1 DEF Kept
<1>. QED  BY <1>5, <1>6 DEF n

LEMMA KeptTransitive ==
    ASSUME NEW s, NEW x, NEW y, NEW z, Kept(s, x, y), Kept(s, y, z)
    PROVE  Kept(s, x, z)
BY DEF Kept

LEMMA BelowNat ==
    ASSUME NEW s \in Wallets, NEW r \in RowsOf(s)
    PROVE  Cardinality(Below(r)) \in Nat
<1>1. DOMAIN r = DOMAIN Plan[s]
  BY RowsTyped DEF RowsOf
<1>2. Plan[s] \in Seq([parts : Seq(Part), after : {"long", "short", "none"}])
  BY PlanAssumption DEF Wallets
<1>3. IsFiniteSet(DOMAIN r)
  <2>1. DOMAIN r = 1 .. Len(Plan[s]) /\ Len(Plan[s]) \in Nat
    BY <1>1, <1>2
  <2>2. IsFiniteSet(1 .. Len(Plan[s]))
    BY <2>1, FS_Interval
  <2>. QED  BY <2>1, <2>2
<1>4. IsFiniteSet({1, 2})
  <2>1. IsFiniteSet({1}) /\ {1, 2} = {1} \cup {2}
    BY FS_Singleton
  <2>2. IsFiniteSet({1} \cup {2})
    BY <2>1, FS_AddElement
  <2>. QED  BY <2>1, <2>2
<1>5. IsFiniteSet((DOMAIN r) \X {1, 2})
  BY <1>3, <1>4, FS_Product
<1>6. Below(r) \subseteq (DOMAIN r) \X {1, 2}
  BY DEF Below
<1>7. IsFiniteSet(Below(r))
  BY <1>5, <1>6, FS_Subset
<1>. QED  BY <1>7, FS_CardinalityType

(* What a part of a fill may do to the books of a batch.                   *)
PartKeeps(s, a, b) ==
    /\ b \in Batch(s) /\ Kept(s, a.rows, b.rows)
    /\ Sided(s, a.pos) => Sided(s, b.pos)

LEMMA RecordedKeeps ==
    ASSUME NEW s \in Wallets, NEW i \in DOMAIN Plan[s], NEW p \in PartsOf(s, i), NEW a \in Batch(s),
           NEW o \in RowOutcome, a.rows[i][p] \notin Executed
    PROVE  PartKeeps(s, a, Recorded(a, i, p, o)) /\ Recorded(a, i, p, o).pos = a.pos
<1>1. a.rows \in RowsOf(s)
  BY DEF Batch
<1>. DEFINE n == [a.rows EXCEPT ![i][p] = o]
            b == [a EXCEPT !.rows = n]
<1>2. Recorded(a, i, p, o) = b
  BY DEF Recorded, Batch
<1>3. n \in RowsOf(s) /\ Kept(s, a.rows, n)
  BY <1>1, RecordedRow DEF Kept
<1>. HIDE DEF n
<1>4. b \in Batch(s) /\ b.rows = n /\ b.pos = a.pos
  BY <1>3 DEF Batch
<1>. QED  BY <1>2, <1>3, <1>4 DEF PartKeeps

Moved(a, pos) == [a EXCEPT !.pos = pos, !.cash = a.cash + 1]

LEMMA BatchMoved ==
    ASSUME NEW s, NEW a \in Batch(s), NEW pos \in Position
    PROVE  Moved(a, pos) \in Batch(s) /\ Moved(a, pos).rows = a.rows /\ Moved(a, pos).pos = pos
<1>1. a.cash + 1 \in Nat
  BY DEF Batch
<1>2. [a EXCEPT !.pos = pos] \in Batch(s)
  BY DEF Batch
<1>3. Moved(a, pos) \in Batch(s)
  BY <1>1, <1>2 DEF Batch, Moved
<1>. QED  BY <1>3 DEF Batch, Moved

LEMMA OpenPartKeeps ==
    ASSUME NEW s \in Wallets, NEW i \in DOMAIN Plan[s], NEW p \in PartsOf(s, i), NEW a \in Batch(s), NEW in
    PROVE  PartKeeps(s, a, ApplyOpenPart(a, s, i, p, Plan[s][i].parts[p], in))
<1>. DEFINE part == Plan[s][i].parts[p]
            b == ApplyOpenPart(a, s, i, p, part, in)
<1>0. part \in Part /\ a.rows \in RowsOf(s) /\ a.exit \in BOOLEAN
  BY PlanFacts DEF Batch
<1>1. PartKeeps(s, a, a)
  BY DEF PartKeeps, Kept
<1>. SUFFICES PartKeeps(s, a, b)
  OBVIOUS
<1>. HIDE DEF part
<1>2. CASE a.rows[i][p] # "none"
  BY <1>1, <1>2 DEF ApplyOpenPart
<1>3. CASE a.rows[i][p] = "none"
  <2>1. a.rows[i][p] \notin Executed
    BY <1>3 DEF Executed
  <2>2. PartKeeps(s, a, Skipped(a, i, p)) /\ Skipped(a, i, p).pos = a.pos
    BY <2>1, RecordedKeeps DEF Skipped, RowOutcome
  <2>3. PartKeeps(s, a, [Skipped(a, i, p) EXCEPT !.exit = TRUE])
    <3>. DEFINE k == Skipped(a, i, p)
    <3>1. k \in Batch(s)
      BY <2>2 DEF PartKeeps
    <3>. HIDE DEF k
    <3>2. [k EXCEPT !.exit = TRUE] \in Batch(s) /\ [k EXCEPT !.exit = TRUE].rows = k.rows
          /\ [k EXCEPT !.exit = TRUE].pos = k.pos
      BY <3>1 DEF Batch
    <3>. QED  BY <2>2, <3>2 DEF PartKeeps, k
  <2>4. ASSUME ~RefusedFirst(a, s, i, part, in)
        PROVE  PartKeeps(s, a, Entered(a, i, p, part, in))
    <3>. DEFINE size == IF in.market = "part" THEN 1 ELSE 2
                k == Recorded(a, i, p, EntryAction(a.pos, part))
                pos == Grown(k.pos, part.side, size, <<i, p>>)
    <3>1. EntryAction(a.pos, part) \in RowOutcome
      BY <1>0 DEF EntryAction, Part, RowOutcome, Executed
    <3>2. PartKeeps(s, a, k) /\ k.pos = a.pos
      BY <2>1, <3>1, RecordedKeeps
    <3>3. k \in Batch(s)
      BY <3>2 DEF PartKeeps
    <3>. HIDE DEF k
    <3>4. Entered(a, i, p, part, in) = Moved(k, pos)
      BY DEF Entered, k, Moved
    <3>5. ~HeldOpposite(s, part.side) /\ (k.pos # NoPos => k.pos.side = part.side)
      BY <2>4, <3>2 DEF RefusedFirst
    <3>6. i \in Nat /\ p \in Nat
      <4>1. Plan[s] \in Seq([parts : Seq(Part), after : {"long", "short", "none"}])
        BY PlanAssumption DEF Wallets
      <4>. QED  BY <4>1, PlanFacts
    <3>7. pos \in Position /\ pos.side = part.side
      <4>1. CASE k.pos = NoPos
        BY <4>1, <1>0, <3>6 DEF Position, Part, Sides, Grown
      <4>2. CASE k.pos # NoPos
        <5>1. k.pos \in [side : Sides, size : Nat \ {0}, id : Seq(Nat)]
          BY <3>3, <4>2 DEF Batch, Position
        <5>. QED  BY <4>2, <5>1, <3>5 DEF Position, Grown
      <4>. QED  BY <4>1, <4>2
    <3>. HIDE DEF pos
    <3>8. Moved(k, pos) \in Batch(s) /\ Moved(k, pos).rows = k.rows /\ Moved(k, pos).pos = pos
      BY <3>3, <3>7, BatchMoved
    <3>. QED  BY <3>2, <3>4, <3>5, <3>7, <3>8 DEF PartKeeps, Sided
  <2>5. CASE RefusedFirst(a, s, i, part, in) \/ a.exit
    <3>1. b = Skipped(a, i, p)
      BY <1>3, <2>5 DEF ApplyOpenPart
    <3>. QED  BY <2>2, <3>1
  <2>6. CASE ~RefusedFirst(a, s, i, part, in) /\ ~a.exit
    <3>1. b = IF in.breach THEN [Skipped(a, i, p) EXCEPT !.exit = TRUE]
              ELSE IF in.market \in {"unpriced", "dry"} THEN Skipped(a, i, p)
              ELSE Entered(a, i, p, part, in)
      BY <1>3, <2>6 DEF ApplyOpenPart
    <3>. QED  BY <2>2, <2>3, <2>4, <2>6, <3>1
  <2>. QED  BY <2>5, <2>6
<1>. QED  BY <1>2, <1>3

LEMMA ClosedKeeps ==
    ASSUME NEW s \in Wallets, NEW i \in DOMAIN Plan[s], NEW p \in PartsOf(s, i), NEW a \in Batch(s),
           a.rows[i][p] \notin Executed, a.pos # NoPos,
           NEW size \in 1 .. a.pos.size, NEW merge \in BOOLEAN
    PROVE  PartKeeps(s, a, Closed(a, i, p, Plan[s][i].parts[p], size, merge))
<1>. DEFINE part == Plan[s][i].parts[p]
            left == a.pos.size - size
            r == IF merge THEN MergeBelow(a.rows) ELSE a.rows
            n == [r EXCEPT ![i][p] = CloseAction(part, left)]
            k == [a EXCEPT !.rows = n]
            pos == Shrunk(a.pos, left)
<1>1. part \in Part /\ a.rows \in RowsOf(s)
  BY PlanFacts DEF Batch
<1>2. a.pos \in [side : Sides, size : Nat \ {0}, id : Seq(Nat)] /\ left \in Nat
  <2>1. a.pos \in [side : Sides, size : Nat \ {0}, id : Seq(Nat)]
    BY DEF Batch, Position
  <2>. QED  BY <2>1
<1>. HIDE DEF part, left
<1>3. CloseAction(part, left) \in RowOutcome
  BY <1>1 DEF CloseAction, Part, RowOutcome, Executed
<1>4. r \in RowsOf(s) /\ Kept(s, a.rows, r) /\ r[i][p] \notin Executed
  <2>1. CASE merge
    <3>1. MergeBelow(a.rows)[i][p] = IF a.rows[i][p] = "below" THEN "merged" ELSE a.rows[i][p]
      <4>1. a.rows[i] \in [PartsOf(s, i) -> RowOutcome] /\ DOMAIN a.rows = DOMAIN Plan[s]
        BY <1>1, RowsTyped
      <4>. QED  BY <4>1 DEF MergeBelow
    <3>2. "merged" \notin Executed
      BY DEF Executed
    <3>. QED  BY <2>1, <1>1, <3>1, <3>2, MergedRows
  <2>2. CASE ~merge
    BY <2>2, <1>1 DEF Kept
  <2>. QED  BY <2>1, <2>2
<1>. HIDE DEF r
<1>5. n \in RowsOf(s) /\ Kept(s, r, n)
  BY <1>3, <1>4, RecordedRow DEF Kept
<1>6. Kept(s, a.rows, n)
  BY <1>4, <1>5, KeptTransitive
<1>. HIDE DEF n
<1>7. k \in Batch(s) /\ k.rows = n /\ k.pos = a.pos /\ k.cash = a.cash
  BY <1>5 DEF Batch
<1>8. pos \in Position /\ (pos # NoPos => pos.side = a.pos.side)
  BY <1>2 DEF Shrunk, Position
<1>9. Closed(a, i, p, part, size, merge) = Moved(k, pos)
  <2>1. Closed(a, i, p, part, size, merge) = [a EXCEPT !.rows = n, !.pos = pos, !.cash = a.cash + 1]
    BY DEF Closed, n, r, left
  <2>. HIDE DEF pos
  <2>2. Moved(k, pos) = [[a EXCEPT !.rows = n] EXCEPT !.pos = pos, !.cash = a.cash + 1]
    BY <1>7 DEF Moved
  <2>. QED  BY <2>1, <2>2
<1>. HIDE DEF k, pos
<1>10. Moved(k, pos) \in Batch(s) /\ Moved(k, pos).rows = k.rows /\ Moved(k, pos).pos = pos
  BY <1>7, <1>8, BatchMoved
<1>11. PartKeeps(s, a, Closed(a, i, p, part, size, merge))
  BY <1>6, <1>7, <1>8, <1>9, <1>10 DEF PartKeeps, Sided
<1>. QED  BY <1>11 DEF part

LEMMA ClosePartKeeps ==
    ASSUME NEW s \in Wallets, NEW i \in DOMAIN Plan[s], NEW p \in PartsOf(s, i), NEW a \in Batch(s), NEW in
    PROVE  PartKeeps(s, a, ApplyClosePart(a, s, i, p, Plan[s][i].parts[p], in))
<1>. DEFINE part == Plan[s][i].parts[p]
            final == FinalClose(a.pos, in)
            share == IF final \/ part.whole THEN a.pos.size ELSE 1
            tiny == part.tiny /\ ~final
            joined == Smaller(share + Cardinality(Below(a.rows)), a.pos.size)
            size == IF tiny THEN joined ELSE share
            b == ApplyClosePart(a, s, i, p, part, in)
<1>0. part \in Part /\ a.rows \in RowsOf(s)
  BY PlanFacts DEF Batch
<1>1. PartKeeps(s, a, a)
  BY DEF PartKeeps, Kept
<1>2. b = IF a.rows[i][p] # "none" /\ ~MayRetry(a.rows[i][p], part) THEN a
          ELSE IF a.pos = NoPos \/ a.pos.side # part.side THEN Recorded(a, i, p, "skip")
          ELSE IF in.market = "unpriced" THEN Recorded(a, i, p, "retry")
          ELSE IF tiny /\ joined = 1 THEN Recorded(a, i, p, "below")
          ELSE IF in.market = "dry" THEN Recorded(a, i, p, "retry")
          ELSE Closed(a, i, p, part, IF in.market = "part" THEN 1 ELSE size, tiny)
  BY DEF ApplyClosePart
<1>. SUFFICES PartKeeps(s, a, b)
  OBVIOUS
<1>3. tiny \in BOOLEAN
  OBVIOUS
<1>4. ASSUME a.pos # NoPos
      PROVE  size \in 1 .. a.pos.size /\ 1 \in 1 .. a.pos.size
  <2>1. a.pos.size \in Nat \ {0}
    BY <1>4 DEF Batch, Position
  <2>2. Cardinality(Below(a.rows)) \in Nat
    BY <1>0, BelowNat
  <2>3. share \in 1 .. a.pos.size
    BY <2>1
  <2>. HIDE DEF share, tiny
  <2>4. joined \in 1 .. a.pos.size
    BY <2>1, <2>2, <2>3 DEF Smaller
  <2>. QED  BY <2>1, <2>3, <2>4
<1>. HIDE DEF b, tiny, joined, size
<1>5. CASE a.rows[i][p] # "none" /\ ~MayRetry(a.rows[i][p], part)
  BY <1>1, <1>2, <1>5
<1>6. CASE ~(a.rows[i][p] # "none" /\ ~MayRetry(a.rows[i][p], part))
  <2>1. a.rows[i][p] \notin Executed
    BY <1>6 DEF MayRetry, Executed
  <2>2. \A o \in RowOutcome : PartKeeps(s, a, Recorded(a, i, p, o))
    BY <2>1, RecordedKeeps
  <2>3. {"skip", "retry", "below"} \subseteq RowOutcome
    BY DEF RowOutcome
  <2>4. ASSUME a.pos # NoPos
        PROVE  PartKeeps(s, a, Closed(a, i, p, part, IF in.market = "part" THEN 1 ELSE size, tiny))
    <3>1. (IF in.market = "part" THEN 1 ELSE size) \in 1 .. a.pos.size
      BY <1>4, <2>4
    <3>. QED  BY <1>3, <2>1, <2>4, <3>1, ClosedKeeps
  <2>. HIDE DEF part
  <2>. QED  BY <1>2, <1>6, <2>2, <2>3, <2>4
<1>. QED  BY <1>5, <1>6

LEMMA PartKeepsBooks ==
    ASSUME NEW s \in Wallets, NEW i \in DOMAIN Plan[s], NEW p \in PartsOf(s, i), NEW a \in Batch(s), NEW in
    PROVE  PartKeeps(s, a, ApplyPaperFillPart(a, s, i, p, in))
BY OpenPartKeeps, ClosePartKeeps DEF ApplyPaperFillPart

LEMMA KeepsTransitive ==
    ASSUME NEW s, NEW a, NEW b, NEW c, PartKeeps(s, a, b), PartKeeps(s, b, c)
    PROVE  PartKeeps(s, a, c)
BY DEF PartKeeps, Kept

Filled(b, s, i, in) ==
    LET one == ApplyPaperFillPart(b, s, i, 1, in)
    IN IF Len(Plan[s][i].parts) = 1 THEN one ELSE ApplyPaperFillPart(one, s, i, 2, in)

LEMMA FillKeeps ==
    ASSUME NEW s \in Wallets, NEW i \in DOMAIN Plan[s], NEW a \in Batch(s), NEW in
    PROVE  PartKeeps(s, a, Filled(a, s, i, in))
<1>. DEFINE one == ApplyPaperFillPart(a, s, i, 1, in)
            two == ApplyPaperFillPart(one, s, i, 2, in)
<1>1. Len(Plan[s][i].parts) \in {1, 2} /\ PartsOf(s, i) = 1 .. Len(Plan[s][i].parts)
  BY PlanFacts
<1>2. PartKeeps(s, a, one) /\ one \in Batch(s)
  <2>1. 1 \in PartsOf(s, i)
    <3>. DEFINE n == Len(Plan[s][i].parts)
    <3>1. n = 1 \/ n = 2
      BY <1>1
    <3>. HIDE DEF n
    <3>2. 1 \in 1 .. n
      BY <3>1
    <3>. QED  BY <1>1, <3>2 DEF n
  <2>2. PartKeeps(s, a, one)
    BY <2>1, PartKeepsBooks
  <2>. QED  BY <2>2 DEF PartKeeps
<1>. HIDE DEF one
<1>3. CASE Len(Plan[s][i].parts) = 1
  <2>1. Filled(a, s, i, in) = one
    BY <1>3 DEF Filled, one
  <2>. QED  BY <1>2, <2>1
<1>4. CASE Len(Plan[s][i].parts) = 2
  <2>1. 2 \in PartsOf(s, i)
    BY <1>1, <1>4
  <2>2. PartKeeps(s, one, two)
    BY <1>2, <2>1, PartKeepsBooks
  <2>3. Filled(a, s, i, in) = two
    BY <1>4 DEF Filled, one
  <2>. HIDE DEF two
  <2>. QED  BY <1>2, <2>2, <2>3, KeepsTransitive
<1>. QED  BY <1>1, <1>3, <1>4

(* A batch of fills does to the books what its parts do.                   *)
LEMMA FillsKeep ==
    ASSUME NEW s \in Wallets, NEW from \in Nat \ {0}, NEW upto \in Nat, from <= upto,
           upto <= Len(Plan[s]), NEW a \in Batch(s), NEW in
    PROVE  PartKeeps(s, a, ApplyFills(a, s, from, upto, in))
<1>. DEFINE z == from - 1
            rec(g) == [i \in (from - 1) .. upto |-> IF i < from THEN a ELSE Filled(g[i - 1], s, i, in)]
            h == CHOOSE g : g = rec(g)
            step == [b \in Batch(s) |-> [i \in z + 1 .. upto |-> Filled(b, s, i, in)]]
<1>1. ASSUME NEW b \in Batch(s), NEW i \in z + 1 .. upto
      PROVE  PartKeeps(s, b, Filled(b, s, i, in)) /\ Filled(b, s, i, in) \in Batch(s)
  <2>1. Plan[s] \in Seq([parts : Seq(Part), after : {"long", "short", "none"}])
    BY PlanAssumption DEF Wallets
  <2>2. DOMAIN Plan[s] = 1 .. Len(Plan[s]) /\ Len(Plan[s]) \in Nat
    BY <2>1
  <2>3. i \in DOMAIN Plan[s]
    BY <2>2
  <2>4. PartKeeps(s, b, Filled(b, s, i, in))
    BY <2>3, FillKeeps
  <2>. QED  BY <2>4 DEF PartKeeps
<1>2. z \in Nat /\ z <= upto
  OBVIOUS
<1>3. PICK g \in [z .. upto -> Batch(s)] : Steps(g, z, upto, a, step)
  <2>1. step \in StepMaps(z, upto, Batch(s))
    BY <1>1 DEF StepMaps
  <2>. HIDE DEF step, z
  <2>. QED  BY <1>2, <2>1, StepsExist
<1>4. g = rec(g)
  <2>1. ASSUME NEW i \in z .. upto
        PROVE  g[i] = IF i < from THEN a ELSE Filled(g[i - 1], s, i, in)
    <3>1. CASE i = z
      <4>1. g[i] = a
        <5>. HIDE DEF step
        <5>. QED  BY <1>3, <3>1 DEF Steps
      <4>. QED  BY <3>1, <4>1
    <3>2. CASE i # z
      <4>1. i - 1 \in z .. upto /\ i \in z + 1 .. upto /\ ~(i < from)
        BY <3>2
      <4>2. g[i] = step[g[i - 1]][i]
        <5>. HIDE DEF step, z
        <5>. QED  BY <1>3, <3>2 DEF Steps
      <4>3. g[i - 1] \in Batch(s)
        BY <4>1
      <4>. QED  BY <4>1, <4>2, <4>3
    <3>. QED  BY <3>1, <3>2
  <2>. HIDE DEF step
  <2>. QED  BY <2>1
<1>5. h = rec(h)
  <2>. HIDE DEF rec
  <2>. QED  BY <1>4
<1>6. ApplyFills(a, s, from, upto, in) = h[upto]
  BY DEF ApplyFills, Filled
<1>. HIDE DEF h
<1>. DEFINE B == {i \in z .. upto : ~PartKeeps(s, a, h[i])}
<1>7. h[z] = a /\ \A i \in z + 1 .. upto : h[i] = Filled(h[i - 1], s, i, in)
  <2>1. h[z] = a
    BY <1>2, <1>5
  <2>2. ASSUME NEW i \in z + 1 .. upto
        PROVE  h[i] = Filled(h[i - 1], s, i, in)
    <3>1. i \in (from - 1) .. upto /\ ~(i < from)
      OBVIOUS
    <3>. QED  BY <1>5, <3>1
  <2>. HIDE DEF rec, z
  <2>. QED  BY <2>1, <2>2
<1>8. z \notin B
  <2>1. PartKeeps(s, a, a)
    BY DEF PartKeeps, Kept
  <2>. QED  BY <1>7, <2>1
<1>9. \A i \in z + 1 .. upto : i \in B => i - 1 \in B
  <2>. SUFFICES ASSUME NEW i \in z + 1 .. upto, i - 1 \notin B PROVE i \notin B
    OBVIOUS
  <2>1. i - 1 \in z .. upto
    OBVIOUS
  <2>2. PartKeeps(s, a, h[i - 1])
    BY <2>1
  <2>3. h[i - 1] \in Batch(s)
    BY <2>2 DEF PartKeeps
  <2>4. PartKeeps(s, h[i - 1], h[i])
    <3>. HIDE DEF z
    <3>. QED  BY <1>1, <1>7, <2>3
  <2>5. PartKeeps(s, a, h[i])
    BY <2>2, <2>4, KeepsTransitive
  <2>. QED  BY <2>5
<1>10. B = {}
  <2>1. B \subseteq z .. upto
    OBVIOUS
  <2>. HIDE DEF B, z
  <2>. QED  BY <1>2, <1>8, <1>9, <2>1, NoneFails
<1>11. upto \in z .. upto
  OBVIOUS
<1>12. PartKeeps(s, a, h[upto])
  <2>. HIDE DEF z
  <2>. QED  BY <1>10, <1>11
<1>. QED  BY <1>6, <1>12
----------------------------------------------------------------------------
Account == [there : BOOLEAN, enabled : BOOLEAN, exit : BOOLEAN, cash : Nat, base : Nat]

Task == [pc : {"idle", "read", "locked", "end", "settle", "settling"}, src : Nat, from : Nat, upto : Nat,
         known : BOOLEAN, holds : Sides \cup {"none"}, cash : Nat, enabled : BOOLEAN, exit : BOOLEAN]

Request == [pc : {"idle", "ask", "lock"}, left : SUBSET Wallets, done : SUBSET Wallets,
            ids : UNION {[ss -> Seq(Nat)] : ss \in SUBSET Wallets}]

(* A batch is about fills that its source makes.                           *)
InPlan(w) ==
    /\ w.pc # "idle" => w.src \in Wallets
    /\ w.pc \in {"read", "locked"} => /\ w.from # 0 /\ w.from <= w.upto
                                      /\ w.upto <= Len(Plan[w.src])

BooksTypes ==
    /\ acct \in Account /\ posn \in [Wallets -> Position] /\ other \in Nat
    /\ DOMAIN rows = Wallets /\ \A s \in Wallets : rows[s] \in RowsOf(s)

WorkTypes ==
    /\ given \in [Wallets -> Nat] /\ \A s \in Wallets : given[s] <= Len(Plan[s])
    /\ task \in [Copiers -> Task] /\ \A t \in Copiers : InPlan(task[t])
    /\ op \in Request /\ (op.pc # "idle" => op.left # {})

PaperInv == BooksTypes /\ WorkTypes /\ OneSided

LEMMA NoRequest == NoOp \in Request /\ NoOp.pc = "idle"
<1>1. <<>> \in [{} -> Seq(Nat)] /\ {} \in SUBSET Wallets
  OBVIOUS
<1>2. <<>> \in UNION {[ss -> Seq(Nat)] : ss \in SUBSET Wallets}
  BY <1>1
<1>. QED  BY <1>2 DEF NoOp, Request

LEMMA PaperInvInit == PaperInit => PaperInv
<1>. SUFFICES ASSUME PaperInit PROVE PaperInv
  OBVIOUS
<1>1. BooksTypes
  <2>1. \A s \in Wallets : rows[s] \in RowsOf(s)
    <3>. SUFFICES ASSUME NEW s \in Wallets PROVE rows[s] \in RowsOf(s)
      OBVIOUS
    <3>1. rows[s] = [i \in DOMAIN Plan[s] |-> [p \in PartsOf(s, i) |-> "none"]]
      BY DEF PaperInit, PartsOf
    <3>2. \A i \in DOMAIN Plan[s] : rows[s][i] \in Outcomes(s, i)
      BY <3>1 DEF Outcomes, RowOutcome
    <3>. QED  BY <3>1, <3>2 DEF RowsOf
  <2>. QED  BY <2>1 DEF PaperInit, BooksTypes, Account, Position
<1>2. WorkTypes
  <2>1. NoTask \in Task /\ InPlan(NoTask)
    BY DEF NoTask, Task, InPlan
  <2>2. NoOp \in Request /\ NoOp.pc = "idle"
    BY NoRequest
  <2>3. \A s \in Wallets : 0 <= Len(Plan[s])
    <3>1. \A s \in Wallets : Plan[s] \in Seq([parts : Seq(Part), after : {"long", "short", "none"}])
      BY PlanAssumption DEF Wallets
    <3>. QED  BY <3>1
  <2>. QED  BY <2>1, <2>2, <2>3 DEF PaperInit, WorkTypes
<1>3. OneSided
  BY DEF PaperInit, OneSided, Open
<1>. QED  BY <1>1, <1>2, <1>3 DEF PaperInv

LEMMA SameBooks ==
    ASSUME PaperInv, UNCHANGED books
    PROVE  BooksTypes' /\ OneSided'
BY DEF PaperInv, books, BooksTypes, OneSided, Open

LEMMA SameWork ==
    ASSUME PaperInv, UNCHANGED <<given, task, op>>
    PROVE  WorkTypes'
BY DEF PaperInv, WorkTypes

LEMMA FinitePlan == IsFiniteSet(Wallets) /\ Wallets \subseteq Nat
<1>1. Wallets = 1 .. Len(Plan) /\ Len(Plan) \in Nat
  BY PlanAssumption DEF Wallets
<1>. QED  BY <1>1, FS_Interval

(* A close takes positions away, and no side appears.                      *)
LEMMA BookKeeps ==
    ASSUME PaperInv, NEW n \in Nat, NEW gone, Book(n, gone)
    PROVE  BooksTypes' /\ OneSided'
<1>1. acct' \in Account
  <2>1. acct.cash + n \in Nat
    BY DEF PaperInv, BooksTypes, Account
  <2>. QED  BY <2>1 DEF PaperInv, BooksTypes, Account, Book
<1>2. posn' \in [Wallets -> Position] /\ \A s \in Wallets : posn'[s] \in {NoPos, posn[s]}
  BY DEF PaperInv, BooksTypes, Book, Position
<1>3. BooksTypes'
  BY <1>1, <1>2 DEF PaperInv, BooksTypes, Book
<1>4. OneSided'
  BY <1>2 DEF PaperInv, OneSided, Open
<1>. QED  BY <1>3, <1>4

LEMMA TaskMoves ==
    ASSUME PaperInv, NEW t \in Copiers, NEW w \in Task, InPlan(w),
           task' = [task EXCEPT ![t] = w], UNCHANGED <<given, op>>
    PROVE  WorkTypes'
<1>1. task' \in [Copiers -> Task] /\ \A u \in Copiers : task'[u] = IF u = t THEN w ELSE task[u]
  BY DEF PaperInv, WorkTypes
<1>2. \A u \in Copiers : InPlan(task'[u])
  BY <1>1 DEF PaperInv, WorkTypes
<1>. QED  BY <1>1, <1>2 DEF PaperInv, WorkTypes

LEMMA InvStoreFill == \A s \in Wallets : PaperInv /\ StoreFill(s) => PaperInv'
<1>. SUFFICES ASSUME NEW s \in Wallets, PaperInv, StoreFill(s) PROVE PaperInv'
  OBVIOUS
<1>1. BooksTypes' /\ OneSided'
  BY SameBooks DEF StoreFill
<1>2. given' \in [Wallets -> Nat] /\ \A o \in Wallets : given'[o] <= Len(Plan[o])
  <2>1. Plan[s] \in Seq([parts : Seq(Part), after : {"long", "short", "none"}])
    BY PlanAssumption DEF Wallets
  <2>2. given[s] + 1 \in Nat /\ given[s] + 1 <= Len(Plan[s])
    BY <2>1 DEF PaperInv, WorkTypes, StoreFill
  <2>3. given' = [given EXCEPT ![s] = given[s] + 1]
    BY DEF StoreFill
  <2>. QED  BY <2>2, <2>3 DEF PaperInv, WorkTypes
<1>3. WorkTypes'
  BY <1>2 DEF PaperInv, WorkTypes, StoreFill
<1>. QED  BY <1>1, <1>3 DEF PaperInv

LEMMA InvGrowOld == \A s \in Wallets : PaperInv /\ GrowOld(s) => PaperInv'
BY SameBooks, SameWork DEF GrowOld, PaperInv

LEMMA SideKnown ==
    ASSUME PaperInv, NEW s \in Wallets
    PROVE  SourceSide(s, given[s]) \in Sides \cup {"none"}
<1>1. CASE given[s] = 0
  BY <1>1 DEF SourceSide
<1>2. CASE given[s] # 0
  <2>1. Plan[s] \in Seq([parts : Seq(Part), after : {"long", "short", "none"}])
    BY PlanAssumption DEF Wallets
  <2>2. given[s] \in DOMAIN Plan[s]
    BY <1>2, <2>1 DEF PaperInv, WorkTypes
  <2>. QED  BY <1>2, <2>2, PlanFacts DEF SourceSide
<1>. QED  BY <1>1, <1>2

LEMMA ReadsTyped ==
    ASSUME PaperInv, NEW s \in Wallets, NEW from \in Nat \ {0}, NEW upto \in Nat,
           from <= upto, upto <= given[s], NEW w \in FirstReads(s, from, upto)
    PROVE  w \in Task /\ InPlan(w)
<1>1. s \in Nat /\ upto <= Len(Plan[s])
  <2>1. Plan[s] \in Seq([parts : Seq(Part), after : {"long", "short", "none"}])
    BY PlanAssumption DEF Wallets
  <2>2. Len(Plan[s]) \in Nat /\ given[s] \in Nat /\ given[s] <= Len(Plan[s])
    BY <2>1 DEF PaperInv, WorkTypes
  <2>. QED  BY <2>2, FinitePlan
<1>2. CASE w = [[NoTask EXCEPT !.src = s, !.from = from, !.upto = upto] EXCEPT !.pc = "end"]
  <2>1. w = [pc |-> "end", src |-> s, from |-> from, upto |-> upto, known |-> FALSE,
             holds |-> "none", cash |-> 0, enabled |-> FALSE, exit |-> FALSE]
    BY <1>2 DEF NoTask
  <2>. QED  BY <2>1, <1>1 DEF Task, InPlan
<1>3. ASSUME NEW k \in BOOLEAN,
             w = [[NoTask EXCEPT !.src = s, !.from = from, !.upto = upto] EXCEPT
                    !.pc = "read", !.cash = acct.cash, !.enabled = acct.enabled, !.exit = acct.exit,
                    !.known = k, !.holds = IF k THEN SourceSide(s, given[s]) ELSE "none"]
      PROVE  w \in Task /\ InPlan(w)
  <2>. DEFINE side == IF k THEN SourceSide(s, given[s]) ELSE "none"
  <2>1. side \in Sides \cup {"none"}
    BY SideKnown
  <2>2. w = [pc |-> "read", src |-> s, from |-> from, upto |-> upto, known |-> k,
             holds |-> side, cash |-> acct.cash, enabled |-> acct.enabled, exit |-> acct.exit]
    BY <1>3 DEF NoTask
  <2>3. acct.cash \in Nat /\ acct.enabled \in BOOLEAN /\ acct.exit \in BOOLEAN
    BY DEF PaperInv, BooksTypes, Account
  <2>. HIDE DEF side
  <2>. QED  BY <2>1, <2>2, <2>3, <1>1 DEF Task, InPlan
<1>. QED  BY <1>2, <1>3 DEF FirstReads

LEMMA InvClaim ==
    \A c \in Consumers, s \in Wallets : \A i \in 1 .. given[s] : PaperInv /\ Claim(c, s, i) => PaperInv'
<1>. SUFFICES ASSUME NEW c \in Consumers, NEW s \in Wallets, NEW i \in 1 .. given[s], PaperInv, Claim(c, s, i)
              PROVE  PaperInv'
  OBVIOUS
<1>1. PICK w \in FirstReads(s, i, i) : task' = [task EXCEPT ![c] = w]
  BY DEF Claim
<1>2. i \in Nat \ {0} /\ i <= given[s]
  BY DEF PaperInv, WorkTypes
<1>3. w \in Task /\ InPlan(w)
  BY <1>2, ReadsTyped
<1>4. WorkTypes'
  BY <1>1, <1>3, TaskMoves DEF Claim, Copiers
<1>. QED  BY <1>4, SameBooks DEF Claim, PaperInv

LEMMA InvRecover == \A s \in Wallets : PaperInv /\ Recover(s) => PaperInv'
<1>. SUFFICES ASSUME NEW s \in Wallets, PaperInv, Recover(s)
              PROVE  PaperInv'
  OBVIOUS
<1>1. PICK w \in FirstReads(s, 1, given[s]) : task' = [task EXCEPT ![Recovery] = w]
  BY DEF Recover
<1>2. given[s] \in Nat /\ 1 <= given[s]
  BY DEF PaperInv, WorkTypes, Recover
<1>3. w \in Task /\ InPlan(w)
  BY <1>2, ReadsTyped
<1>4. WorkTypes'
  BY <1>1, <1>3, TaskMoves DEF Recover, Copiers
<1>. QED  BY <1>4, SameBooks DEF Recover, PaperInv

LEMMA TaskTyped ==
    ASSUME PaperInv, NEW t \in Copiers
    PROVE  task[t] \in Task /\ InPlan(task[t])
BY DEF PaperInv, WorkTypes

LEMMA InvLockSource == \A t \in Copiers : PaperInv /\ LockSource(t) => PaperInv'
<1>. SUFFICES ASSUME NEW t \in Copiers, PaperInv, LockSource(t)
              PROVE  PaperInv'
  OBVIOUS
<1>. DEFINE w == [task[t] EXCEPT !.pc = IF @ = "read" THEN "locked" ELSE "settling"]
<1>1. task[t] \in Task /\ InPlan(task[t])
  BY TaskTyped
<1>2. w \in Task /\ InPlan(w)
  BY <1>1 DEF Task, InPlan, LockSource
<1>3. task' = [task EXCEPT ![t] = w]
  BY DEF LockSource
<1>. HIDE DEF w
<1>4. WorkTypes'
  BY <1>2, <1>3, TaskMoves DEF LockSource
<1>. QED  BY <1>4, SameBooks DEF LockSource, PaperInv

LEMMA InvComplete == \A c \in Consumers : PaperInv /\ Complete(c) => PaperInv'
<1>. SUFFICES ASSUME NEW c \in Consumers, PaperInv, Complete(c)
              PROVE  PaperInv'
  OBVIOUS
<1>1. NoTask \in Task /\ InPlan(NoTask)
  BY DEF NoTask, Task, InPlan
<1>2. WorkTypes'
  BY <1>1, TaskMoves DEF Complete, Copiers
<1>. QED  BY <1>2, SameBooks DEF Complete, PaperInv

LEMMA InvInterrupt == \A t \in Copiers : PaperInv /\ Interrupt(t) => PaperInv'
<1>. SUFFICES ASSUME NEW t \in Copiers, PaperInv, Interrupt(t)
              PROVE  PaperInv'
  OBVIOUS
<1>1. NoTask \in Task /\ InPlan(NoTask)
  BY DEF NoTask, Task, InPlan
<1>2. WorkTypes'
  BY <1>1, TaskMoves DEF Interrupt
<1>. QED  BY <1>2, SameBooks DEF Interrupt, PaperInv

LEMMA RowsSame ==
    ASSUME UNCHANGED rows
    PROVE  ExecutedStays
BY DEF ExecutedStays

(* The batch of a copier keeps what was executed, and the side of the      *)
(* other sources, which it reads when nobody else can book.                *)
LEMMA BatchKeeps ==
    ASSUME PaperInv, NEW t \in Copiers, NEW x \in Market, CopyBatch(t, x)
    PROVE  BooksTypes' /\ OneSided' /\ ExecutedStays
<1>. DEFINE w == task[t]
            s == w.src
            in == [active |-> x.active, market |-> x.market, breach |-> x.breach,
                   known |-> w.known, holds |-> w.holds, aged |-> aged[s]]
            first == [pos |-> posn[s], rows |-> rows[s],
                      cash |-> w.cash, enabled |-> w.enabled, exit |-> w.exit]
            b == ApplyFills(first, s, w.from, w.upto, in)
<1>1. w \in Task /\ InPlan(w) /\ w.pc = "locked"
  BY TaskTyped DEF CopyBatch
<1>2. s \in Wallets /\ w.from \in Nat \ {0} /\ w.upto \in Nat /\ w.from <= w.upto /\ w.upto <= Len(Plan[s])
  BY <1>1 DEF InPlan, Task
<1>3. first \in Batch(s) /\ first.rows = rows[s] /\ first.pos = posn[s]
  <2>1. w.cash \in Nat /\ w.enabled \in BOOLEAN /\ w.exit \in BOOLEAN
    BY <1>1 DEF Task
  <2>2. posn[s] \in Position /\ rows[s] \in RowsOf(s)
    BY <1>2 DEF PaperInv, BooksTypes
  <2>. QED  BY <2>1, <2>2 DEF Batch
<1>4. Sided(s, posn[s])
  BY <1>2 DEF PaperInv, OneSided, Sided, HeldOpposite, Open
<1>5. CASE ~Visible(s)
  <2>1. UNCHANGED books
    BY <1>5 DEF CopyBatch, books
  <2>. QED  BY <2>1, SameBooks, RowsSame DEF books
<1>6. CASE Visible(s)
  <2>1. acct' = Written(b, first) /\ posn' = [posn EXCEPT ![s] = b.pos]
        /\ rows' = [rows EXCEPT ![s] = b.rows] /\ other' = other
    BY <1>6 DEF CopyBatch
  <2>. HIDE DEF first, in, w, s
  <2>2. PartKeeps(s, first, b)
    BY <1>2, <1>3, FillsKeep
  <2>. HIDE DEF b
  <2>3. b \in Batch(s) /\ Kept(s, rows[s], b.rows) /\ Sided(s, b.pos)
    BY <1>3, <1>4, <2>2 DEF PartKeeps
  <2>4. b.cash \in Nat /\ b.exit \in BOOLEAN /\ first.cash \in Nat /\ first.exit \in BOOLEAN
        /\ b.pos \in Position /\ b.rows \in RowsOf(s)
    BY <1>3, <2>3 DEF Batch
  <2>5. acct' \in Account
    <3>. DEFINE cash == IF b.cash # first.cash THEN b.cash ELSE acct.cash
                exit == acct.exit \/ (b.exit /\ ~first.exit)
    <3>1. acct \in Account
      BY DEF PaperInv, BooksTypes
    <3>2. cash \in Nat /\ exit \in BOOLEAN
      BY <3>1, <2>4 DEF Account
    <3>3. acct' = [acct EXCEPT !.cash = cash, !.exit = exit]
      BY <2>1 DEF Written
    <3>. HIDE DEF cash, exit
    <3>. QED  BY <3>1, <3>2, <3>3 DEF Account
  <2>6. posn' \in [Wallets -> Position] /\ \A o \in Wallets : posn'[o] = IF o = s THEN b.pos ELSE posn[o]
    BY <1>2, <2>1, <2>4 DEF PaperInv, BooksTypes
  <2>7. DOMAIN rows' = Wallets /\ \A o \in Wallets : rows'[o] = IF o = s THEN b.rows ELSE rows[o]
    BY <1>2, <2>1 DEF PaperInv, BooksTypes
  <2>8. BooksTypes'
    BY <2>1, <2>4, <2>5, <2>6, <2>7 DEF PaperInv, BooksTypes
  <2>9. ASSUME NEW o \in Wallets, NEW q \in Wallets, Open(o)', Open(q)'
        PROVE  posn'[o].side = posn'[q].side
    <3>1. \A y \in Wallets \ {s} : Open(y)' => Open(y) /\ posn'[y].side = posn[y].side
      BY <2>6 DEF Open
    <3>2. ASSUME NEW y \in Wallets \ {s}, Open(y)', posn'[s] # NoPos
          PROVE  posn'[y].side = posn'[s].side
      <4>1. posn'[s] = b.pos /\ b.pos # NoPos
        BY <1>2, <2>6, <3>2
      <4>. QED  BY <2>3, <3>1, <3>2, <4>1 DEF Sided, HeldOpposite
    <3>3. CASE o # s /\ q # s
      BY <2>9, <3>1, <3>3 DEF PaperInv, OneSided
    <3>4. CASE o = s \/ q = s
      BY <2>9, <3>2, <3>4 DEF Open
    <3>. QED  BY <3>3, <3>4
  <2>10. OneSided'
    BY <2>9 DEF OneSided
  <2>11. ExecutedStays
    <3>. SUFFICES ASSUME NEW o \in Wallets, NEW i \in DOMAIN rows[o], NEW p \in DOMAIN rows[o][i],
                         rows[o][i][p] \in Executed
                  PROVE  rows'[o][i][p] = rows[o][i][p]
      BY DEF ExecutedStays
    <3>1. rows[o] \in RowsOf(o)
      BY DEF PaperInv, BooksTypes
    <3>2. i \in DOMAIN Plan[o] /\ p \in PartsOf(o, i)
      <4>1. DOMAIN rows[o] = DOMAIN Plan[o]
        BY <3>1 DEF RowsOf
      <4>2. rows[o][i] \in [PartsOf(o, i) -> RowOutcome]
        BY <3>1, <4>1, RowsTyped
      <4>. QED  BY <4>1, <4>2
    <3>. QED  BY <2>3, <2>7, <3>2 DEF Kept
  <2>. QED  BY <2>8, <2>10, <2>11
<1>. QED  BY <1>5, <1>6

LEMMA InvCopyBatch == \A t \in Copiers, x \in Market : PaperInv /\ CopyBatch(t, x) => PaperInv'
<1>. SUFFICES ASSUME NEW t \in Copiers, NEW x \in Market, PaperInv, CopyBatch(t, x)
              PROVE  PaperInv'
  OBVIOUS
<1>. DEFINE w == [task[t] EXCEPT !.pc = "end"]
<1>1. task[t] \in Task /\ InPlan(task[t]) /\ task[t].pc = "locked"
  BY TaskTyped DEF CopyBatch
<1>2. w \in Task /\ InPlan(w)
  BY <1>1 DEF Task, InPlan
<1>3. task' = [task EXCEPT ![t] = w] /\ UNCHANGED <<given, op>>
  BY DEF CopyBatch
<1>. HIDE DEF w
<1>4. WorkTypes'
  BY <1>2, <1>3, TaskMoves
<1>. QED  BY <1>4, BatchKeeps DEF PaperInv

LEMMA InvSettleReads == PaperInv /\ SettleReads => PaperInv'
<1>. SUFFICES ASSUME PaperInv, SettleReads
              PROVE  PaperInv'
  OBVIOUS
<1>. DEFINE s == task[Recovery].src
            w == IF Open(s) THEN [NoTask EXCEPT !.pc = "settle", !.src = s, !.known = TRUE,
                                                !.holds = SourceSide(s, given[s])]
                 ELSE NoTask
<1>0. Recovery \in Copiers
  BY DEF Copiers
<1>1. task[Recovery] \in Task /\ InPlan(task[Recovery]) /\ task[Recovery].pc = "end"
  BY <1>0, TaskTyped DEF SettleReads
<1>2. s \in Wallets /\ s \in Nat /\ SourceSide(s, given[s]) \in Sides \cup {"none"}
  BY <1>1, SideKnown, FinitePlan DEF InPlan
<1>3. task' = [task EXCEPT ![Recovery] = w]
  BY DEF SettleReads
<1>. HIDE DEF s
<1>4. w \in Task /\ InPlan(w)
  BY <1>2 DEF Task, InPlan, NoTask
<1>. HIDE DEF w
<1>5. WorkTypes'
  BY <1>0, <1>3, <1>4, TaskMoves DEF SettleReads
<1>. QED  BY <1>5, SameBooks DEF SettleReads, PaperInv

LEMMA InvSettle == PaperInv /\ Settle => PaperInv'
<1>. SUFFICES ASSUME PaperInv, Settle
              PROVE  PaperInv'
  OBVIOUS
<1>1. NoTask \in Task /\ InPlan(NoTask) /\ Recovery \in Copiers
  BY DEF NoTask, Task, InPlan, Copiers
<1>2. WorkTypes'
  BY <1>1, TaskMoves DEF Settle
<1>3. BooksTypes' /\ OneSided'
  <2>1. UNCHANGED books \/ \E gone : Book(1, gone)
    BY DEF Settle
  <2>. QED  BY <2>1, SameBooks, BookKeeps
<1>. QED  BY <1>2, <1>3 DEF PaperInv

LEMMA InvAskClose == \A ss \in SUBSET Wallets : PaperInv /\ AskClose(ss) => PaperInv'
<1>. SUFFICES ASSUME NEW ss \in SUBSET Wallets, PaperInv, AskClose(ss)
              PROVE  PaperInv'
  OBVIOUS
<1>1. [s \in ss |-> posn[s].id] \in [ss -> Seq(Nat)]
  <2>1. ASSUME NEW s \in ss PROVE posn[s].id \in Seq(Nat)
    <3>1. posn[s] \in Position /\ posn[s] # NoPos
      BY DEF PaperInv, BooksTypes, AskClose, Open
    <3>. QED  BY <3>1 DEF Position
  <2>. QED  BY <2>1
<1>2. op' \in Request /\ op'.left # {}
  BY <1>1 DEF AskClose, Request
<1>3. WorkTypes'
  BY <1>2 DEF PaperInv, WorkTypes, AskClose
<1>. QED  BY <1>3, SameBooks DEF AskClose, PaperInv

LEMMA NextTyped ==
    ASSUME PaperInv, op.pc # "idle"
    PROVE  NextToClose \in op.left /\ op.left \subseteq Wallets
<1>1. op.left \subseteq Wallets /\ op.left # {}
  BY DEF PaperInv, WorkTypes, Request
<1>2. \E s \in op.left : \A o \in op.left : s <= o
  BY <1>1, FinitePlan, SmallestNumber
<1>. QED  BY <1>1, <1>2 DEF NextToClose

LEMMA InvLockForClose == PaperInv /\ LockForClose => PaperInv'
<1>. SUFFICES ASSUME PaperInv, LockForClose
              PROVE  PaperInv'
  OBVIOUS
<1>1. op' \in Request /\ op'.left # {}
  BY DEF PaperInv, WorkTypes, LockForClose, Request
<1>2. WorkTypes'
  BY <1>1 DEF PaperInv, WorkTypes, LockForClose
<1>. QED  BY <1>2, SameBooks DEF LockForClose, PaperInv

LEMMA InvCloseByHand == PaperInv /\ CloseByHand => PaperInv'
<1>. SUFFICES ASSUME PaperInv, CloseByHand
              PROVE  PaperInv'
  OBVIOUS
<1>. DEFINE s == NextToClose
            done == op.done \cup {s}
<1>1. s \in op.left /\ op.left \subseteq Wallets /\ op \in Request
  BY NextTyped DEF CloseByHand, PaperInv, WorkTypes
<1>2. done \in SUBSET Wallets
  BY <1>1 DEF Request
<1>. HIDE DEF s
<1>3. CASE op.left = {s}
  <2>1. Book(Cardinality(done), done) /\ op' = NoOp /\ UNCHANGED <<given, task>>
    BY <1>3 DEF CloseByHand, s
  <2>2. Cardinality(done) \in Nat
    BY <1>2, FinitePlan, FS_Subset, FS_CardinalityType
  <2>. HIDE DEF done
  <2>3. BooksTypes' /\ OneSided'
    BY <2>1, <2>2, BookKeeps
  <2>4. WorkTypes'
    BY <2>1, NoRequest DEF PaperInv, WorkTypes
  <2>. QED  BY <2>3, <2>4 DEF PaperInv
<1>4. CASE op.left # {s}
  <2>1. op' = [op EXCEPT !.pc = "ask", !.left = op.left \ {s}, !.done = done] /\ UNCHANGED <<given, task, books>>
    BY <1>4 DEF CloseByHand, s
  <2>2. op' \in Request /\ op'.left # {}
    BY <1>1, <1>2, <1>4, <2>1 DEF Request
  <2>3. WorkTypes'
    BY <2>1, <2>2 DEF PaperInv, WorkTypes
  <2>. QED  BY <2>1, <2>3, SameBooks DEF PaperInv
<1>. QED  BY <1>3, <1>4

LEMMA InvAbandonClose == PaperInv /\ AbandonClose => PaperInv'
<1>. SUFFICES ASSUME PaperInv, AbandonClose
              PROVE  PaperInv'
  OBVIOUS
<1>1. WorkTypes'
  BY NoRequest DEF PaperInv, WorkTypes, AbandonClose
<1>. QED  BY <1>1, SameBooks DEF AbandonClose, PaperInv

LEMMA InvRiskPass ==
    \A gone \in SUBSET Wallets, paid \in BOOLEAN : PaperInv /\ RiskPass(gone, paid) => PaperInv'
<1>. SUFFICES ASSUME NEW gone \in SUBSET Wallets, NEW paid \in BOOLEAN, PaperInv, RiskPass(gone, paid)
              PROVE  PaperInv'
  OBVIOUS
<1>. DEFINE n == Cardinality(gone) + IF paid THEN 1 ELSE 0
<1>1. n \in Nat
  <2>1. Cardinality(gone) \in Nat
    BY FinitePlan, FS_Subset, FS_CardinalityType
  <2>. QED  BY <2>1
<1>2. Book(n, gone)
  BY DEF RiskPass
<1>. HIDE DEF n
<1>3. BooksTypes' /\ OneSided'
  BY <1>1, <1>2, BookKeeps
<1>. QED  BY <1>3, SameWork DEF RiskPass, PaperInv

LEMMA SameLines ==
    ASSUME PaperInv, acct' \in Account, UNCHANGED <<posn, rows, other>>
    PROVE  BooksTypes' /\ OneSided'
BY DEF PaperInv, BooksTypes, OneSided, Open

LEMMA InvSetEnabled == \A on \in BOOLEAN : PaperInv /\ SetEnabled(on) => PaperInv'
<1>. SUFFICES ASSUME NEW on \in BOOLEAN, PaperInv, SetEnabled(on)
              PROVE  PaperInv'
  OBVIOUS
<1>. DEFINE exit == IF on THEN FALSE ELSE acct.exit
<1>1. acct \in Account /\ exit \in BOOLEAN
  BY DEF PaperInv, BooksTypes, Account
<1>2. acct' = [acct EXCEPT !.enabled = on, !.exit = exit]
  BY DEF SetEnabled
<1>. HIDE DEF exit
<1>3. acct' \in Account
  BY <1>1, <1>2 DEF Account
<1>. QED  BY <1>3, SameLines, SameWork DEF SetEnabled, PaperInv

LEMMA TriplesFinite ==
    ASSUME NEW S, NEW T, NEW U, IsFiniteSet(S), IsFiniteSet(T), IsFiniteSet(U)
    PROVE  IsFiniteSet(S \X T \X U)
<1>. DEFINE P == (S \X T) \X U
            Q == S \X T \X U
            f == [k \in P |-> <<k[1][1], k[1][2], k[2]>>]
<1>1. IsFiniteSet(P)
  BY FS_Product
<1>2. f \in [P -> Q]
  OBVIOUS
<1>3. \A q \in Q : \E k \in P : f[k] = q
  <2>. SUFFICES ASSUME NEW q \in Q PROVE \E k \in P : f[k] = q
    OBVIOUS
  <2>. DEFINE k == <<<<q[1], q[2]>>, q[3]>>
  <2>1. k \in P
    OBVIOUS
  <2>2. f[k] = <<q[1], q[2], q[3]>> /\ q = <<q[1], q[2], q[3]>>
    OBVIOUS
  <2>. QED  BY <2>1, <2>2
<1>. HIDE DEF f, P, Q
<1>4. f \in Surjection(P, Q)
  BY <1>2, <1>3 DEF Surjection
<1>5. IsFiniteSet(Q)
  BY <1>1, <1>4, FS_Surjection
<1>. QED  BY <1>5 DEF Q

LEMMA BookingsNat ==
    ASSUME PaperInv
    PROVE  Bookings \in Nat
<1>1. IsFiniteSet(Parts)
  <2>1. \A m, n \in Nat : IsFiniteSet(1 .. m) /\ IsFiniteSet(1 .. n)
    BY FS_Interval
  <2>2. \A m, n \in Nat : IsFiniteSet(Wallets \X (1 .. m) \X (1 .. n))
    BY <2>1, FinitePlan, TriplesFinite
  <2>3. 9 \in Nat /\ 2 \in Nat
    OBVIOUS
  <2>. QED  BY <2>2, <2>3, Zenon DEF Parts
<1>. DEFINE S == {k \in Parts : k[2] \in DOMAIN rows[k[1]] /\ k[3] \in DOMAIN rows[k[1]][k[2]]
                                 /\ rows[k[1]][k[2]][k[3]] \in Executed}
<1>2. Cardinality(S) \in Nat
  <2>1. S \subseteq Parts
    OBVIOUS
  <2>. HIDE DEF S
  <2>. QED  BY <1>1, <2>1, FS_Subset, FS_CardinalityType
<1>. HIDE DEF S
<1>3. other \in Nat /\ Bookings = other + Cardinality(S)
  BY DEF PaperInv, BooksTypes, Bookings, S
<1>. QED  BY <1>2, <1>3

LEMMA InvResetBalance == PaperInv /\ ResetBalance => PaperInv'
<1>. SUFFICES ASSUME PaperInv, ResetBalance
              PROVE  PaperInv'
  OBVIOUS
<1>1. acct \in Account /\ Bookings \in Nat
  BY BookingsNat DEF PaperInv, BooksTypes
<1>2. acct' \in Account
  BY <1>1 DEF ResetBalance, Account
<1>. QED  BY <1>2, SameLines, SameWork DEF ResetBalance, PaperInv

LEMMA InvDeleteAccount == PaperInv /\ DeleteAccount => PaperInv'
<1>. SUFFICES ASSUME PaperInv, DeleteAccount
              PROVE  PaperInv'
  OBVIOUS
<1>1. DOMAIN rows' = Wallets /\ \A s \in Wallets : rows'[s] \in RowsOf(s)
  <2>1. DOMAIN rows' = Wallets
    BY DEF DeleteAccount
  <2>2. ASSUME NEW s \in Wallets PROVE rows'[s] \in RowsOf(s)
    <3>1. rows[s] \in RowsOf(s)
      BY DEF PaperInv, BooksTypes
    <3>2. DOMAIN rows[s] = DOMAIN Plan[s] /\ \A i \in DOMAIN Plan[s] : DOMAIN rows[s][i] = PartsOf(s, i)
      BY <3>1, RowsTyped DEF RowsOf
    <3>3. rows'[s] = [i \in DOMAIN rows[s] |-> [p \in DOMAIN rows[s][i] |-> "none"]]
      BY DEF DeleteAccount
    <3>4. rows'[s] = [i \in DOMAIN Plan[s] |-> [p \in PartsOf(s, i) |-> "none"]]
      BY <3>2, <3>3
    <3>5. \A i \in DOMAIN Plan[s] : rows'[s][i] \in Outcomes(s, i)
      BY <3>4 DEF Outcomes, RowOutcome
    <3>. QED  BY <3>4, <3>5 DEF RowsOf
  <2>. QED  BY <2>1, <2>2
<1>2. acct' \in Account /\ posn' = [s \in Wallets |-> NoPos] /\ other' \in Nat
  BY DEF DeleteAccount, Account
<1>3. BooksTypes' /\ OneSided'
  BY <1>1, <1>2 DEF BooksTypes, OneSided, Open, Position
<1>. QED  BY <1>3, SameWork DEF DeleteAccount, PaperInv

LEMMA InvPaperNext == PaperInv /\ [PaperNext]_paperVars => PaperInv'
<1>. SUFFICES ASSUME PaperInv, [PaperNext]_paperVars
              PROVE  PaperInv'
  OBVIOUS
<1>1. CASE UNCHANGED paperVars
  <2>1. UNCHANGED books /\ UNCHANGED <<given, task, op>>
    BY <1>1 DEF paperVars, books
  <2>. QED  BY <2>1, SameBooks, SameWork DEF PaperInv
<1>2. CASE PaperNext
  BY <1>2, InvStoreFill, InvGrowOld, InvRecover, InvComplete, InvClaim, InvLockSource, InvInterrupt,
     InvCopyBatch, InvSettleReads, InvSettle, InvAskClose, InvLockForClose, InvCloseByHand,
     InvAbandonClose, InvRiskPass, InvSetEnabled, InvResetBalance, InvDeleteAccount, Zenon DEF PaperNext
<1>. QED  BY <1>1, <1>2

(* No step but that of a batch changes an outcome, while there is an       *)
(* account.                                                                *)
LEMMA NextKeepsExecuted == PaperInv /\ [PaperNext]_paperVars => ExecutedStays
<1>. SUFFICES ASSUME PaperInv, [PaperNext]_paperVars
              PROVE  ExecutedStays
  OBVIOUS
<1>1. CASE UNCHANGED paperVars
  BY <1>1, RowsSame DEF paperVars
<1>2. CASE \E s \in Wallets : StoreFill(s) \/ GrowOld(s) \/ Recover(s)
  BY <1>2, RowsSame DEF StoreFill, GrowOld, Recover, books
<1>3. CASE \/ \E c \in Consumers : Complete(c)
           \/ \E c \in Consumers, s \in Wallets : \E i \in 1 .. given[s] : Claim(c, s, i)
           \/ \E t \in Copiers : LockSource(t) \/ Interrupt(t)
  BY <1>3, RowsSame DEF Complete, Claim, LockSource, Interrupt, books
<1>4. CASE \E t \in Copiers, x \in Market : CopyBatch(t, x)
  BY <1>4, BatchKeeps
<1>5. CASE SettleReads \/ Settle \/ (\E ss \in SUBSET Wallets : AskClose(ss))
  BY <1>5, RowsSame DEF SettleReads, Settle, AskClose, Book, books
<1>6. CASE LockForClose \/ CloseByHand \/ AbandonClose
  BY <1>6, RowsSame DEF LockForClose, CloseByHand, AbandonClose, Book, books
<1>7. CASE \/ \E gone \in SUBSET Wallets, paid \in BOOLEAN : (gone # {} \/ paid) /\ RiskPass(gone, paid)
           \/ \E on \in BOOLEAN : SetEnabled(on)
           \/ ResetBalance
  BY <1>7, RowsSame DEF RiskPass, SetEnabled, ResetBalance, Book
<1>8. CASE DeleteAccount
  BY <1>8 DEF DeleteAccount, ExecutedStays
<1>9. CASE PaperNext
  BY <1>2, <1>3, <1>4, <1>5, <1>6, <1>7, <1>8, <1>9, Zenon DEF PaperNext
<1>. QED  BY <1>1, <1>9

(* What the accounts of paper copying hold and what copiers work on are of *)
(* their types, and the positions have one side.                           *)
THEOREM PaperInvariant == PaperSpec => []PaperInv
<1>1. PaperInit => PaperInv
  BY PaperInvInit
<1>2. PaperInv /\ [PaperNext]_paperVars => PaperInv'
  BY InvPaperNext
<1>. QED  BY <1>1, <1>2, PTL DEF PaperSpec

(* Sources that share a coin of an account hold it on one side: a batch    *)
(* looks at the others' positions under the locks, after its reads.        *)
THEOREM SourcesOneSided == PaperSpec => []OneSided
<1>1. PaperInv => OneSided
  BY DEF PaperInv
<1>. QED  BY <1>1, PaperInvariant, PTL

(* A part that was executed keeps its outcome through every delivery,      *)
(* claim and replay, while the account is there.                           *)
THEOREM PartsExecutedOnce == PaperSpec => ExecutedOnce
<1>1. PaperInv /\ [PaperNext]_paperVars => [ExecutedStays]_paperVars
  BY NextKeepsExecuted
<1>. QED  BY <1>1, PaperInvariant, PTL DEF PaperSpec, ExecutedOnce
----------------------------------------------------------------------------
(* The inbox has an entry for each stored fill, and locks are held by      *)
(* copiers and by requests.                                                *)
InboxStates == Consumers \cup {"pending", "gone"}

LockHolders == Copiers \cup {Free, Operator}

QueueTypes ==
    /\ aged \in [Wallets -> Nat] /\ \A s \in Wallets : aged[s] <= given[s]
    /\ DOMAIN inbox = Wallets /\ \A s \in Wallets : inbox[s] \in [1 .. given[s] -> InboxStates]
    /\ held \in [Wallets -> LockHolders] /\ rowLock \in {Free, Operator}

LEMMA PaperTyped == PaperInv /\ QueueTypes => PaperTypeOK
<1>. SUFFICES ASSUME PaperInv, QueueTypes PROVE PaperTypeOK
  OBVIOUS
<1>1. ASSUME NEW s \in Wallets
      PROVE  /\ posn[s].side \in {"long", "short", "none"} /\ posn[s].size \in Nat
             /\ given[s] \in 0 .. Len(Plan[s]) /\ aged[s] <= given[s]
             /\ DOMAIN inbox[s] = 1 .. given[s] /\ held[s] \in Copiers \cup {Free, Operator}
  <2>1. posn[s] \in Position
    BY DEF PaperInv, BooksTypes
  <2>2. posn[s].side \in {"long", "short", "none"} /\ posn[s].size \in Nat
    BY <2>1 DEF Position, NoPos, Sides
  <2>3. given[s] \in Nat /\ given[s] <= Len(Plan[s]) /\ Len(Plan[s]) \in Nat
    BY PlanAssumption DEF PaperInv, WorkTypes, Wallets
  <2>. QED  BY <2>2, <2>3 DEF QueueTypes, LockHolders
<1>2. ASSUME NEW s \in Wallets
      PROVE  /\ DOMAIN rows[s] = 1 .. Len(Plan[s])
             /\ \A i \in DOMAIN rows[s] : \A p \in DOMAIN rows[s][i] : rows[s][i][p] \in RowOutcome
  <2>1. rows[s] \in RowsOf(s) /\ Plan[s] \in Seq([parts : Seq(Part), after : {"long", "short", "none"}])
    BY PlanAssumption DEF PaperInv, BooksTypes, Wallets
  <2>2. DOMAIN rows[s] = DOMAIN Plan[s]
    BY <2>1 DEF RowsOf
  <2>3. DOMAIN Plan[s] = 1 .. Len(Plan[s])
    BY <2>1
  <2>4. ASSUME NEW i \in DOMAIN rows[s], NEW p \in DOMAIN rows[s][i] PROVE rows[s][i][p] \in RowOutcome
    <3>1. rows[s][i] \in [PartsOf(s, i) -> RowOutcome]
      BY <2>1, <2>2 DEF RowsOf, Outcomes
    <3>. QED  BY <2>4, <3>1
  <2>. QED  BY <2>2, <2>3, <2>4
<1>3. acct \in [there : BOOLEAN, enabled : BOOLEAN, exit : BOOLEAN, cash : Nat, base : Nat]
      /\ rowLock \in {Free, Operator}
  BY DEF PaperInv, BooksTypes, Account, QueueTypes
<1>. QED  BY <1>1, <1>2, <1>3 DEF PaperTypeOK

LEMMA QueuesInit == PaperInit => QueueTypes
<1>. SUFFICES ASSUME PaperInit PROVE QueueTypes
  OBVIOUS
<1>1. ASSUME NEW s \in Wallets PROVE inbox[s] \in [1 .. given[s] -> InboxStates]
  BY DEF PaperInit
<1>2. aged \in [Wallets -> Nat] /\ \A s \in Wallets : aged[s] <= given[s]
  BY DEF PaperInit
<1>3. DOMAIN inbox = Wallets /\ held \in [Wallets -> LockHolders] /\ rowLock \in {Free, Operator}
  BY DEF PaperInit, LockHolders
<1>. QED  BY <1>1, <1>2, <1>3 DEF QueueTypes

(* One entry of the inbox, or one lock, changes.                           *)
LEMMA EntrySet ==
    ASSUME NEW n \in Nat, NEW q \in [1 .. n -> InboxStates], NEW i, NEW v \in InboxStates
    PROVE  [q EXCEPT ![i] = v] \in [1 .. n -> InboxStates]
OBVIOUS

LEMMA EntryAdded ==
    ASSUME NEW n \in Nat, NEW q \in [1 .. n -> InboxStates], NEW v \in InboxStates, NEW m, m = n + 1
    PROVE  Append(q, v) \in [1 .. m -> InboxStates]
<1>1. q \in Seq(InboxStates) /\ Len(q) = n
  OBVIOUS
<1>. DEFINE a == Append(q, v)
<1>2. a \in Seq(InboxStates) /\ Len(a) = m
  BY <1>1
<1>. HIDE DEF a
<1>3. a \in [1 .. Len(a) -> InboxStates]
  BY <1>2
<1>. QED  BY <1>2, <1>3 DEF a

LEMMA QueuesStoreFill == \A s \in Wallets : PaperInv /\ QueueTypes /\ StoreFill(s) => QueueTypes'
<1>. SUFFICES ASSUME NEW s \in Wallets, PaperInv, QueueTypes, StoreFill(s) PROVE QueueTypes'
  OBVIOUS
<1>1. given \in [Wallets -> Nat] /\ given' = [given EXCEPT ![s] = @ + 1]
      /\ UNCHANGED <<aged, held, rowLock>>
  BY DEF PaperInv, WorkTypes, StoreFill
<1>2. PICK v \in {"pending", "gone"} : inbox' = [inbox EXCEPT ![s] = Append(@, v)]
  BY DEF StoreFill
<1>3. ASSUME NEW o \in Wallets PROVE aged[o] <= given'[o]
  BY <1>1 DEF QueueTypes
<1>4. ASSUME NEW o \in Wallets PROVE inbox'[o] \in [1 .. given'[o] -> InboxStates]
  <2>1. CASE o = s
    <3>1. inbox[s] \in [1 .. given[s] -> InboxStates] /\ given[s] \in Nat /\ v \in InboxStates
      BY <1>1 DEF QueueTypes, InboxStates
    <3>2. inbox'[o] = Append(inbox[s], v) /\ given'[o] = given[s] + 1
      BY <1>1, <1>2, <2>1 DEF QueueTypes
    <3>. DEFINE m == given'[o]
    <3>3. m = given[s] + 1
      BY <3>2
    <3>. HIDE DEF m
    <3>4. Append(inbox[s], v) \in [1 .. m -> InboxStates]
      BY <3>1, <3>3, EntryAdded
    <3>. QED  BY <3>2, <3>4 DEF m
  <2>2. CASE o # s
    BY <1>1, <1>2, <2>2 DEF QueueTypes
  <2>. QED  BY <2>1, <2>2
<1>. QED  BY <1>1, <1>2, <1>3, <1>4 DEF QueueTypes

LEMMA QueuesGrowOld == \A s \in Wallets : PaperInv /\ QueueTypes /\ GrowOld(s) => QueueTypes'
<1>. SUFFICES ASSUME NEW s \in Wallets, PaperInv, QueueTypes, GrowOld(s) PROVE QueueTypes'
  OBVIOUS
<1>1. given \in [Wallets -> Nat] /\ aged' = [aged EXCEPT ![s] = @ + 1] /\ aged[s] < given[s]
      /\ UNCHANGED <<given, inbox, held, rowLock>>
  BY DEF PaperInv, WorkTypes, GrowOld
<1>2. aged' \in [Wallets -> Nat] /\ \A o \in Wallets : aged'[o] <= given[o]
  BY <1>1 DEF QueueTypes
<1>. QED  BY <1>1, <1>2 DEF QueueTypes

LEMMA InboxChanged ==
    ASSUME QueueTypes, UNCHANGED <<given, aged, held, rowLock>>,
           \A o \in Wallets : inbox'[o] \in [1 .. given[o] -> InboxStates], DOMAIN inbox' = Wallets
    PROVE  QueueTypes'
BY DEF QueueTypes

LEMMA LocksChanged ==
    ASSUME QueueTypes, UNCHANGED <<given, aged, inbox>>, held' \in [Wallets -> LockHolders],
           rowLock' \in {Free, Operator}
    PROVE  QueueTypes'
BY DEF QueueTypes

LEMMA QueuesClaim ==
    \A c \in Consumers, s \in Wallets : \A i \in 1 .. given[s] :
        PaperInv /\ QueueTypes /\ Claim(c, s, i) => QueueTypes'
<1>. SUFFICES ASSUME NEW c \in Consumers, NEW s \in Wallets, NEW i \in 1 .. given[s],
                     PaperInv, QueueTypes, Claim(c, s, i)
              PROVE  QueueTypes'
  OBVIOUS
<1>1. inbox' = [inbox EXCEPT ![s] = [inbox[s] EXCEPT ![i] = c]] /\ UNCHANGED <<given, aged, held, rowLock>>
      /\ \A o \in Wallets : given[o] \in Nat
  BY DEF Claim, PaperInv, WorkTypes
<1>. DEFINE q == [inbox[s] EXCEPT ![i] = c]
<1>2. q \in [1 .. given[s] -> InboxStates]
  BY <1>1, EntrySet DEF QueueTypes, InboxStates
<1>. HIDE DEF q
<1>3. \A o \in Wallets : inbox'[o] \in [1 .. given[o] -> InboxStates]
  BY <1>1, <1>2 DEF QueueTypes, q
<1>4. DOMAIN inbox' = Wallets
  BY <1>1 DEF QueueTypes
<1>. QED  BY <1>1, <1>3, <1>4, InboxChanged

LEMMA QueuesComplete == \A c \in Consumers : PaperInv /\ QueueTypes /\ Complete(c) => QueueTypes'
<1>. SUFFICES ASSUME NEW c \in Consumers, PaperInv, QueueTypes, Complete(c) PROVE QueueTypes'
  OBVIOUS
<1>. DEFINE s == task[c].src
            i == task[c].from
            v == IF inbox[s][i] = c THEN "gone" ELSE inbox[s][i]
            q == [inbox[s] EXCEPT ![i] = v]
<1>1. UNCHANGED <<given, aged, held, rowLock>> /\ \A o \in Wallets : given[o] \in Nat
  BY DEF Complete, PaperInv, WorkTypes
<1>2. inbox' = [inbox EXCEPT ![s] = q]
  BY DEF Complete
<1>3. s \in Wallets => q \in [1 .. given[s] -> InboxStates]
  BY DEF QueueTypes, InboxStates
<1>. HIDE DEF s, q
<1>4. \A o \in Wallets : inbox'[o] \in [1 .. given[o] -> InboxStates]
  BY <1>2, <1>3 DEF QueueTypes
<1>5. DOMAIN inbox' = Wallets
  BY <1>2 DEF QueueTypes
<1>. QED  BY <1>1, <1>4, <1>5, InboxChanged

LEMMA QueuesInterrupt == \A t \in Copiers : PaperInv /\ QueueTypes /\ Interrupt(t) => QueueTypes'
<1>. SUFFICES ASSUME NEW t \in Copiers, PaperInv, QueueTypes, Interrupt(t) PROVE QueueTypes'
  OBVIOUS
<1>1. UNCHANGED <<given, aged, rowLock>> /\ held' = [s \in Wallets |-> IF held[s] = t THEN Free ELSE held[s]]
  BY DEF Interrupt
<1>2. held' \in [Wallets -> LockHolders]
  BY <1>1 DEF QueueTypes, LockHolders
<1>3. \A o \in Wallets : inbox'[o] \in [1 .. given[o] -> InboxStates]
  <2>1. CASE inbox' = inbox
    BY <2>1 DEF QueueTypes
  <2>2. CASE inbox' # inbox
    <3>1. inbox' = [s \in Wallets |-> [i \in DOMAIN inbox[s] |->
                    IF inbox[s][i] = t /\ task[t].from = i /\ task[t].src = s
                    THEN "pending" ELSE inbox[s][i]]]
      BY <2>2 DEF Interrupt
    <3>. QED  BY <3>1 DEF QueueTypes, InboxStates
  <2>. QED  BY <2>1, <2>2
<1>4. DOMAIN inbox' = Wallets
  BY DEF QueueTypes, Interrupt
<1>. QED  BY <1>1, <1>2, <1>3, <1>4 DEF QueueTypes

LEMMA QueuesLocks ==
    ASSUME PaperInv, QueueTypes,
           \/ \E t \in Copiers : LockSource(t)
           \/ \E t \in Copiers, x \in Market : CopyBatch(t, x)
           \/ Settle \/ LockForClose \/ CloseByHand \/ AbandonClose
    PROVE  QueueTypes'
<1>1. CASE \E t \in Copiers : LockSource(t)
  <2>1. PICK t \in Copiers : held' = [held EXCEPT ![task[t].src] = t] /\ UNCHANGED <<given, aged, inbox, rowLock>>
    BY <1>1 DEF LockSource
  <2>. QED  BY <2>1, LocksChanged DEF QueueTypes, LockHolders
<1>2. CASE \E t \in Copiers, x \in Market : CopyBatch(t, x)
  <2>1. PICK t \in Copiers : held' = [held EXCEPT ![task[t].src] = Free] /\ UNCHANGED <<given, aged, inbox, rowLock>>
    BY <1>2 DEF CopyBatch
  <2>. QED  BY <2>1, LocksChanged DEF QueueTypes, LockHolders
<1>3. CASE Settle
  <2>1. held' = [held EXCEPT ![task[Recovery].src] = Free] /\ UNCHANGED <<given, aged, inbox, rowLock>>
    BY <1>3 DEF Settle
  <2>. QED  BY <2>1, LocksChanged DEF QueueTypes, LockHolders
<1>4. CASE LockForClose
  <2>1. held' = [held EXCEPT ![NextToClose] = Operator] /\ UNCHANGED <<given, aged, inbox, rowLock>>
    BY <1>4 DEF LockForClose
  <2>. QED  BY <2>1, LocksChanged DEF QueueTypes, LockHolders
<1>5. FreedBy(Operator) \in [Wallets -> LockHolders]
  BY DEF FreedBy, QueueTypes, LockHolders
<1>6. CASE CloseByHand
  <2>1. UNCHANGED <<given, aged, inbox>> /\ (held' = held \/ held' = FreedBy(Operator)) /\ rowLock' \in {Free, Operator}
    BY <1>6 DEF CloseByHand
  <2>. QED  BY <1>5, <2>1, LocksChanged DEF QueueTypes
<1>7. CASE AbandonClose
  BY <1>5, <1>7, LocksChanged DEF AbandonClose
<1>. QED  BY <1>1, <1>2, <1>3, <1>4, <1>6, <1>7

LEMMA QueuesSame ==
    ASSUME QueueTypes, UNCHANGED <<given, aged, inbox, held, rowLock>>
    PROVE  QueueTypes'
BY DEF QueueTypes

LEMMA QueuesNext == PaperInv /\ QueueTypes /\ [PaperNext]_paperVars => QueueTypes'
<1>. SUFFICES ASSUME PaperInv, QueueTypes, [PaperNext]_paperVars PROVE QueueTypes'
  OBVIOUS
<1>1. CASE UNCHANGED paperVars
  BY <1>1, QueuesSame DEF paperVars
<1>2. CASE \E s \in Wallets : StoreFill(s) \/ GrowOld(s)
  BY <1>2, QueuesStoreFill, QueuesGrowOld
<1>3. CASE \E s \in Wallets : Recover(s)
  BY <1>3, QueuesSame DEF Recover
<1>4. CASE \E c \in Consumers : Complete(c)
  BY <1>4, QueuesComplete
<1>5. CASE \E c \in Consumers, s \in Wallets : \E i \in 1 .. given[s] : Claim(c, s, i)
  BY <1>5, QueuesClaim
<1>6. CASE \E t \in Copiers : Interrupt(t)
  BY <1>6, QueuesInterrupt
<1>7. CASE \/ \E t \in Copiers : LockSource(t)
           \/ \E t \in Copiers, x \in Market : CopyBatch(t, x)
           \/ Settle \/ LockForClose \/ CloseByHand \/ AbandonClose
  BY <1>7, QueuesLocks
<1>8. CASE SettleReads \/ ResetBalance \/ DeleteAccount
  BY <1>8, QueuesSame DEF SettleReads, ResetBalance, DeleteAccount
<1>9. CASE \E ss \in SUBSET Wallets : AskClose(ss)
  BY <1>9, QueuesSame DEF AskClose
<1>10. CASE \E gone \in SUBSET Wallets, paid \in BOOLEAN : RiskPass(gone, paid)
  BY <1>10, QueuesSame DEF RiskPass
<1>11. CASE \E on \in BOOLEAN : SetEnabled(on)
  BY <1>11, QueuesSame DEF SetEnabled
<1>. QED  BY <1>1, <1>2, <1>3, <1>4, <1>5, <1>6, <1>7, <1>8, <1>9, <1>10, <1>11 DEF PaperNext
----------------------------------------------------------------------------
(* Sums of integers over the domain of a function.                         *)
LEMMA SumIs ==
    ASSUME NEW D, IsFiniteSet(D), NEW f \in [D -> Int]
    PROVE  \E g \in Sums(f, D) : Sum(f) = g[D]
<1>. DEFINE rec(g) == [S \in SUBSET D |-> IF S = {} THEN 0 ELSE f[Pick(S)] + g[S \ {Pick(S)}]]
            s == CHOOSE g : g = rec(g)
<1>1. PICK g \in Sums(f, D) : TRUE
  BY SumExists
<1>2. g = rec(g)
  BY DEF Sums
<1>3. s = rec(s)
  BY <1>2
<1>4. Sum(f) = s[D]
  BY DEF Sum, MapThenSumSet, MapThenFoldSet, Pick
<1>. HIDE DEF s
<1>5. s \in Sums(f, D)
  <2>1. \A x \in D : f[x] \in Int
    OBVIOUS
  <2>. QED  BY <1>3, <2>1, ChosenIsSum
<1>. QED  BY <1>4, <1>5

OnSet(f, A) == [x \in A |-> f[x]]

LEMMA SumInt ==
    ASSUME NEW D, IsFiniteSet(D), NEW f \in [D -> Int]
    PROVE  Sum(f) \in Int
<1>1. PICK g \in Sums(f, D) : Sum(f) = g[D]
  BY SumIs
<1>2. g \in [SUBSET D -> Int]
  BY DEF Sums
<1>. QED  BY <1>1, <1>2

(* The sum over two sets with nothing in common is the sum of the sums.    *)
LEMMA SumDisjoint ==
    ASSUME NEW D, IsFiniteSet(D), NEW f \in [D -> Int],
           NEW A, NEW B, A \cup B = D, A \cap B = {}
    PROVE  Sum(f) = Sum(OnSet(f, A)) + Sum(OnSet(f, B))
<1>1. PICK g \in Sums(f, D) : Sum(f) = g[D]
  BY SumIs
<1>2. IsFiniteSet(A) /\ IsFiniteSet(B) /\ A \subseteq D /\ B \subseteq D
  BY FS_Subset
<1>3. ASSUME NEW U, U \subseteq D, IsFiniteSet(U)
      PROVE  Sum(OnSet(f, U)) = g[U]
  <2>1. OnSet(f, U) \in [U -> Int] /\ \A x \in U : f[x] = OnSet(f, U)[x]
    BY <1>3 DEF OnSet
  <2>2. PICK h \in Sums(OnSet(f, U), U) : Sum(OnSet(f, U)) = h[U]
    BY <1>3, <2>1, SumIs
  <2>3. g[U] = h[U]
    <3>. DEFINE e == OnSet(f, U)
    <3>1. \A x \in U : f[x] = e[x]
      BY <2>1
    <3>. HIDE DEF e
    <3>. QED  BY <1>3, <2>2, <3>1, SumsAgree DEF e
  <2>. QED  BY <2>2, <2>3
<1>. DEFINE F == {S \in SUBSET B : g[A \cup S] # g[A] + g[S]}
<1>4. ASSUME F # {} PROVE FALSE
  <2>1. F \subseteq SUBSET B
    OBVIOUS
  <2>2. \E S \in F : \A T \in F : ~(T \subseteq S /\ T # S)
    <3>. HIDE DEF F
    <3>. QED  BY <1>2, <1>4, <2>1, SmallestSubset
  <2>3. PICK S \in F : \A T \in F : ~(T \subseteq S /\ T # S)
    BY <2>2, Zenon
  <2>4. g[A] \in Int /\ g[A \cup S] \in Int /\ g[S] \in Int
    BY <1>2 DEF Sums
  <2>5. PICK y \in S : TRUE
    <3>. SUFFICES ASSUME S = {} PROVE FALSE
      OBVIOUS
    <3>1. g[S] = 0 /\ A \cup S = A
      BY DEF Sums
    <3>. QED  BY <3>1, <2>4
  <2>6. y \in D /\ y \notin A /\ (A \cup S) \ {y} = A \cup (S \ {y})
    BY <1>2
  <2>7. g[A \cup S] = f[y] + g[A \cup (S \ {y})]
    BY <1>2, <2>6, SumTakesAny
  <2>8. g[S] = f[y] + g[S \ {y}]
    BY <1>2, <2>6, SumTakesAny
  <2>9. g[A \cup (S \ {y})] = g[A] + g[S \ {y}]
    <3>1. S \ {y} \notin F
      <4>. HIDE DEF F
      <4>. QED  BY <2>3
    <3>. QED  BY <3>1
  <2>10. f[y] \in Int /\ g[S \ {y}] \in Int
    BY <2>6, <1>2 DEF Sums
  <2>11. g[A \cup S] # g[A] + g[S]
    OBVIOUS
  <2>. HIDE DEF F
  <2>. QED  BY <2>4, <2>7, <2>8, <2>9, <2>10, <2>11
<1>5. g[D] = g[A] + g[B]
  BY <1>4
<1>. QED  BY <1>1, <1>2, <1>3, <1>5

LEMMA SumEmpty ==
    ASSUME NEW f \in [{} -> Int]
    PROVE  Sum(f) = 0
<1>1. IsFiniteSet({})
  BY FS_EmptySet
<1>2. PICK g \in Sums(f, {}) : Sum(f) = g[{}]
  BY <1>1, SumIs
<1>. QED  BY <1>2 DEF Sums

(* A sum of equal terms.                                                   *)
LEMMA SumSame ==
    ASSUME NEW D, IsFiniteSet(D), NEW v \in Int, NEW f \in [D -> Int], \A x \in D : f[x] = v
    PROVE  Sum(f) = v * Cardinality(D)
<1>1. PICK g \in Sums(f, D) : Sum(f) = g[D]
  BY SumIs
<1>. DEFINE F == {S \in SUBSET D : g[S] # v * Cardinality(S)}
<1>2. ASSUME F # {} PROVE FALSE
  <2>1. F \subseteq SUBSET D
    OBVIOUS
  <2>2. \E S \in F : \A T \in F : ~(T \subseteq S /\ T # S)
    <3>. HIDE DEF F
    <3>. QED  BY <1>2, <2>1, SmallestSubset
  <2>3. PICK S \in F : \A T \in F : ~(T \subseteq S /\ T # S)
    BY <2>2, Zenon
  <2>4. PICK y \in S : TRUE
    <3>. SUFFICES ASSUME S = {} PROVE FALSE
      OBVIOUS
    <3>1. g[S] = 0 /\ Cardinality(S) = 0
      BY FS_EmptySet DEF Sums
    <3>. QED  BY <3>1
  <2>5. g[S] = f[y] + g[S \ {y}]
    BY SumTakesAny
  <2>6. g[S \ {y}] = v * Cardinality(S \ {y})
    <3>1. S \ {y} \notin F
      <4>. HIDE DEF F
      <4>. QED  BY <2>3
    <3>. QED  BY <3>1
  <2>7. Cardinality(S) - 1 = Cardinality(S \ {y}) /\ Cardinality(S) \in Nat
    BY FS_Subset, FS_RemoveElement, FS_CardinalityType
  <2>8. g[S] # v * Cardinality(S) /\ f[y] = v
    OBVIOUS
  <2>. DEFINE k == Cardinality(S)
  <2>9. v + v * (k - 1) = v * k
    <3>1. k \in Nat
      BY <2>7
    <3>. HIDE DEF k
    <3>. QED  BY <3>1
  <2>. HIDE DEF F
  <2>. QED  BY <2>5, <2>6, <2>7, <2>8, <2>9
<1>. QED  BY <1>1, <1>2
----------------------------------------------------------------------------
(* Payments, and what they add up to.                                      *)
PaymentRow == [id : Nat, hour : Int, amount : Int]

Paid(S) == Sum([n \in S |-> n.amount])

PaidFor(ids, amount, due, c) == {[id |-> ids[c], hour |-> h, amount |-> amount[c]] : h \in due[c]}

PaidForAll(ids, amount, due, T) == UNION {PaidFor(ids, amount, due, c) : c \in T}

LEMMA PaidInt ==
    ASSUME NEW S, IsFiniteSet(S), S \subseteq PaymentRow
    PROVE  Paid(S) \in Int
<1>. DEFINE f == [n \in S |-> n.amount]
<1>1. f \in [S -> Int]
  BY DEF PaymentRow
<1>. HIDE DEF f
<1>2. Sum(f) \in Int
  BY <1>1, SumInt
<1>. QED  BY <1>2 DEF Paid, f

LEMMA PaidDisjoint ==
    ASSUME NEW S, NEW T, IsFiniteSet(S), IsFiniteSet(T), S \subseteq PaymentRow, T \subseteq PaymentRow,
           S \cap T = {}
    PROVE  Paid(S \cup T) = Paid(S) + Paid(T)
<1>. DEFINE D == S \cup T
            f == [n \in D |-> n.amount]
<1>1. IsFiniteSet(D) /\ f \in [D -> Int]
  BY FS_Union DEF PaymentRow
<1>2. OnSet(f, S) = [n \in S |-> n.amount] /\ OnSet(f, T) = [n \in T |-> n.amount]
  BY DEF OnSet
<1>3. D = S \cup T
  OBVIOUS
<1>. HIDE DEF f, D
<1>4. Sum(f) = Sum(OnSet(f, S)) + Sum(OnSet(f, T))
  BY <1>1, <1>3, SumDisjoint
<1>. QED  BY <1>2, <1>4 DEF Paid, f, D

LEMMA PaidForIs ==
    ASSUME NEW ids, NEW amount, NEW due, NEW c, ids[c] \in Nat, amount[c] \in Int,
           IsFiniteSet(due[c]), due[c] \subseteq Int
    PROVE  LET new == PaidFor(ids, amount, due, c)
           IN /\ IsFiniteSet(new) /\ new \subseteq PaymentRow
              /\ Paid(new) = amount[c] * Cardinality(due[c])
<1>. DEFINE new == PaidFor(ids, amount, due, c)
            S == due[c]
            entry(h) == [id |-> ids[c], hour |-> h, amount |-> amount[c]]
            f == [h \in S |-> entry(h)]
            e == [n \in new |-> n.amount]
<1>0. new = {entry(h) : h \in S}
  BY DEF PaidFor
<1>1. new = {f[h] : h \in S} /\ \A n \in new : n \in PaymentRow /\ n.amount = amount[c]
  <2>1. \A h \in S : entry(h) \in PaymentRow /\ entry(h).amount = amount[c] /\ f[h] = entry(h)
    BY DEF PaymentRow
  <2>. HIDE DEF new, entry, f, S
  <2>. QED  BY <1>0, <2>1
<1>2. f \in Bijection(S, new)
  <2>1. f \in [S -> new]
    BY <1>1
  <2>2. \A h, k \in S : f[h] = f[k] => h = k
    OBVIOUS
  <2>3. \A n \in new : \E h \in S : f[h] = n
    BY <1>1
  <2>. HIDE DEF f, new, S
  <2>. QED  BY <2>1, <2>2, <2>3, Fun_IsBij
<1>3. IsFiniteSet(new) /\ Cardinality(new) = Cardinality(S)
  <2>1. ExistsBijection(S, new)
    BY <1>2, Fun_ExistsBij
  <2>. HIDE DEF new, S
  <2>. QED  BY <2>1, FS_Bijection DEF S
<1>4. e \in [new -> Int] /\ \A n \in new : e[n] = amount[c]
  BY <1>1
<1>5. Sum(e) = amount[c] * Cardinality(new)
  <2>. HIDE DEF new, e
  <2>. QED  BY <1>3, <1>4, SumSame
<1>. QED  BY <1>1, <1>3, <1>5 DEF Paid

(* What is booked for some coins is what the rows stored for them add up   *)
(* to, when coins have identifiers of their own.                           *)
LEMMA PaidForAllIs ==
    ASSUME NEW E, IsFiniteSet(E), NEW ids \in [E -> Nat], NEW amount \in [E -> Int],
           NEW due, \A c \in E : IsFiniteSet(due[c]) /\ due[c] \subseteq Int,
           \A c, d \in E : ids[c] = ids[d] => c = d
    PROVE  LET new == PaidForAll(ids, amount, due, E)
           IN /\ IsFiniteSet(new) /\ new \subseteq PaymentRow
              /\ Paid(new) = Sum([c \in E |-> amount[c] * Cardinality(due[c])])
<1>. DEFINE f == [c \in E |-> amount[c] * Cardinality(due[c])]
            New(T) == PaidForAll(ids, amount, due, T)
            Good(T) == IsFiniteSet(New(T)) /\ New(T) \subseteq PaymentRow
                         /\ Paid(New(T)) = Sum(OnSet(f, T))
            F == {T \in SUBSET E : ~Good(T)}
<1>1. f \in [E -> Int]
  BY FS_CardinalityType
<1>2. ASSUME F # {} PROVE FALSE
  <2>1. F \subseteq SUBSET E
    OBVIOUS
  <2>2. \E S \in F : \A T \in F : ~(T \subseteq S /\ T # S)
    <3>. HIDE DEF F
    <3>. QED  BY <1>2, <2>1, SmallestSubset
  <2>3. PICK S \in F : \A T \in F : ~(T \subseteq S /\ T # S)
    BY <2>2, Zenon
  <2>4. ASSUME S = {} PROVE FALSE
    <3>1. New(S) = {}
      BY <2>4 DEF PaidForAll
    <3>2. Paid({}) = 0
      <4>. DEFINE e == [n \in {} |-> n.amount]
      <4>1. e \in [{} -> Int]
        OBVIOUS
      <4>2. Sum(e) = 0
        <5>. HIDE DEF e
        <5>. QED  BY <4>1, SumEmpty
      <4>. QED  BY <4>2 DEF Paid
    <3>3. Sum(OnSet(f, S)) = 0
      <4>. DEFINE e == OnSet(f, S)
      <4>1. e \in [{} -> Int]
        BY <2>4 DEF OnSet
      <4>2. Sum(e) = 0
        <5>. HIDE DEF e
        <5>. QED  BY <4>1, SumEmpty
      <4>. QED  BY <4>2
    <3>4. Good(S)
      <4>. HIDE DEF New
      <4>. QED  BY <3>1, <3>2, <3>3, FS_EmptySet
    <3>. QED  BY <3>4
  <2>5. PICK y \in S : TRUE
    BY <2>4
  <2>. DEFINE T == S \ {y}
              one == PaidFor(ids, amount, due, y)
  <2>6. Good(T)
    <3>1. T \notin F
      <4>. HIDE DEF F
      <4>. QED  BY <2>3
    <3>. HIDE DEF Good
    <3>. QED  BY <3>1
  <2>7. y \in E /\ S \subseteq E /\ T \subseteq E
    OBVIOUS
  <2>8. IsFiniteSet(one) /\ one \subseteq PaymentRow /\ Paid(one) = f[y]
    BY <2>7, PaidForIs
  <2>9. New(S) = New(T) \cup one
    BY DEF PaidForAll
  <2>10. New(T) \cap one = {}
    <3>1. ASSUME NEW n \in New(T), n \in one PROVE FALSE
      <4>1. PICK d \in T : n \in PaidFor(ids, amount, due, d)
        BY <3>1 DEF PaidForAll
      <4>2. n.id = ids[d] /\ n.id = ids[y]
        BY <4>1, <3>1 DEF PaidFor
      <4>. QED  BY <4>1, <4>2, <2>7
    <3>. QED  BY <3>1
  <2>11. Sum(OnSet(f, S)) = Sum(OnSet(f, T)) + f[y]
    <3>. DEFINE e == OnSet(f, S)
    <3>1. IsFiniteSet(S) /\ e \in [S -> Int] /\ e[y] = f[y]
      BY <1>1, <2>7, FS_Subset DEF OnSet
    <3>2. OnSet(e, T) = OnSet(f, T) /\ OnSet(e, {y}) = [x \in {y} |-> f[y]]
      BY <2>7 DEF OnSet
    <3>3. T \cup {y} = S /\ T \cap {y} = {}
      OBVIOUS
    <3>. HIDE DEF e, T
    <3>4. Sum(e) = Sum(OnSet(e, T)) + Sum(OnSet(e, {y}))
      BY <3>1, <3>3, SumDisjoint
    <3>. DEFINE o == [x \in {y} |-> f[y]]
    <3>5. o \in [{y} -> Int] /\ \A x \in {y} : o[x] = f[y]
      BY <1>1, <2>7
    <3>6. Sum(o) = f[y] * Cardinality({y})
      <4>1. IsFiniteSet({y}) /\ f[y] \in Int
        BY FS_Singleton, <1>1, <2>7
      <4>. HIDE DEF o
      <4>. QED  BY <3>5, <4>1, SumSame
    <3>7. Cardinality({y}) = 1 /\ f[y] \in Int
      BY FS_Singleton, <1>1, <2>7
    <3>8. f[y] * 1 = f[y]
      <4>. DEFINE v == f[y]
      <4>1. v \in Int
        BY <3>7
      <4>. HIDE DEF v
      <4>2. v * 1 = v
        BY <4>1
      <4>. QED  BY <4>2 DEF v
    <3>9. Sum(o) = f[y]
      <4>. HIDE DEF o
      <4>. QED  BY <3>6, <3>7, <3>8
    <3>. QED  BY <3>2, <3>4, <3>9 DEF e
  <2>12. Good(S)
    <3>. HIDE DEF New, f, one, T
    <3>1. Paid(New(T) \cup one) = Paid(New(T)) + Paid(one)
      BY <2>6, <2>8, <2>10, PaidDisjoint
    <3>2. IsFiniteSet(New(T) \cup one)
      BY <2>6, <2>8, FS_Union
    <3>. QED  BY <2>6, <2>8, <2>9, <2>11, <3>1, <3>2
  <2>. HIDE DEF Good
  <2>. QED  BY <2>12
<1>3. Good(E)
  <2>. HIDE DEF Good
  <2>. QED  BY <1>2
<1>4. OnSet(f, E) = f
  BY <1>1 DEF OnSet
<1>. QED  BY <1>3, <1>4
----------------------------------------------------------------------------
(***************************************************************************)
(* The paper account under the risk loop.  The funding of the account is   *)
(* what was paid since its last reset, and that of a position what was     *)
(* paid for its identifier: both are sums over the same payments, a        *)
(* position and an hour have one of them, and an identifier is never used  *)
(* again.                                                                  *)
(*                                                                         *)
(* The peak of the account is the highest equity recorded since that       *)
(* reset, whatever became of the snapshots, and no snapshot is above it.   *)
(***************************************************************************)
AccountRow == [enabled : BOOLEAN, exit : BOOLEAN, cash : Int, funding : Int, peak : Int, base : Nat]
PositionRow == [id : Nat, size : Int, cost : Int, margin : Int, funding : Int, opened : Nat]
SnapshotRow == [at : Nat, equity : Int]
Marks == UNION {[S -> Int] : S \in SUBSET Coins}
PassRow == [pc : {"idle", "prices", "liquidate", "fund", "record"}, now : Nat,
            coins : SUBSET Coins, marks : Marks]
UsedRow == [entries : Nat, troubles : Nat]

RiskTyped ==
    /\ clock \in 0 .. MaxTime /\ price \in [Coins -> Prices]
    /\ account \in AccountRow /\ positions \in [Coins -> PositionRow]
    /\ IsFiniteSet(payments) /\ payments \subseteq PaymentRow
    /\ snapshots \in Seq(SnapshotRow) /\ pass \in PassRow
    /\ highest \in Int /\ used \in UsedRow

(* A position's identifier is its own, and newer than the last reset.      *)
IdentifiersOwn ==
    /\ account.base <= used.entries
    /\ \A c \in Held : /\ account.base < positions[c].id /\ positions[c].id <= used.entries
                       /\ positions[c].size # 0
    /\ \A c, d \in Held : positions[c].id = positions[d].id => c = d
    /\ \A n \in payments : n.id <= used.entries
    /\ \A n, k \in payments : n.id = k.id /\ n.hour = k.hour => n = k

PeakKept ==
    /\ account.peak = highest
    /\ \A i \in 1 .. Len(snapshots) : 0 <= snapshots[i].equity /\ snapshots[i].equity <= highest

PaidAfter(written, base) == Paid({n \in written : n.id > base})
PaidOf(written, id) == Paid({n \in written : n.id = id})

Booking ==
    /\ account.funding = PaidAfter(payments, account.base)
    /\ \A c \in Held : positions[c].funding = PaidOf(payments, positions[c].id)

RiskInv == RiskTyped /\ IdentifiersOwn /\ PeakKept /\ Booking

LEMMA RiskInvBooked == RiskInv => RiskTypeOK /\ FundingBooked
<1>. SUFFICES ASSUME RiskInv PROVE RiskTypeOK /\ FundingBooked
  OBVIOUS
<1>1. RiskTypeOK
  <2>1. \A c \in Held : positions[c].id \in 1 .. used.entries
    BY DEF RiskInv, RiskTyped, IdentifiersOwn, PositionRow, UsedRow, AccountRow, Held
  <2>. QED  BY <2>1 DEF RiskInv, RiskTyped, RiskTypeOK, IdentifiersOwn, AccountRow, PassRow
<1>2. FundingBooked
  BY DEF RiskInv, Booking, FundingBooked, PaidAfter, PaidOf, Paid
<1>. QED  BY <1>1, <1>2

LEMMA NoMarks == <<>> \in Marks /\ NoPass \in PassRow
<1>1. <<>> \in [{} -> Int]
  OBVIOUS
<1>2. <<>> \in Marks
  BY <1>1 DEF Marks
<1>. QED  BY <1>2 DEF NoPass, PassRow

LEMMA NothingPaid == Paid({}) = 0
<1>. DEFINE e == [n \in {} |-> n.amount]
<1>1. e \in [{} -> Int]
  OBVIOUS
<1>2. Sum(e) = 0
  <2>. HIDE DEF e
  <2>. QED  BY <1>1, SumEmpty
<1>. QED  BY <1>2 DEF Paid

LEMMA RiskInvInit == RiskInit => RiskInv
<1>. SUFFICES ASSUME RiskInit PROVE RiskInv
  OBVIOUS
<1>0. Held = {} /\ payments = {} /\ snapshots = <<>>
  BY DEF RiskInit, Held
<1>1. RiskTyped
  <2>1. NoPosition \in PositionRow
    BY DEF NoPosition, PositionRow
  <2>2. account \in AccountRow /\ used \in UsedRow /\ highest \in Int
    BY RiskAssumption DEF RiskInit, AccountRow, UsedRow, Never
  <2>3. clock \in 0 .. MaxTime
    BY RiskAssumption DEF RiskInit
  <2>. QED  BY <1>0, <2>1, <2>2, <2>3, FS_EmptySet, NoMarks DEF RiskTyped, RiskInit
<1>2. IdentifiersOwn /\ PeakKept
  BY <1>0 DEF RiskInit, IdentifiersOwn, PeakKept
<1>3. Booking
  <2>1. {n \in payments : n.id > account.base} = {}
    BY <1>0
  <2>. QED  BY <1>0, <2>1, NothingPaid DEF Booking, PaidAfter, RiskInit
<1>. QED  BY <1>1, <1>2, <1>3 DEF RiskInv

(* Steps that book nothing.                                                *)
LEMMA NothingBooked ==
    ASSUME RiskInv, UNCHANGED <<positions, payments, snapshots, highest>>,
           clock' \in 0 .. MaxTime, price' \in [Coins -> Prices], pass' \in PassRow,
           account' \in AccountRow, account'.funding = account.funding,
           account'.peak = account.peak, account'.base = account.base,
           used' \in UsedRow, used.entries <= used'.entries
    PROVE  RiskInv'
<1>0. Held' = Held /\ Held \subseteq Coins
  BY DEF Held
<1>1. RiskTyped'
  BY DEF RiskInv, RiskTyped
<1>2. IdentifiersOwn'
  <2>1. account.base \in Nat /\ used.entries \in Nat /\ used'.entries \in Nat
    BY DEF RiskInv, RiskTyped, AccountRow, UsedRow
  <2>2. \A c \in Held : positions[c].id \in Nat
    BY DEF RiskInv, RiskTyped, PositionRow, Held
  <2>3. \A n \in payments : n.id \in Nat
    BY DEF RiskInv, RiskTyped, PaymentRow
  <2>. QED  BY <1>0, <2>1, <2>2, <2>3 DEF RiskInv, IdentifiersOwn
<1>3. PeakKept'
  BY DEF RiskInv, PeakKept
<1>4. Booking'
  BY <1>0 DEF RiskInv, Booking, PaidAfter, PaidOf
<1>. QED  BY <1>1, <1>2, <1>3, <1>4 DEF RiskInv

LEMMA TroubleTyped == used \in UsedRow /\ Trouble => used' \in UsedRow /\ used'.entries = used.entries
BY DEF UsedRow, Trouble

LEMMA InvTick == RiskInv /\ Tick => RiskInv'
<1>. SUFFICES ASSUME RiskInv, Tick PROVE RiskInv'
  OBVIOUS
<1>1. clock' \in 0 .. MaxTime
  BY RiskAssumption DEF RiskInv, RiskTyped, Tick
<1>2. used.entries <= used'.entries
  BY DEF RiskInv, RiskTyped, UsedRow, Tick
<1>. QED  BY <1>1, <1>2, NothingBooked DEF Tick, riskBooks, RiskInv, RiskTyped

LEMMA InvMove == \A c \in Coins : RiskInv /\ Move(c) => RiskInv'
<1>. SUFFICES ASSUME NEW c \in Coins, RiskInv, Move(c) PROVE RiskInv'
  OBVIOUS
<1>1. price' \in [Coins -> Prices]
  BY DEF RiskInv, RiskTyped, Move
<1>2. used' \in UsedRow /\ used.entries <= used'.entries
  BY TroubleTyped DEF RiskInv, RiskTyped, UsedRow, Move
<1>. QED  BY <1>1, <1>2, NothingBooked DEF Move, riskBooks, RiskInv, RiskTyped

LEMMA InvCrash == RiskInv /\ Crash => RiskInv'
<1>. SUFFICES ASSUME RiskInv, Crash PROVE RiskInv'
  OBVIOUS
<1>1. used' \in UsedRow /\ used.entries <= used'.entries
  BY TroubleTyped DEF RiskInv, RiskTyped, UsedRow, Crash
<1>. QED  BY <1>1, NoMarks, NothingBooked DEF Crash, riskBooks, RiskInv, RiskTyped

LEMMA InvBegin == RiskInv /\ Begin => RiskInv'
<1>. SUFFICES ASSUME RiskInv, Begin PROVE RiskInv'
  OBVIOUS
<1>1. pass' \in PassRow
  BY NoMarks, RiskAssumption DEF RiskInv, RiskTyped, PassRow, Begin, Held
<1>2. used.entries <= used'.entries
  BY DEF RiskInv, RiskTyped, UsedRow, Begin, world
<1>. QED  BY <1>1, <1>2, NothingBooked DEF Begin, world, riskBooks, RiskInv, RiskTyped

LEMMA InvLoadPrices == RiskInv /\ LoadPrices => RiskInv'
<1>. SUFFICES ASSUME RiskInv, LoadPrices PROVE RiskInv'
  OBVIOUS
<1>1. PICK priced \in SUBSET pass.coins :
        pass' = [pass EXCEPT !.pc = "liquidate", !.marks = [c \in priced |-> price[c]]]
  BY DEF LoadPrices
<1>2. pass' \in PassRow
  <2>. DEFINE marks == [c \in priced |-> price[c]]
  <2>1. pass \in PassRow /\ priced \subseteq Coins
    BY <1>1 DEF RiskInv, RiskTyped, PassRow
  <2>2. marks \in [priced -> Int]
    <3>1. \A c \in Coins : price[c] \in Int
      <4>1. \A x \in Prices : x \in Int
        <5>1. \A x \in Prices : x \in Nat
          BY RiskAssumption
        <5>. QED  BY <5>1
      <4>2. price \in [Coins -> Prices]
        BY DEF RiskInv, RiskTyped
      <4>. QED  BY <4>1, <4>2
    <3>. QED  BY <2>1, <3>1
  <2>3. marks \in Marks
    BY <2>1, <2>2 DEF Marks
  <2>. HIDE DEF marks
  <2>. QED  BY <1>1, <2>1, <2>3 DEF PassRow, marks
<1>3. used' \in UsedRow /\ used.entries <= used'.entries
  <2>1. used' = used \/ Trouble
    BY DEF LoadPrices
  <2>. QED  BY <2>1, TroubleTyped DEF RiskInv, RiskTyped, UsedRow
<1>. QED  BY <1>2, <1>3, NothingBooked DEF LoadPrices, riskBooks, RiskInv, RiskTyped

LEMMA InvEnableAccount == \A on \in BOOLEAN : RiskInv /\ EnableAccount(on) => RiskInv'
<1>. SUFFICES ASSUME NEW on \in BOOLEAN, RiskInv, EnableAccount(on) PROVE RiskInv'
  OBVIOUS
<1>1. account' \in AccountRow /\ account'.funding = account.funding /\ account'.peak = account.peak
        /\ account'.base = account.base
  <2>. DEFINE e == account.exit /\ ~on
  <2>1. account \in AccountRow /\ e \in BOOLEAN
    BY DEF RiskInv, RiskTyped
  <2>2. account' = [account EXCEPT !.enabled = on, !.exit = e]
    BY DEF EnableAccount
  <2>. HIDE DEF e
  <2>. QED  BY <2>1, <2>2 DEF AccountRow
<1>2. used' \in UsedRow /\ used.entries <= used'.entries
  BY TroubleTyped DEF RiskInv, RiskTyped, UsedRow, EnableAccount
<1>. QED  BY <1>1, <1>2, NothingBooked DEF EnableAccount, RiskInv, RiskTyped

LEMMA InvConfigure == RiskInv /\ Configure => RiskInv'
<1>. SUFFICES ASSUME RiskInv, Configure PROVE RiskInv'
  OBVIOUS
<1>1. account' \in AccountRow /\ account'.funding = account.funding /\ account'.peak = account.peak
        /\ account'.base = account.base
  BY DEF RiskInv, RiskTyped, Configure, AccountRow
<1>2. used' \in UsedRow /\ used.entries <= used'.entries
  BY TroubleTyped DEF RiskInv, RiskTyped, UsedRow, Configure
<1>. QED  BY <1>1, <1>2, NothingBooked DEF Configure, RiskInv, RiskTyped

LEMMA InvReset == RiskInv /\ Reset => RiskInv'
<1>. SUFFICES ASSUME RiskInv, Reset PROVE RiskInv'
  OBVIOUS
<1>0. Held' = Held /\ Held = {}
  BY DEF Held, Reset
<1>1. account' \in AccountRow /\ account'.funding = 0 /\ account'.peak = Never
        /\ account'.base = used.entries
  <2>1. account \in AccountRow /\ used.entries \in Nat /\ StartingBalance \in Int
    BY RiskAssumption DEF RiskInv, RiskTyped, UsedRow
  <2>. DEFINE m == used.entries
              a == [account EXCEPT !.cash = StartingBalance]
              b == [a EXCEPT !.funding = 0]
              k == [b EXCEPT !.peak = Never]
              d == [k EXCEPT !.exit = FALSE]
              e == [d EXCEPT !.base = m]
  <2>2. account' = e
    BY DEF Reset
  <2>3. a \in AccountRow
    BY <2>1 DEF AccountRow
  <2>. HIDE DEF a
  <2>4. b \in AccountRow /\ b.funding = 0
    BY <2>3 DEF AccountRow
  <2>. HIDE DEF b
  <2>5. k \in AccountRow /\ k.funding = 0 /\ k.peak = Never
    BY <2>4 DEF AccountRow, Never
  <2>. HIDE DEF k
  <2>6. d \in AccountRow /\ d.funding = 0 /\ d.peak = Never
    BY <2>5 DEF AccountRow
  <2>. HIDE DEF d
  <2>7. e \in AccountRow /\ e.funding = 0 /\ e.peak = Never /\ e.base = m
    BY <2>1, <2>6 DEF AccountRow
  <2>. HIDE DEF e
  <2>. QED  BY <2>2, <2>7
<1>2. RiskTyped'
  BY <1>1 DEF RiskInv, RiskTyped, Reset, world, Never
<1>3. IdentifiersOwn' /\ PeakKept'
  BY <1>0, <1>1 DEF RiskInv, RiskTyped, UsedRow, IdentifiersOwn, PeakKept, Reset, world
<1>4. Booking'
  <2>1. {n \in payments : n.id > used.entries} = {}
    BY DEF RiskInv, RiskTyped, IdentifiersOwn, PaymentRow, UsedRow
  <2>2. payments' = payments
    BY DEF Reset
  <2>. QED  BY <1>0, <1>1, <2>1, <2>2, NothingPaid DEF Booking, PaidAfter
<1>. QED  BY <1>2, <1>3, <1>4 DEF RiskInv

(* Steps of positions: kept, gone, or a new one of no funding.             *)
SameRow(p, q) == q \in PositionRow /\ q.id = p.id /\ q.funding = p.funding /\ q.size # 0

LEMMA PositionsMove ==
    ASSUME RiskInv, positions' \in [Coins -> PositionRow], NEW opened,
           \A c \in Coins :
               \/ positions'[c] = NoPosition
               \/ c \in Held /\ SameRow(positions[c], positions'[c])
               \/ /\ c = opened /\ used'.entries = used.entries + 1
                  /\ positions'[c].id = used'.entries /\ positions'[c].funding = 0
                  /\ positions'[c].size # 0,
           UNCHANGED <<clock, price, payments, snapshots, highest>>, pass' \in PassRow,
           account' \in AccountRow, account'.funding = account.funding,
           account'.peak = account.peak, account'.base = account.base,
           used' \in UsedRow, used.entries <= used'.entries
    PROVE  RiskInv'
<1>1. RiskTyped'
  BY DEF RiskInv, RiskTyped
<1>2. account.base \in Nat /\ used.entries \in Nat /\ used'.entries \in Nat
  BY DEF RiskInv, RiskTyped, AccountRow, UsedRow
<1>3. \A c \in Coins : positions[c] \in PositionRow /\ positions'[c] \in PositionRow
  BY DEF RiskInv, RiskTyped
<1>4. \A c \in Coins : positions[c].id \in Nat /\ positions'[c].id \in Nat
  BY <1>3 DEF PositionRow
<1>5. \A n \in payments : n.id \in Nat /\ n.id <= used.entries
  BY DEF RiskInv, RiskTyped, IdentifiersOwn, PaymentRow
<1>6. ASSUME NEW c \in Held'
      PROVE  /\ c \in Coins
             /\ \/ c \in Held /\ SameRow(positions[c], positions'[c])
                \/ /\ c = opened /\ used'.entries = used.entries + 1
                   /\ positions'[c].id = used'.entries /\ positions'[c].funding = 0
                   /\ positions'[c].size # 0
  BY DEF Held
<1>7. \A c \in Held : account.base < positions[c].id /\ positions[c].id <= used.entries
  BY DEF RiskInv, IdentifiersOwn
<1>8. IdentifiersOwn'
  <2>1. ASSUME NEW c \in Held'
        PROVE  account'.base < positions'[c].id /\ positions'[c].id <= used'.entries
                 /\ positions'[c].size # 0
    BY <1>2, <1>4, <1>6, <1>7 DEF SameRow, RiskInv, IdentifiersOwn
  <2>2. ASSUME NEW c \in Held', NEW d \in Held', positions'[c].id = positions'[d].id
        PROVE  c = d
    <3>1. CASE c \in Held /\ SameRow(positions[c], positions'[c])
      <4>1. CASE d \in Held /\ SameRow(positions[d], positions'[d])
        BY <2>2, <3>1, <4>1 DEF SameRow, RiskInv, IdentifiersOwn
      <4>2. CASE d = opened /\ used'.entries = used.entries + 1 /\ positions'[d].id = used'.entries
        <5>1. positions'[c].id = positions[c].id /\ positions[c].id <= used.entries
          BY <3>1, <1>7 DEF SameRow
        <5>2. positions[c].id \in Nat
          BY <1>4, <1>6
        <5>. QED  BY <2>2, <4>2, <5>1, <5>2, <1>2
      <4>. QED  BY <4>1, <4>2, <1>6
    <3>2. CASE c = opened /\ used'.entries = used.entries + 1 /\ positions'[c].id = used'.entries
      <4>1. CASE d \in Held /\ SameRow(positions[d], positions'[d])
        BY <2>2, <3>2, <4>1, <1>2, <1>4, <1>6, <1>7 DEF SameRow
      <4>2. CASE d = opened
        BY <3>2, <4>2
      <4>. QED  BY <4>1, <4>2, <1>6
    <3>. QED  BY <3>1, <3>2, <1>6
  <2>3. \A n \in payments' : n.id <= used'.entries
    BY <1>2, <1>5
  <2>4. \A n, k \in payments' : n.id = k.id /\ n.hour = k.hour => n = k
    BY DEF RiskInv, IdentifiersOwn
  <2>5. account'.base <= used'.entries
    BY <1>2 DEF RiskInv, IdentifiersOwn
  <2>. QED  BY <2>1, <2>2, <2>3, <2>4, <2>5 DEF IdentifiersOwn
<1>9. PeakKept'
  BY DEF RiskInv, PeakKept
<1>10. Booking'
  <2>1. account'.funding = PaidAfter(payments', account'.base)
    BY DEF RiskInv, Booking
  <2>2. ASSUME NEW c \in Held'
        PROVE  positions'[c].funding = PaidOf(payments', positions'[c].id)
    <3>1. CASE c \in Held /\ SameRow(positions[c], positions'[c])
      BY <3>1 DEF SameRow, RiskInv, Booking
    <3>2. CASE used'.entries = used.entries + 1 /\ positions'[c].id = used'.entries
                 /\ positions'[c].funding = 0
      <4>1. {n \in payments : n.id = positions'[c].id} = {}
        BY <3>2, <1>2, <1>5
      <4>2. payments' = payments
        OBVIOUS
      <4>. QED  BY <3>2, <4>1, <4>2, NothingPaid DEF PaidOf
    <3>. QED  BY <3>1, <3>2, <1>6
  <2>. QED  BY <2>1, <2>2 DEF Booking
<1>. QED  BY <1>1, <1>8, <1>9, <1>10 DEF RiskInv

LEMMA NoPositionTyped == NoPosition \in PositionRow /\ NoPosition.id = 0 /\ NoPosition.size = 0
BY DEF NoPosition, PositionRow

LEMMA LargerInt == \A m, n \in Int : Larger(m, n) \in Int /\ m <= Larger(m, n) /\ n <= Larger(m, n)
BY DEF Larger

LEMMA DivisionInt == ASSUME NEW a \in Int, NEW t \in Nat \ {0} PROVE a \div t \in Int
OBVIOUS

LEMMA DivisionExact == ASSUME NEW b \in Int, NEW t \in Nat \ {0} PROVE (t * b) \div t = b
OBVIOUS

LEMMA SameSign ==
    ASSUME NEW m \in Int \ {0}, NEW n \in Int \ {0}, m * n >= 0
    PROVE  m + n \in Int \ {0}
<1>1. CASE m > 0 /\ n < 0
  <2>1. m * n < 0
    BY <1>1
  <2>. QED  BY <2>1
<1>2. CASE m < 0 /\ n > 0
  <2>1. m * n < 0
    BY <1>2
  <2>. QED  BY <2>1
<1>. QED  BY <1>1, <1>2

LEMMA AddedTyped ==
    ASSUME NEW p \in PositionRow, NEW lots \in Int \ {0}, NEW mark \in Int,
           used \in UsedRow, clock \in Nat, p.size * lots >= 0,
           p # NoPosition => p.size # 0
    PROVE  /\ Added(p, lots, mark) \in PositionRow /\ Added(p, lots, mark).size # 0
           /\ IF p = NoPosition
              THEN Added(p, lots, mark).id = used.entries + 1 /\ Added(p, lots, mark).funding = 0
              ELSE SameRow(p, Added(p, lots, mark))
<1>. DEFINE x == lots * mark
            y == (Larger(lots, -lots) * mark) \div EntryLeverage
            e == used.entries + 1
<1>1. x \in Int
  OBVIOUS
<1>2. y \in Int
  <2>1. Larger(lots, -lots) \in Int
    BY LargerInt
  <2>2. Larger(lots, -lots) * mark \in Int
    BY <2>1
  <2>. QED  BY <2>2, RiskAssumption, DivisionInt
<1>3. e \in Nat
  BY DEF UsedRow
<1>4. CASE p = NoPosition
  <2>1. Added(p, lots, mark) = [id |-> e, size |-> lots, cost |-> x, funding |-> 0, margin |-> y,
                                opened |-> clock]
    BY <1>4 DEF Added
  <2>. HIDE DEF x, y, e
  <2>2. Added(p, lots, mark) \in PositionRow
    BY <1>1, <1>2, <1>3, <2>1 DEF PositionRow
  <2>. QED  BY <1>4, <2>1, <2>2 DEF e
<1>5. CASE p # NoPosition
  <2>1. p.size \in Int \ {0} /\ p.cost + x \in Int /\ p.margin + y \in Int
    <3>. HIDE DEF x, y
    <3>. QED  BY <1>1, <1>2, <1>5 DEF PositionRow
  <2>2. p.size + lots \in Int \ {0}
    BY <2>1, SameSign
  <2>. DEFINE s == p.size + lots
              c == p.cost + x
              m == p.margin + y
              a == [p EXCEPT !.size = s]
              b == [a EXCEPT !.cost = c]
              d == [b EXCEPT !.margin = m]
  <2>3. Added(p, lots, mark) = [[[p EXCEPT !.size = s] EXCEPT !.cost = @ + x] EXCEPT !.margin = @ + y]
    BY <1>5 DEF Added
  <2>4. a \in PositionRow /\ a.size # 0 /\ a.cost = p.cost /\ a.margin = p.margin
          /\ a.id = p.id /\ a.funding = p.funding
    <3>. HIDE DEF s
    <3>. QED  BY <2>2 DEF PositionRow, s
  <2>5. Added(p, lots, mark) = d
    <3>. HIDE DEF x, y, s
    <3>. QED  BY <2>3, <2>4 DEF PositionRow
  <2>. HIDE DEF a, c, m
  <2>6. b \in PositionRow /\ b.size # 0 /\ b.margin = p.margin /\ b.id = p.id /\ b.funding = p.funding
    BY <2>1, <2>4 DEF PositionRow, c
  <2>. HIDE DEF b
  <2>7. d \in PositionRow /\ d.size # 0 /\ d.id = p.id /\ d.funding = p.funding
    BY <2>1, <2>6 DEF PositionRow, m
  <2>. HIDE DEF d
  <2>. QED  BY <1>5, <2>5, <2>7 DEF SameRow
<1>. QED  BY <1>4, <1>5

LEMMA PriceInt == RiskInv => \A c \in Coins : price[c] \in Int
<1>. SUFFICES ASSUME RiskInv, NEW c \in Coins PROVE price[c] \in Int
  OBVIOUS
<1>1. price[c] \in Prices
  BY DEF RiskInv, RiskTyped
<1>2. price[c] \in Nat
  BY <1>1, RiskAssumption
<1>. QED  BY <1>2

LEMMA InvEnter == \A c \in Coins : RiskInv /\ Enter(c) => RiskInv'
<1>. SUFFICES ASSUME NEW c \in Coins, RiskInv, Enter(c) PROVE RiskInv'
  OBVIOUS
<1>0. account \in AccountRow /\ used \in UsedRow /\ clock \in Nat /\ positions \in [Coins -> PositionRow]
        /\ pass \in PassRow
  BY DEF RiskInv, RiskTyped
<1>1. used' \in UsedRow /\ used'.entries = used.entries + 1
  BY <1>0 DEF Enter, UsedRow
<1>2. used.entries <= used'.entries
  BY <1>0, <1>1 DEF UsedRow
<1>3. CASE Breached
  <2>1. account' = [account EXCEPT !.exit = TRUE] /\ positions' = positions
    BY <1>3 DEF Enter, Tripped
  <2>2. account' \in AccountRow /\ account'.funding = account.funding
          /\ account'.peak = account.peak /\ account'.base = account.base
    BY <1>0, <2>1 DEF AccountRow
  <2>. QED  BY <1>0, <1>1, <1>2, <2>1, <2>2, NothingBooked DEF Enter, RiskInv, RiskTyped
<1>4. CASE ~Breached
  <2>1. PICK lots \in EntryLots :
          /\ positions[c].size * lots >= 0
          /\ positions' = [positions EXCEPT ![c] = Added(positions[c], lots, price[c])]
    BY <1>4 DEF Enter
  <2>2. account' = account
    BY <1>4 DEF Enter
  <2>3. lots \in Int \ {0} /\ price[c] \in Int
    BY RiskAssumption, PriceInt
  <2>. DEFINE p == positions[c]
              q == Added(p, lots, price[c])
  <2>4. p \in PositionRow /\ (p # NoPosition => p.size # 0)
    BY <1>0 DEF RiskInv, IdentifiersOwn, Held
  <2>5. /\ q \in PositionRow /\ q.size # 0
        /\ IF p = NoPosition THEN q.id = used.entries + 1 /\ q.funding = 0 ELSE SameRow(p, q)
    <3>. HIDE DEF p
    <3>. QED  BY <1>0, <2>1, <2>3, <2>4, AddedTyped DEF p
  <2>. HIDE DEF q
  <2>6. positions' \in [Coins -> PositionRow] /\ positions'[c] = q
    BY <1>0, <2>1, <2>5 DEF q
  <2>7. ASSUME NEW d \in Coins
        PROVE  \/ positions'[d] = NoPosition
               \/ d \in Held /\ SameRow(positions[d], positions'[d])
               \/ /\ d = c /\ used'.entries = used.entries + 1
                  /\ positions'[d].id = used'.entries /\ positions'[d].funding = 0
                  /\ positions'[d].size # 0
    <3>1. CASE d = c
      <4>1. CASE p = NoPosition
        BY <3>1, <4>1, <1>1, <2>5, <2>6
      <4>2. CASE p # NoPosition
        BY <3>1, <4>2, <2>5, <2>6 DEF Held
      <4>. QED  BY <4>1, <4>2
    <3>2. CASE d # c
      <4>1. positions'[d] = positions[d] /\ positions[d] \in PositionRow
        BY <1>0, <2>1, <3>2
      <4>. QED  BY <4>1 DEF Held, SameRow, RiskInv, IdentifiersOwn
    <3>. QED  BY <3>1, <3>2
  <2>. HIDE DEF p
  <2>. QED  BY <1>0, <1>1, <1>2, <2>2, <2>6, <2>7, PositionsMove DEF Enter
<1>. QED  BY <1>3, <1>4

LEMMA ReducedTyped ==
    ASSUME NEW p \in PositionRow, p.size # 0, NEW units \in 1 .. Units(p)
    PROVE  /\ Reduced(p, units) = NoPosition \/ SameRow(p, Reduced(p, units))
           /\ Units(Reduced(p, units)) <= Units(p)
<1>. DEFINE u == Units(p)
            left == u - units
<1>1. u \in Nat \ {0} /\ (p.size = u \/ p.size = -u)
  BY DEF Units, Larger, PositionRow
<1>2. left \in Nat /\ left <= u
  BY <1>1
<1>3. CASE left = 0
  <2>1. Reduced(p, units) = NoPosition
    BY <1>3 DEF Reduced
  <2>2. Units(NoPosition) = 0
    <3>. DEFINE z == NoPosition.size
    <3>1. z \in Int /\ z >= 0 /\ z <= 0
      BY NoPositionTyped
    <3>. HIDE DEF z
    <3>2. Larger(z, -z) = z
      BY <3>1 DEF Larger
    <3>. QED  BY <3>2, NoPositionTyped DEF Units, z
  <2>. QED  BY <1>1, <2>1, <2>2
<1>4. CASE left # 0
  <2>. DEFINE s == (p.size * left) \div u
              c == (p.cost * left) \div u
              m == (p.margin * left) \div u
              a == [p EXCEPT !.size = s]
              b == [a EXCEPT !.cost = c]
              d == [b EXCEPT !.margin = m]
  <2>1. Reduced(p, units) = [[[p EXCEPT !.size = s] EXCEPT !.cost = (@ * left) \div u]
                                EXCEPT !.margin = (@ * left) \div u]
    BY <1>4 DEF Reduced
  <2>. HIDE DEF u, left
  <2>2. s \in Int /\ (s = left \/ s = -left)
    <3>1. CASE p.size = u
      <4>1. p.size * left = u * left
        BY <3>1
      <4>. QED  BY <4>1, <1>1, <1>2, DivisionExact
    <3>2. CASE p.size = -u
      <4>1. p.size * left = u * (-left) /\ -left \in Int
        BY <3>2, <1>1, <1>2
      <4>. QED  BY <4>1, <1>1, <1>2, DivisionExact
    <3>. QED  BY <1>1, <3>1, <3>2
  <2>3. c \in Int /\ m \in Int
    <3>1. p.cost * left \in Int /\ p.margin * left \in Int
      BY <1>2 DEF PositionRow
    <3>. QED  BY <3>1, <1>1, DivisionInt
  <2>. HIDE DEF s
  <2>4. a \in PositionRow /\ a.size = s /\ a.cost = p.cost /\ a.margin = p.margin
          /\ a.id = p.id /\ a.funding = p.funding
    BY <2>2 DEF PositionRow
  <2>5. Reduced(p, units) = d
    BY <2>1, <2>4 DEF PositionRow, s
  <2>. HIDE DEF a, c, m
  <2>6. b \in PositionRow /\ b.size = s /\ b.margin = p.margin /\ b.id = p.id /\ b.funding = p.funding
    BY <2>3, <2>4 DEF PositionRow
  <2>. HIDE DEF b
  <2>7. d \in PositionRow /\ d.size = s /\ d.id = p.id /\ d.funding = p.funding
    BY <2>3, <2>6 DEF PositionRow
  <2>. HIDE DEF d
  <2>8. SameRow(p, Reduced(p, units))
    BY <1>2, <1>4, <2>2, <2>5, <2>7 DEF SameRow, left
  <2>9. Units(d) = left
    BY <1>2, <2>2, <2>7 DEF Units, Larger
  <2>. QED  BY <1>1, <1>2, <2>5, <2>8, <2>9 DEF u
<1>. QED  BY <1>3, <1>4

LEMMA PnlInt == ASSUME NEW p \in PositionRow, NEW mark \in Int PROVE Pnl(p, mark) \in Int
<1>1. p.size \in Int /\ p.cost \in Int
  BY DEF PositionRow
<1>2. p.size * mark \in Int
  BY <1>1
<1>. QED  BY <1>1, <1>2 DEF Pnl

LEMMA BookedTyped ==
    ASSUME account \in AccountRow, NEW D, IsFiniteSet(D), NEW results \in [D -> Int], Booked(results)
    PROVE  /\ account' \in AccountRow /\ account'.funding = account.funding
           /\ account'.peak = account.peak /\ account'.base = account.base
<1>1. Sum(results) \in Int
  BY SumInt
<1>. QED  BY <1>1 DEF Booked, AccountRow

LEMMA InvExit == \A c \in Coins : RiskInv /\ Exit(c) => RiskInv'
<1>. SUFFICES ASSUME NEW c \in Coins, RiskInv, Exit(c) PROVE RiskInv'
  OBVIOUS
<1>0. account \in AccountRow /\ used \in UsedRow /\ positions \in [Coins -> PositionRow]
        /\ pass \in PassRow
  BY DEF RiskInv, RiskTyped
<1>. DEFINE p == positions[c]
<1>1. p \in PositionRow /\ c \in Held /\ p.size # 0
  BY <1>0 DEF Exit, Held, RiskInv, IdentifiersOwn
<1>2. PICK units \in 1 .. Units(p) :
        /\ positions' = [positions EXCEPT ![c] = Reduced(p, units)]
        /\ Booked([x \in {c} |-> (Pnl(p, price[c]) * units) \div Units(p)])
  BY DEF Exit
<1>3. Units(p) \in Nat \ {0}
  BY <1>1 DEF Units, Larger, PositionRow
<1>4. /\ account' \in AccountRow /\ account'.funding = account.funding
      /\ account'.peak = account.peak /\ account'.base = account.base
  <2>. DEFINE v == (Pnl(p, price[c]) * units) \div Units(p)
              results == [x \in {c} |-> v]
  <2>1. v \in Int
    <3>1. price[c] \in Int
      BY PriceInt
    <3>2. Pnl(p, price[c]) \in Int
      BY <1>1, <3>1, PnlInt
    <3>3. Pnl(p, price[c]) * units \in Int
      <4>. DEFINE w == Pnl(p, price[c])
      <4>. HIDE DEF w
      <4>1. w \in Int => w * units \in Int
        BY <1>3
      <4>. QED  BY <3>2, <4>1 DEF w
    <3>. QED  BY <1>3, <3>3, DivisionInt
  <2>. HIDE DEF v
  <2>2. results \in [{c} -> Int] /\ IsFiniteSet({c}) /\ Booked(results)
    BY <1>2, <2>1, FS_Singleton DEF v
  <2>. HIDE DEF results
  <2>. QED  BY <1>0, <2>2, BookedTyped
<1>5. Reduced(p, units) = NoPosition \/ SameRow(p, Reduced(p, units))
  <2>. HIDE DEF p
  <2>. QED  BY <1>1, ReducedTyped
<1>6. positions' \in [Coins -> PositionRow]
  BY <1>0, <1>2, <1>5, NoPositionTyped DEF SameRow
<1>7. ASSUME NEW d \in Coins
      PROVE  positions'[d] = NoPosition \/ (d \in Held /\ SameRow(positions[d], positions'[d]))
  <2>1. CASE d = c
    BY <2>1, <1>0, <1>1, <1>2, <1>5
  <2>2. CASE d # c
    BY <2>2, <1>0, <1>2 DEF Held, SameRow, RiskInv, IdentifiersOwn
  <2>. QED  BY <2>1, <2>2
<1>8. used' = used /\ used.entries <= used'.entries
  BY <1>0 DEF Exit, UsedRow
<1>. QED  BY <1>0, <1>4, <1>6, <1>7, <1>8, PositionsMove DEF Exit

LEMMA MarkInt == \A m \in Marks : DOMAIN m \subseteq Coins /\ \A c \in DOMAIN m : m[c] \in Int
BY DEF Marks

LEMMA HeldFinite == IsFiniteSet(Held)
<1>1. Held \subseteq Coins /\ IsFiniteSet(Coins)
  BY RiskAssumption DEF Held
<1>. QED  BY <1>1, FS_Subset

LEMMA ResultInt ==
    ASSUME RiskInv, NEW c \in Held, c \in DOMAIN pass.marks
    PROVE  LiquidationResult(c) \in Int
<1>1. positions[c] \in PositionRow
  BY DEF RiskInv, RiskTyped, Held
<1>2. pass.marks[c] \in Int
  BY MarkInt DEF RiskInv, RiskTyped, PassRow
<1>3. Pnl(positions[c], pass.marks[c]) \in Int
  BY <1>1, <1>2, PnlInt
<1>4. -(positions[c].margin + positions[c].funding) \in Int
  BY <1>1 DEF PositionRow
<1>. QED  BY <1>3, <1>4, LargerInt DEF LiquidationResult

LEMMA LiquidateMoves ==
    ASSUME Liquidate, pass.coins # {}
    PROVE  \E gone \in SUBSET (Held \cap DOMAIN pass.marks) :
               /\ Booked([c \in gone |-> LiquidationResult(c)])
               /\ positions' = [c \in Coins |-> IF c \in gone THEN NoPosition ELSE positions[c]]
<1>. DEFINE isolated == {c \in Held \cap Isolated : Known(pass.marks, c) /\ IsolatedDue(c)}
            left == Held \ isolated
            cash == account.cash + Sum([c \in isolated |-> LiquidationResult(c)])
            cross == left \ Isolated
            gone == IF cross # {} /\ cross \subseteq DOMAIN pass.marks /\ CrossDue(cash, left)
                    THEN isolated \cup cross ELSE isolated
<1>1. /\ Booked([c \in gone |-> LiquidationResult(c)])
      /\ positions' = [c \in Coins |-> IF c \in gone THEN NoPosition ELSE positions[c]]
  BY DEF Liquidate
<1>2. isolated \subseteq Held \cap DOMAIN pass.marks /\ left \subseteq Held
  BY DEF Known
<1>3. gone \in SUBSET (Held \cap DOMAIN pass.marks)
  <2>. HIDE DEF isolated, cash
  <2>. QED  BY <1>2
<1>. HIDE DEF gone
<1>. QED  BY <1>1, <1>3

LEMMA InvLiquidate == RiskInv /\ Liquidate => RiskInv'
<1>. SUFFICES ASSUME RiskInv, Liquidate PROVE RiskInv'
  OBVIOUS
<1>0. account \in AccountRow /\ used \in UsedRow /\ positions \in [Coins -> PositionRow]
        /\ pass \in PassRow /\ clock \in 0 .. MaxTime /\ price \in [Coins -> Prices]
  BY DEF RiskInv, RiskTyped
<1>1. pass' \in PassRow
  BY <1>0 DEF Liquidate, PassRow
<1>2. used' = used /\ used.entries <= used'.entries
  BY <1>0 DEF Liquidate, UsedRow, world
<1>3. CASE pass.coins = {}
  BY <1>0, <1>1, <1>2, <1>3, NothingBooked DEF Liquidate, world
<1>4. CASE pass.coins # {}
  <2>1. PICK gone \in SUBSET (Held \cap DOMAIN pass.marks) :
          /\ Booked([c \in gone |-> LiquidationResult(c)])
          /\ positions' = [c \in Coins |-> IF c \in gone THEN NoPosition ELSE positions[c]]
    BY <1>4, LiquidateMoves
  <2>2. /\ account' \in AccountRow /\ account'.funding = account.funding
        /\ account'.peak = account.peak /\ account'.base = account.base
    <3>. DEFINE results == [c \in gone |-> LiquidationResult(c)]
    <3>1. results \in [gone -> Int] /\ IsFiniteSet(gone)
      BY ResultInt, HeldFinite, FS_Subset
    <3>2. Booked(results)
      BY <2>1
    <3>. HIDE DEF results
    <3>. QED  BY <1>0, <3>1, <3>2, BookedTyped
  <2>3. positions' \in [Coins -> PositionRow]
    BY <1>0, <2>1, NoPositionTyped
  <2>4. ASSUME NEW c \in Coins
        PROVE  positions'[c] = NoPosition \/ (c \in Held /\ SameRow(positions[c], positions'[c]))
    BY <1>0, <2>1 DEF Held, SameRow, RiskInv, IdentifiersOwn
  <2>. QED  BY <1>0, <1>1, <1>2, <2>2, <2>3, <2>4, PositionsMove DEF Liquidate, world
<1>. QED  BY <1>3, <1>4

(* Funding: the rows are new, one for a position and an hour.              *)
LEMMA Charged ==
    ASSUME RiskInv, NEW hours, \A c \in Held : IsFiniteSet(hours[c]) /\ hours[c] \subseteq Int,
           Charge(hours)
    PROVE  \E due \in [Held \cap DOMAIN pass.marks -> SUBSET Int] :
             LET E == Held \cap DOMAIN pass.marks
                 ids == [c \in E |-> positions[c].id]
                 amount == [c \in E |-> Payment(c)]
                 sum == Sum([c \in E |-> amount[c] * Cardinality(due[c])])
             IN /\ \A c \in E : IsFiniteSet(due[c])
                /\ \A c \in E : \A h \in due[c] : ~\E n \in payments : n.id = positions[c].id /\ n.hour = h
                /\ positions' = [c \in Coins |-> IF c \in E
                      THEN [positions[c] EXCEPT !.funding = @ + amount[c] * Cardinality(due[c])]
                      ELSE positions[c]]
                /\ account' = [account EXCEPT !.cash = @ + sum, !.funding = @ + sum]
                /\ payments' = payments \cup PaidForAll(ids, amount, due, E)
<1>. DEFINE E == Held \cap DOMAIN pass.marks
            start == Larger(Min({positions[c].opened : c \in Held}), pass.now - Lookback)
            due == [c \in E |-> Unpaid(c, {h \in hours[c] : h >= start})]
            ids == [c \in E |-> positions[c].id]
            amount == [c \in E |-> Payment(c)]
            sum == Sum([c \in E |-> amount[c] * Cardinality(due[c])])
<1>1. ASSUME NEW c \in E
      PROVE  due[c] \in SUBSET Int /\ IsFiniteSet(due[c])
               /\ \A h \in due[c] : ~\E n \in payments : n.id = positions[c].id /\ n.hour = h
  <2>1. due[c] = Unpaid(c, {h \in hours[c] : h >= start})
    OBVIOUS
  <2>. HIDE DEF start, due
  <2>2. due[c] \subseteq hours[c]
    BY <2>1 DEF Unpaid, HoursHeld
  <2>3. \A h \in due[c] : ~\E n \in payments : n.id = positions[c].id /\ n.hour = h
    BY <2>1 DEF Unpaid
  <2>. QED  BY <2>2, <2>3, FS_Subset
<1>2. due \in [E -> SUBSET Int]
  BY <1>1
<1>3. positions' = [c \in Coins |-> IF c \in E
        THEN [positions[c] EXCEPT !.funding = @ + Payment(c) * Cardinality(due[c])]
        ELSE positions[c]]
  BY DEF Charge
<1>4. account' = [account EXCEPT !.cash = @ + Sum([c \in E |-> Payment(c) * Cardinality(due[c])]),
                                 !.funding = @ + Sum([c \in E |-> Payment(c) * Cardinality(due[c])])]
  BY DEF Charge
<1>5. payments' = payments \cup UNION {{[id |-> positions[c].id, hour |-> h, amount |-> Payment(c)]
                                            : h \in due[c]} : c \in E}
  BY DEF Charge
<1>6. PaidForAll(ids, amount, due, E)
        = UNION {{[id |-> positions[c].id, hour |-> h, amount |-> Payment(c)] : h \in due[c]} : c \in E}
  <2>. DEFINE written(c) == {[id |-> positions[c].id, hour |-> h, amount |-> Payment(c)] : h \in due[c]}
  <2>1. ASSUME NEW c \in E PROVE PaidFor(ids, amount, due, c) = written(c)
    <3>1. ids[c] = positions[c].id /\ amount[c] = Payment(c)
      OBVIOUS
    <3>. HIDE DEF ids, amount, due
    <3>. QED  BY <3>1 DEF PaidFor
  <2>. HIDE DEF written, ids, amount, due, E
  <2>2. {PaidFor(ids, amount, due, c) : c \in E} = {written(c) : c \in E}
    BY <2>1
  <2>3. UNION {PaidFor(ids, amount, due, c) : c \in E} = UNION {written(c) : c \in E}
    BY <2>2, Zenon
  <2>. QED  BY <2>3 DEF PaidForAll, written
<1>7. [c \in E |-> amount[c] * Cardinality(due[c])] = [c \in E |-> Payment(c) * Cardinality(due[c])]
  BY DEF Payment
<1>8. positions' = [c \in Coins |-> IF c \in E
        THEN [positions[c] EXCEPT !.funding = @ + amount[c] * Cardinality(due[c])]
        ELSE positions[c]]
  BY <1>3
<1>9. account' = [account EXCEPT !.cash = @ + sum, !.funding = @ + sum]
  BY <1>4, <1>7
<1>10. payments' = payments \cup PaidForAll(ids, amount, due, E)
  BY <1>5, <1>6
<1>. HIDE DEF due
<1>. QED  BY <1>1, <1>2, <1>8, <1>9, <1>10

LEMMA ChargeKeeps ==
    ASSUME RiskInv, NEW hours, \A c \in Held : IsFiniteSet(hours[c]) /\ hours[c] \subseteq Int,
           Charge(hours), pass' \in PassRow, used' \in UsedRow, used'.entries = used.entries,
           UNCHANGED <<clock, price, snapshots, highest>>
    PROVE  RiskInv'
<1>. DEFINE E == Held \cap DOMAIN pass.marks
            ids == [c \in E |-> positions[c].id]
            amount == [c \in E |-> Payment(c)]
<1>0. account \in AccountRow /\ used \in UsedRow /\ positions \in [Coins -> PositionRow]
        /\ pass \in PassRow /\ IsFiniteSet(payments) /\ payments \subseteq PaymentRow
  BY DEF RiskInv, RiskTyped
<1>1. PICK due \in [E -> SUBSET Int] :
        /\ \A c \in E : IsFiniteSet(due[c])
        /\ \A c \in E : \A h \in due[c] : ~\E n \in payments : n.id = positions[c].id /\ n.hour = h
        /\ positions' = [c \in Coins |-> IF c \in E
              THEN [positions[c] EXCEPT !.funding = @ + amount[c] * Cardinality(due[c])]
              ELSE positions[c]]
        /\ account' = [account EXCEPT
              !.cash = @ + Sum([c \in E |-> amount[c] * Cardinality(due[c])]),
              !.funding = @ + Sum([c \in E |-> amount[c] * Cardinality(due[c])])]
        /\ payments' = payments \cup PaidForAll(ids, amount, due, E)
  BY Charged
<1>2. ASSUME NEW c \in E
      PROVE  /\ c \in Held /\ c \in Coins /\ ids[c] = positions[c].id /\ ids[c] \in Nat
             /\ account.base < ids[c] /\ ids[c] <= used.entries
             /\ amount[c] \in Int
  <2>1. positions[c] \in PositionRow /\ c \in Held
    BY <1>0 DEF Held
  <2>2. pass.marks[c] \in Int
    BY <1>0, MarkInt DEF PassRow
  <2>3. Payment(c) \in Int
    <3>. DEFINE x == positions[c].size
                y == pass.marks[c]
    <3>1. x \in Int /\ y \in Int /\ Rate \in Int
      BY <2>1, <2>2, RiskAssumption DEF PositionRow
    <3>. HIDE DEF x, y
    <3>2. x * y \in Int
      BY <3>1
    <3>3. (x * y) * Rate \in Int
      BY <3>1, <3>2
    <3>4. -(x * y * Rate) \in Int
      BY <3>3
    <3>. QED  BY <3>4 DEF Payment, x, y
  <2>. QED  BY <2>1, <2>3 DEF PositionRow, RiskInv, IdentifiersOwn, Held
<1>3. IsFiniteSet(E) /\ ids \in [E -> Nat] /\ amount \in [E -> Int]
  BY <1>2, HeldFinite, FS_Subset
<1>4. \A c, d \in E : ids[c] = ids[d] => c = d
  BY <1>2 DEF RiskInv, IdentifiersOwn
<1>. DEFINE new == PaidForAll(ids, amount, due, E)
            f == [c \in E |-> amount[c] * Cardinality(due[c])]
            sum == Sum(f)
<1>5. IsFiniteSet(new) /\ new \subseteq PaymentRow /\ Paid(new) = sum
  <2>. HIDE DEF ids, amount, E
  <2>. QED  BY <1>1, <1>3, <1>4, PaidForAllIs
<1>6. f \in [E -> Int] /\ sum \in Int
  <2>1. f \in [E -> Int]
    <3>. HIDE DEF amount, E
    <3>. QED  BY <1>1, <1>3, FS_CardinalityType
  <2>. HIDE DEF f
  <2>. QED  BY <2>1, <1>3, SumInt
<1>7. ASSUME NEW c \in E
      PROVE  /\ PaidFor(ids, amount, due, c) \subseteq PaymentRow
             /\ IsFiniteSet(PaidFor(ids, amount, due, c))
             /\ Paid(PaidFor(ids, amount, due, c)) = f[c]
  <2>. HIDE DEF ids, amount, E
  <2>1. ids[c] \in Nat /\ amount[c] \in Int /\ due[c] \subseteq Int /\ IsFiniteSet(due[c])
    BY <1>1, <1>3
  <2>. QED  BY <2>1, PaidForIs
<1>8. ASSUME NEW n \in new
      PROVE  \E c \in E : n \in PaidFor(ids, amount, due, c) /\ n.id = ids[c] /\ n.hour \in due[c]
                           /\ n.amount = amount[c]
  <2>1. PICK c \in E : n \in PaidFor(ids, amount, due, c)
    BY DEF PaidForAll
  <2>2. PICK h \in due[c] : n = [id |-> ids[c], hour |-> h, amount |-> amount[c]]
    BY <2>1 DEF PaidFor
  <2>. HIDE DEF ids, amount
  <2>3. n.id = ids[c] /\ n.hour = h /\ n.amount = amount[c]
    BY <2>2
  <2>. QED  BY <2>1, <2>2, <2>3
<1>9. ASSUME NEW c \in E, NEW n \in PaidFor(ids, amount, due, c)
      PROVE  n \in new /\ n.id = ids[c]
  <2>. HIDE DEF ids, amount, E
  <2>. QED  BY DEF PaidForAll, PaidFor
<1>. HIDE DEF new, f, sum, E, ids, amount
<1>10. ASSUME NEW n \in new, NEW k \in payments
       PROVE  ~(n.id = k.id /\ n.hour = k.hour)
  BY <1>1, <1>2, <1>8
<1>11. payments' = payments \cup new
  BY <1>1 DEF new
<1>12. /\ account' \in AccountRow /\ account'.funding = account.funding + sum
       /\ account'.peak = account.peak /\ account'.base = account.base
  <2>. DEFINE m == account.cash + sum
              o == account.funding + sum
              a == [account EXCEPT !.cash = m]
              b == [a EXCEPT !.funding = o]
  <2>1. m \in Int /\ o \in Int
    BY <1>0, <1>6 DEF AccountRow
  <2>2. account' = [account EXCEPT !.cash = @ + sum, !.funding = @ + sum]
    BY <1>1 DEF sum, f
  <2>. HIDE DEF m, o
  <2>3. a \in AccountRow /\ a.funding = account.funding /\ a.peak = account.peak /\ a.base = account.base
    BY <1>0, <2>1 DEF AccountRow
  <2>4. account' = b
    BY <2>2, <2>3 DEF m, o
  <2>. HIDE DEF a
  <2>5. b \in AccountRow /\ b.funding = o /\ b.peak = account.peak /\ b.base = account.base
    BY <2>1, <2>3 DEF AccountRow
  <2>. QED  BY <2>4, <2>5 DEF o
<1>13. ASSUME NEW c \in Coins
       PROVE  /\ positions'[c] \in PositionRow /\ positions'[c].id = positions[c].id
              /\ positions'[c].size = positions[c].size
              /\ positions'[c].funding = IF c \in E THEN positions[c].funding + f[c]
                                         ELSE positions[c].funding
              /\ (positions'[c] # NoPosition <=> positions[c] # NoPosition)
  <2>1. positions[c] \in PositionRow
    BY <1>0
  <2>2. CASE c \notin E
    BY <1>1, <2>1, <2>2
  <2>3. CASE c \in E
    <3>. DEFINE v == positions[c].funding + f[c]
    <3>1. positions'[c] = [positions[c] EXCEPT !.funding = v]
      BY <1>1, <2>3 DEF f
    <3>2. v \in Int
      BY <1>6, <2>1, <2>3 DEF PositionRow
    <3>3. positions[c].id > 0
      BY <1>0, <1>2, <2>3 DEF AccountRow
    <3>. HIDE DEF v
    <3>4. positions'[c] \in PositionRow /\ positions'[c].id = positions[c].id
            /\ positions'[c].size = positions[c].size /\ positions'[c].funding = v
      BY <2>1, <3>1, <3>2 DEF PositionRow
    <3>5. positions'[c] # NoPosition /\ positions[c] # NoPosition
      BY <3>3, <3>4, NoPositionTyped
    <3>. QED  BY <2>3, <3>4, <3>5 DEF v
  <2>. QED  BY <2>2, <2>3
<1>14. Held' = Held
  BY <1>13 DEF Held
<1>15. RiskTyped'
  <2>1. IsFiniteSet(payments') /\ payments' \subseteq PaymentRow
    BY <1>0, <1>5, <1>11, FS_Union
  <2>2. positions' \in [Coins -> PositionRow]
    BY <1>1, <1>13
  <2>. QED  BY <1>12, <2>1, <2>2 DEF RiskInv, RiskTyped
<1>16. IdentifiersOwn'
  <2>1. \A c \in Held' : account'.base < positions'[c].id /\ positions'[c].id <= used'.entries
                           /\ positions'[c].size # 0
    BY <1>12, <1>13, <1>14 DEF RiskInv, IdentifiersOwn, Held
  <2>2. \A c, d \in Held' : positions'[c].id = positions'[d].id => c = d
    BY <1>13, <1>14 DEF RiskInv, IdentifiersOwn, Held
  <2>3. \A n \in payments' : n.id <= used'.entries
    BY <1>2, <1>8, <1>11 DEF RiskInv, IdentifiersOwn
  <2>4. ASSUME NEW n \in payments', NEW k \in payments', n.id = k.id, n.hour = k.hour
        PROVE  n = k
    <3>1. CASE n \in new /\ k \in new
      <4>1. PICK c \in E : n \in PaidFor(ids, amount, due, c) /\ n.id = ids[c] /\ n.amount = amount[c]
        BY <3>1, <1>8
      <4>2. PICK d \in E : k \in PaidFor(ids, amount, due, d) /\ k.id = ids[d] /\ k.amount = amount[d]
        BY <3>1, <1>8
      <4>3. c = d
        BY <1>4, <2>4, <4>1, <4>2
      <4>4. n \in PaymentRow /\ k \in PaymentRow
        BY <3>1, <1>5
      <4>. QED  BY <2>4, <4>1, <4>2, <4>3, <4>4 DEF PaymentRow
    <3>2. CASE n \in payments /\ k \in payments
      BY <2>4, <3>2 DEF RiskInv, IdentifiersOwn
    <3>. QED  BY <2>4, <3>1, <3>2, <1>10, <1>11
  <2>5. account'.base <= used'.entries
    BY <1>12 DEF RiskInv, IdentifiersOwn
  <2>. QED  BY <2>1, <2>2, <2>3, <2>4, <2>5 DEF IdentifiersOwn
<1>17. PeakKept'
  BY <1>12 DEF RiskInv, PeakKept
<1>18. Booking'
  <2>1. account'.funding = PaidAfter(payments', account'.base)
    <3>. DEFINE S == {n \in payments : n.id > account.base}
    <3>1. S \subseteq payments
      OBVIOUS
    <3>2. IsFiniteSet(S) /\ S \subseteq PaymentRow
      BY <1>0, <3>1, FS_Subset
    <3>3. S \cap new = {}
      BY <1>10
    <3>4. {n \in payments' : n.id > account'.base} = S \cup new
      <4>1. \A n \in new : n.id > account.base
        BY <1>0, <1>2, <1>8 DEF AccountRow
      <4>. QED  BY <4>1, <1>11, <1>12
    <3>5. account.funding = Paid(S)
      BY DEF RiskInv, Booking, PaidAfter
    <3>. HIDE DEF S
    <3>6. Paid(S \cup new) = Paid(S) + Paid(new)
      BY <1>5, <3>2, <3>3, PaidDisjoint
    <3>. QED  BY <1>5, <1>12, <3>4, <3>5, <3>6 DEF PaidAfter
  <2>2. ASSUME NEW c \in Held'
        PROVE  positions'[c].funding = PaidOf(payments', positions'[c].id)
    <3>. DEFINE id == positions[c].id
                S == {n \in payments : n.id = id}
                one == PaidFor(ids, amount, due, c)
    <3>0. c \in Held /\ c \in Coins
      BY <1>14 DEF Held
    <3>1. S \subseteq payments
      OBVIOUS
    <3>2. IsFiniteSet(S) /\ S \subseteq PaymentRow
      BY <1>0, <3>1, FS_Subset
    <3>3. positions[c].funding = Paid(S) /\ positions'[c].id = id
      BY <1>13, <3>0 DEF RiskInv, Booking, PaidOf
    <3>4. \A d \in E : ids[d] = id => d = c
      BY <1>2, <3>0 DEF RiskInv, IdentifiersOwn
    <3>5. CASE c \notin E
      <4>1. {n \in payments' : n.id = id} = S
        BY <1>8, <1>11, <3>4, <3>5
      <4>. QED  BY <1>13, <3>0, <3>3, <3>5, <4>1 DEF PaidOf
    <3>6. CASE c \in E
      <4>1. \A n \in new : n.id = id => n \in one
        BY <1>8, <3>4
      <4>2. \A n \in one : n \in new /\ n.id = id
        BY <1>2, <1>9, <3>6
      <4>3. {n \in payments' : n.id = id} = S \cup one
        <5>. HIDE DEF one
        <5>. QED  BY <1>11, <4>1, <4>2
      <4>4. S \cap one = {}
        <5>. HIDE DEF one
        <5>. QED  BY <1>10, <4>2
      <4>5. IsFiniteSet(one) /\ one \subseteq PaymentRow /\ Paid(one) = f[c]
        BY <1>7, <3>6
      <4>. HIDE DEF S, one, id
      <4>6. Paid(S \cup one) = Paid(S) + Paid(one)
        BY <3>2, <4>4, <4>5, PaidDisjoint
      <4>. QED  BY <1>13, <3>0, <3>3, <3>6, <4>3, <4>5, <4>6 DEF PaidOf
    <3>. QED  BY <3>5, <3>6
  <2>. QED  BY <2>1, <2>2 DEF Booking
<1>. QED  BY <1>15, <1>16, <1>17, <1>18 DEF RiskInv

LEMMA InvFund == RiskInv /\ Fund => RiskInv'
<1>. SUFFICES ASSUME RiskInv, Fund PROVE RiskInv'
  OBVIOUS
<1>0. account \in AccountRow /\ used \in UsedRow /\ positions \in [Coins -> PositionRow]
        /\ pass \in PassRow /\ clock \in 0 .. MaxTime /\ price \in [Coins -> Prices]
  BY DEF RiskInv, RiskTyped
<1>1. pass' \in PassRow /\ UNCHANGED <<clock, price, snapshots, highest>>
  BY <1>0 DEF Fund, PassRow
<1>2. used' = used \/ Trouble
  BY DEF Fund, ReadFunding
<1>3. used' \in UsedRow /\ used'.entries = used.entries /\ used.entries <= used'.entries
  BY <1>0, <1>2, TroubleTyped DEF UsedRow
<1>4. CASE UNCHANGED <<account, positions, payments>>
  BY <1>0, <1>1, <1>3, <1>4, NothingBooked
<1>5. CASE ~UNCHANGED <<account, positions, payments>>
  <2>1. PICK upto \in [Held -> {Never, pass.now - 1, pass.now}] : Charge([c \in Held |-> 1 .. upto[c]])
    BY <1>5 DEF Fund, ReadFunding
  <2>. DEFINE hours == [c \in Held |-> 1 .. upto[c]]
  <2>2. ASSUME NEW c \in Held PROVE IsFiniteSet(hours[c]) /\ hours[c] \subseteq Int
    <3>1. upto[c] \in Int
      BY <1>0 DEF PassRow, Never
    <3>2. hours[c] = 1 .. upto[c]
      OBVIOUS
    <3>. HIDE DEF hours
    <3>. QED  BY <3>1, <3>2, FS_Interval
  <2>3. Charge(hours)
    BY <2>1
  <2>. HIDE DEF hours
  <2>. QED  BY <1>1, <1>3, <2>2, <2>3, ChargeKeeps
<1>. QED  BY <1>4, <1>5

LEMMA RetainedRows ==
    ASSUME NEW all \in Seq(SnapshotRow), NEW time
    PROVE  /\ Retained(all, time) \in Seq(SnapshotRow)
           /\ \A i \in 1 .. Len(Retained(all, time)) : \E j \in 1 .. Len(all) : Retained(all, time)[i] = all[j]
<1>. DEFINE old == {n \in DOMAIN all : all[n].at < time}
            k == Cardinality(old)
            m == k + 1
            n == Len(all)
<1>1. n \in Nat /\ DOMAIN all = 1 .. n
  OBVIOUS
<1>2. k \in Nat
  <2>1. old \subseteq 1 .. n
    BY <1>1
  <2>2. IsFiniteSet(1 .. n)
    BY <1>1, FS_Interval
  <2>. HIDE DEF old, n
  <2>. QED  BY <2>1, <2>2, FS_Subset, FS_CardinalityType
<1>3. Retained(all, time) = SubSeq(all, m, n)
  BY DEF Retained
<1>4. \A i \in m .. n : all[i] \in SnapshotRow
  <2>. HIDE DEF k
  <2>. QED  BY <1>1, <1>2
<1>5. m \in Int /\ n \in Int /\ m >= 1
  <2>. HIDE DEF k
  <2>. QED  BY <1>1, <1>2
<1>. HIDE DEF m, n
<1>6. /\ SubSeq(all, m, n) \in Seq(SnapshotRow)
      /\ Len(SubSeq(all, m, n)) = IF m <= n THEN n - m + 1 ELSE 0
      /\ \A i \in 1 .. n - m + 1 : SubSeq(all, m, n)[i] = all[m + i - 1]
  BY <1>4, <1>5, SubSeqProperties
<1>7. ASSUME NEW i \in 1 .. Len(SubSeq(all, m, n))
      PROVE  \E j \in 1 .. n : SubSeq(all, m, n)[i] = all[j]
  <2>1. i \in 1 .. n - m + 1 /\ m + i - 1 \in 1 .. n
    BY <1>5, <1>6
  <2>. QED  BY <1>6, <2>1
<1>. QED  BY <1>3, <1>6, <1>7 DEF n

LEMMA MarkedInt ==
    ASSUME RiskInv, Held \subseteq DOMAIN pass.marks
    PROVE  TotalPnl(positions, Held, pass.marks) \in Int
<1>. DEFINE f == [c \in Held |-> Pnl(positions[c], pass.marks[c])]
<1>1. ASSUME NEW c \in Held PROVE Pnl(positions[c], pass.marks[c]) \in Int
  <2>1. positions[c] \in PositionRow
    BY DEF RiskInv, RiskTyped, Held
  <2>2. pass.marks[c] \in Int
    BY MarkInt DEF RiskInv, RiskTyped, PassRow
  <2>. QED  BY <2>1, <2>2, PnlInt
<1>2. f \in [Held -> Int]
  BY <1>1
<1>. HIDE DEF f
<1>3. Sum(f) \in Int
  BY <1>2, HeldFinite, SumInt
<1>. QED  BY <1>3 DEF TotalPnl, f

LEMMA InvRecord == RiskInv /\ Record => RiskInv'
<1>. SUFFICES ASSUME RiskInv, Record PROVE RiskInv'
  OBVIOUS
<1>0. account \in AccountRow /\ used \in UsedRow /\ snapshots \in Seq(SnapshotRow) /\ highest \in Int
        /\ pass \in PassRow /\ clock \in 0 .. MaxTime /\ price \in [Coins -> Prices]
  BY DEF RiskInv, RiskTyped
<1>1. pass' \in PassRow /\ UNCHANGED <<clock, price, used, positions, payments>>
        /\ used.entries <= used'.entries
  BY <1>0, NoMarks DEF Record, world, UsedRow
<1>2. CASE loop.snapshot # Never /\ pass.now - loop.snapshot < SnapshotEvery
  BY <1>0, <1>1, <1>2, NothingBooked DEF Record
<1>3. CASE ~(loop.snapshot # Never /\ pass.now - loop.snapshot < SnapshotEvery)
  <2>. DEFINE equity == Larger(account.cash + TotalPnl(positions, Held, pass.marks), 0)
              entry == [at |-> pass.now, equity |-> equity]
              marked == Held \subseteq DOMAIN pass.marks
              all == IF marked THEN Append(snapshots, entry) ELSE snapshots
  <2>1. /\ snapshots' = Retained(all, pass.now - Retention)
        /\ IF marked THEN account' = [account EXCEPT !.peak = Larger(@, equity)]
                          /\ highest' = Larger(highest, equity)
           ELSE account' = account /\ highest' = highest
    BY <1>3 DEF Record
  <2>2. marked => equity \in Int /\ equity >= 0
    <3>. SUFFICES ASSUME marked PROVE equity \in Int /\ equity >= 0
      OBVIOUS
    <3>. DEFINE x == account.cash + TotalPnl(positions, Held, pass.marks)
    <3>1. x \in Int
      BY <1>0, MarkedInt DEF AccountRow
    <3>2. equity = Larger(x, 0)
      OBVIOUS
    <3>. HIDE DEF x, equity
    <3>. QED  BY <3>1, <3>2, LargerInt
  <2>. HIDE DEF equity, marked
  <2>3. /\ account' \in AccountRow /\ account'.funding = account.funding
        /\ account'.base = account.base /\ account'.peak = highest'
        /\ highest' \in Int /\ highest <= highest' /\ (marked => equity <= highest')
    <3>1. account.peak = highest
      BY DEF RiskInv, PeakKept
    <3>2. CASE marked
      <4>. DEFINE p == Larger(highest, equity)
      <4>1. p \in Int /\ highest <= p /\ equity <= p
        BY <1>0, <2>2, <3>2, LargerInt
      <4>2. account' = [account EXCEPT !.peak = p] /\ highest' = p
        BY <2>1, <3>1, <3>2, <1>0 DEF AccountRow
      <4>. HIDE DEF p
      <4>. QED  BY <1>0, <4>1, <4>2 DEF AccountRow
    <3>3. CASE ~marked
      BY <1>0, <2>1, <3>1, <3>3
    <3>. QED  BY <3>2, <3>3
  <2>4. /\ all \in Seq(SnapshotRow)
        /\ \A j \in 1 .. Len(all) : 0 <= all[j].equity /\ all[j].equity <= highest'
    <3>1. \A j \in 1 .. Len(snapshots) : /\ 0 <= snapshots[j].equity /\ snapshots[j].equity <= highest'
      <4>1. ASSUME NEW j \in 1 .. Len(snapshots) PROVE snapshots[j].equity \in Int
        <5>1. snapshots[j] \in SnapshotRow
          BY <1>0
        <5>. QED  BY <5>1 DEF SnapshotRow
      <4>. QED  BY <1>0, <2>3, <4>1 DEF RiskInv, PeakKept
    <3>2. CASE marked
      <4>1. entry \in SnapshotRow /\ entry.equity = equity
        BY <1>0, <2>2, <3>2 DEF SnapshotRow, PassRow
      <4>. HIDE DEF entry
      <4>. QED  BY <1>0, <2>2, <2>3, <3>1, <3>2, <4>1
    <3>3. CASE ~marked
      BY <1>0, <3>1, <3>3
    <3>. QED  BY <3>2, <3>3
  <2>. HIDE DEF all
  <2>5. /\ snapshots' \in Seq(SnapshotRow)
        /\ \A i \in 1 .. Len(snapshots') : 0 <= snapshots'[i].equity /\ snapshots'[i].equity <= highest'
    <3>1. /\ snapshots' \in Seq(SnapshotRow)
          /\ \A i \in 1 .. Len(snapshots') : \E j \in 1 .. Len(all) : snapshots'[i] = all[j]
      BY <2>1, <2>4, RetainedRows
    <3>. QED  BY <2>4, <3>1
  <2>6. Held' = Held
    BY <1>1 DEF Held
  <2>7. RiskTyped'
    BY <1>1, <2>3, <2>5 DEF RiskInv, RiskTyped
  <2>8. IdentifiersOwn' /\ Booking' /\ PeakKept'
    BY <1>1, <2>3, <2>5, <2>6 DEF RiskInv, IdentifiersOwn, Booking, PeakKept
  <2>. QED  BY <2>7, <2>8 DEF RiskInv
<1>. QED  BY <1>2, <1>3

LEMMA InvRiskNext == RiskInv /\ [RiskNext]_riskVars => RiskInv'
<1>. SUFFICES ASSUME RiskInv, [RiskNext]_riskVars PROVE RiskInv'
  OBVIOUS
<1>1. CASE UNCHANGED riskVars
  BY <1>1 DEF riskVars, RiskInv, RiskTyped, IdentifiersOwn, PeakKept, Booking, Held, PaidAfter, PaidOf
<1>2. CASE \E c \in Coins : Enter(c) \/ Exit(c) \/ Move(c)
  BY <1>2, InvEnter, InvExit, InvMove
<1>3. CASE \E on \in BOOLEAN : EnableAccount(on)
  BY <1>3, InvEnableAccount
<1>4. CASE Configure \/ Reset
  BY <1>4, InvConfigure, InvReset
<1>5. CASE Begin \/ LoadPrices \/ Liquidate \/ Fund \/ Record \/ Crash \/ Tick
  BY <1>5, InvBegin, InvLoadPrices, InvLiquidate, InvFund, InvRecord, InvCrash, InvTick
<1>. QED  BY <1>1, <1>2, <1>3, <1>4, <1>5 DEF RiskNext

(* No entry below the drawdown limit.                                      *)
Grows(c) == Units(positions'[c]) > Units(positions[c])

LEMMA UnitsNat == ASSUME NEW p \in PositionRow PROVE Units(p) \in Nat
<1>. DEFINE s == p.size
<1>1. s \in Int
  BY DEF PositionRow
<1>. HIDE DEF s
<1>2. Larger(s, -s) \in Nat
  BY <1>1 DEF Larger
<1>. QED  BY <1>2 DEF Units, s

LEMMA SameOrNone ==
    ASSUME RiskInv, NEW c \in Coins,
           \/ positions'[c] = positions[c]
           \/ positions'[c] = NoPosition
           \/ positions'[c] \in PositionRow /\ Units(positions'[c]) <= Units(positions[c])
    PROVE  ~Grows(c)
<1>1. positions[c] \in PositionRow
  BY DEF RiskInv, RiskTyped
<1>2. Units(positions[c]) \in Nat
  BY <1>1, UnitsNat
<1>3. Units(NoPosition) >= 0 /\ Units(NoPosition) <= 0
  <2>. DEFINE z == NoPosition.size
  <2>1. z \in Int /\ z >= 0 /\ z <= 0
    BY NoPositionTyped
  <2>. HIDE DEF z
  <2>2. Larger(z, -z) = z
    BY <2>1 DEF Larger
  <2>. QED  BY <2>1, <2>2 DEF Units, z
<1>4. CASE positions'[c] = positions[c]
  BY <1>2, <1>4 DEF Grows
<1>5. CASE positions'[c] = NoPosition
  <2>. DEFINE m == Units(NoPosition)
              n == Units(positions[c])
  <2>1. m \in Nat /\ m <= 0 /\ n \in Nat
    BY <1>2, <1>3, NoPositionTyped, UnitsNat
  <2>. HIDE DEF m, n
  <2>2. ~(m > n)
    BY <2>1
  <2>. QED  BY <1>5, <2>2 DEF Grows, m, n
<1>6. CASE positions'[c] \in PositionRow /\ Units(positions'[c]) <= Units(positions[c])
  <2>. DEFINE m == Units(positions'[c])
              n == Units(positions[c])
  <2>1. m \in Nat /\ n \in Nat /\ m <= n
    BY <1>2, <1>6, UnitsNat
  <2>. HIDE DEF m, n
  <2>2. ~(m > n)
    BY <2>1
  <2>. QED  BY <2>2 DEF Grows, m, n
<1>. QED  BY <1>4, <1>5, <1>6

(* The greatest equity retained is no more than the highest ever, so that  *)
(* the drawdown is measured from the highest.                              *)
LEMMA PeakIsHighest ==
    ASSUME RiskInv, snapshots # <<>>
    PROVE  Peak(account.peak) = highest
<1>. DEFINE R == {0} \cup {snapshots[n].equity : n \in DOMAIN snapshots}
            B == {highest - x : x \in R}
<1>1. snapshots \in Seq(SnapshotRow) /\ highest \in Int /\ account.peak = highest
      /\ \A n \in DOMAIN snapshots : snapshots[n].equity \in Int /\ 0 <= snapshots[n].equity
                                      /\ snapshots[n].equity <= highest
  <2>1. snapshots \in Seq(SnapshotRow) /\ highest \in Int /\ account.peak = highest
    BY DEF RiskInv, RiskTyped, PeakKept
  <2>2. ASSUME NEW n \in DOMAIN snapshots
        PROVE  snapshots[n].equity \in Int /\ 0 <= snapshots[n].equity /\ snapshots[n].equity <= highest
    <3>1. n \in 1 .. Len(snapshots)
      BY <2>1
    <3>2. snapshots[n] \in SnapshotRow
      BY <2>1, <3>1
    <3>. QED  BY <3>1, <3>2 DEF SnapshotRow, RiskInv, PeakKept
  <2>. QED  BY <2>1, <2>2
<1>2. Len(snapshots) \in Nat \ {0} /\ 1 \in DOMAIN snapshots
  BY <1>1
<1>3. highest >= 0
  <2>. DEFINE e == snapshots[1].equity
  <2>1. e \in Int /\ 0 <= e /\ e <= highest
    BY <1>1, <1>2
  <2>. HIDE DEF e
  <2>. QED  BY <1>1, <2>1
<1>4. \A x \in R : x \in Int /\ x <= highest
  BY <1>1, <1>3
<1>5. 0 \in R
  OBVIOUS
<1>. HIDE DEF R
<1>6. B \subseteq Nat /\ B # {}
  BY <1>1, <1>4, <1>5
<1>7. PICK n \in B : \A k \in B : n <= k
  <2>. HIDE DEF B
  <2>. QED  BY <1>6, SmallestNumber
<1>8. PICK x \in R : n = highest - x
  BY <1>7
<1>9. \A y \in R : x >= y
  <2>. SUFFICES ASSUME NEW y \in R PROVE x >= y
    OBVIOUS
  <2>1. n <= highest - y
    BY <1>7
  <2>. QED  BY <1>1, <1>4, <1>8, <2>1
<1>10. Max(R) \in R
  BY <1>8, <1>9 DEF Max
<1>11. RetainedPeak(account.peak) = Max(R)
  BY DEF RetainedPeak, R
<1>. QED  BY <1>1, <1>4, <1>10, <1>11 DEF Peak, Larger

LEMMA EnterAbove == \A c \in Coins : RiskInv /\ Enter(c) => EntryAboveDrawdown
<1>. SUFFICES ASSUME NEW c \in Coins, RiskInv, Enter(c), NEW d \in Coins, snapshots # <<>>, Grows(d)
              PROVE  ~Lost(Latest, highest, PeakLimit)
  BY DEF EntryAboveDrawdown, Grows
<1>1. CASE Breached
  BY <1>1, SameOrNone DEF Enter
<1>2. CASE ~Breached
  <2>1. ~Lost(Latest, Peak(account.peak), PeakLimit)
    BY <1>2 DEF Breached
  <2>. QED  BY <2>1, PeakIsHighest
<1>. QED  BY <1>1, <1>2

LEMMA ExitShrinks == \A c \in Coins : RiskInv /\ Exit(c) => \A d \in Coins : ~Grows(d)
<1>. SUFFICES ASSUME NEW c \in Coins, RiskInv, Exit(c), NEW d \in Coins PROVE ~Grows(d)
  OBVIOUS
<1>. DEFINE p == positions[c]
<1>1. positions \in [Coins -> PositionRow] /\ p \in PositionRow /\ p.size # 0
  BY DEF RiskInv, RiskTyped, IdentifiersOwn, Held, Exit
<1>2. PICK units \in 1 .. Units(p) : positions' = [positions EXCEPT ![c] = Reduced(p, units)]
  BY DEF Exit
<1>3. Reduced(p, units) \in PositionRow /\ Units(Reduced(p, units)) <= Units(p)
  <2>. HIDE DEF p
  <2>. QED  BY <1>1, ReducedTyped, NoPositionTyped DEF SameRow
<1>4. CASE d = c
  <2>1. positions'[d] = Reduced(p, units)
    BY <1>1, <1>2, <1>4
  <2>. QED  BY <1>3, <1>4, <2>1, SameOrNone
<1>5. CASE d # c
  BY <1>1, <1>2, <1>5, SameOrNone
<1>. QED  BY <1>4, <1>5

LEMMA LiquidateShrinks == RiskInv /\ Liquidate => \A d \in Coins : ~Grows(d)
<1>. SUFFICES ASSUME RiskInv, Liquidate, NEW d \in Coins PROVE ~Grows(d)
  OBVIOUS
<1>1. CASE pass.coins = {}
  BY <1>1, SameOrNone DEF Liquidate
<1>2. CASE pass.coins # {}
  <2>1. PICK gone \in SUBSET (Held \cap DOMAIN pass.marks) :
          positions' = [c \in Coins |-> IF c \in gone THEN NoPosition ELSE positions[c]]
    BY <1>2, LiquidateMoves
  <2>2. positions'[d] = NoPosition \/ positions'[d] = positions[d]
    BY <2>1
  <2>. QED  BY <2>2, SameOrNone
<1>. QED  BY <1>1, <1>2

LEMMA FundKeepsSizes == RiskInv /\ Fund => \A d \in Coins : ~Grows(d)
<1>. SUFFICES ASSUME RiskInv, Fund, NEW d \in Coins PROVE ~Grows(d)
  OBVIOUS
<1>1. CASE positions' = positions
  BY <1>1, SameOrNone
<1>2. CASE positions' # positions
  <2>1. PICK hours : Charge(hours)
    BY <1>2 DEF Fund, ReadFunding
  <2>2. positions[d] \in PositionRow
    BY DEF RiskInv, RiskTyped
  <2>3. positions'[d] = positions[d] \/ \E paid : positions'[d] = [positions[d] EXCEPT !.funding = paid]
    BY <2>1 DEF Charge
  <2>4. positions'[d].size = positions[d].size
    BY <2>2, <2>3 DEF PositionRow
  <2>5. Units(positions'[d]) = Units(positions[d]) /\ Units(positions[d]) \in Nat
    BY <2>2, <2>4, UnitsNat DEF Units
  <2>. QED  BY <2>5 DEF Grows
<1>. QED  BY <1>1, <1>2

LEMMA RiskStepAbove == RiskInv /\ [RiskNext]_riskVars => EntryAboveDrawdown
<1>. SUFFICES ASSUME RiskInv, [RiskNext]_riskVars PROVE EntryAboveDrawdown
  OBVIOUS
<1>1. ASSUME \A c \in Coins : ~Grows(c) PROVE EntryAboveDrawdown
  BY <1>1 DEF EntryAboveDrawdown, Grows
<1>2. ASSUME positions' = positions PROVE \A c \in Coins : ~Grows(c)
  BY <1>2, SameOrNone
<1>3. CASE UNCHANGED riskVars
  BY <1>1, <1>2, <1>3 DEF riskVars
<1>4. CASE \E c \in Coins : Enter(c)
  BY <1>4, EnterAbove
<1>5. CASE \E c \in Coins : Exit(c)
  BY <1>1, <1>5, ExitShrinks
<1>6. CASE \E c \in Coins : Move(c)
  BY <1>1, <1>2, <1>6 DEF Move, riskBooks
<1>7. CASE \E on \in BOOLEAN : EnableAccount(on)
  BY <1>1, <1>2, <1>7 DEF EnableAccount
<1>8. CASE Configure \/ Reset
  BY <1>1, <1>2, <1>8 DEF Configure, Reset
<1>9. CASE Liquidate
  BY <1>1, <1>9, LiquidateShrinks
<1>10. CASE Fund
  BY <1>1, <1>10, FundKeepsSizes
<1>11. CASE Begin \/ LoadPrices \/ Record \/ Crash \/ Tick
  <2>1. CASE Begin
    BY <1>1, <1>2, <2>1 DEF Begin, riskBooks
  <2>2. CASE LoadPrices
    BY <1>1, <1>2, <2>2 DEF LoadPrices, riskBooks
  <2>3. CASE Record
    BY <1>1, <1>2, <2>3 DEF Record
  <2>4. CASE Crash
    BY <1>1, <1>2, <2>4 DEF Crash, riskBooks
  <2>5. CASE Tick
    BY <1>1, <1>2, <2>5 DEF Tick, riskBooks
  <2>. QED  BY <1>11, <2>1, <2>2, <2>3, <2>4, <2>5
<1>. QED  BY <1>3, <1>4, <1>5, <1>6, <1>7, <1>8, <1>9, <1>10, <1>11 DEF RiskNext

(* The invariant of the risk loop holds: types, identifiers, the peak and  *)
(* the sums of the payments.                                               *)
THEOREM RiskInvariant == RiskSpec => []RiskInv
<1>1. RiskInit => RiskInv
  BY RiskInvInit
<1>2. RiskInv /\ [RiskNext]_riskVars => RiskInv'
  BY InvRiskNext
<1>. QED  BY <1>1, <1>2, PTL DEF RiskSpec

(* paper_risk_service: what an account and its positions carry as funding  *)
(* is what was paid for them, one payment for an hour, through missed      *)
(* hours, passes that fail half way and crashes.                           *)
THEOREM FundingAlwaysBooked == RiskSpec => []FundingBooked
<1>1. RiskInv => FundingBooked
  BY RiskInvBooked
<1>. QED  BY <1>1, RiskInvariant, PTL

(* paper_risk_service: no entry increases a position while the recorded    *)
(* equity is under the highest since the last reset by the drawdown limit  *)
(* (paper_entry_risk_reason), whatever snapshots were pruned.              *)
THEOREM EntriesAboveDrawdown == RiskSpec => DrawdownHeld
<1>1. RiskInv /\ [RiskNext]_riskVars => EntryAboveDrawdown
  BY RiskStepAbove
<1>2. RiskInv /\ [RiskNext]_riskVars => [EntryAboveDrawdown]_riskVars
  BY <1>1
<1>. QED  BY <1>2, RiskInvariant, PTL DEF RiskSpec, DrawdownHeld
----------------------------------------------------------------------------
(***************************************************************************)
(* The equity series of a live account.  An import reaches back to the     *)
(* last flow known and to the last complete import, so the flows that are  *)
(* known are a beginning of all flows, with nothing left out; what is      *)
(* counted between two snapshots is then what was made between them.       *)
(***************************************************************************)
(* What a set of flows holds, it holds with all flows before.              *)
WithEarlier(S) == \A f \in S, g \in cashFlows : g <= f => g \in S

UpTo(time) == {f \in cashFlows : f <= time}

(* The order of times, and what an import in each of its steps has.        *)
TimesOrdered ==
    /\ tracking.created <= hour /\ (tracking.allFlows => tracking.created < hour)
    /\ tracking.reconciled < hour /\ \A f \in cashFlows : f < hour
    /\ series.last = tracking.reconciled /\ series.from <= series.last
    /\ series = NoSeries <=> tracking.reconciled = NoTime
    /\ import.flows \subseteq cashFlows /\ import.past \subseteq cashFlows
    /\ import.pc # "idle" => /\ import.at < hour /\ import.start <= import.at
                             /\ tracking.reconciled < import.at /\ tracking.created <= import.at
    /\ import.pc \in {"flows", "past"} => import.past = {}

(* Every import reaches back to the last flow known, and to the last       *)
(* complete one.                                                           *)
NothingSkipped ==
    /\ WithEarlier(known) /\ WithEarlier(known \cup import.flows \cup import.past)
    /\ UpTo(tracking.reconciled) \subseteq known
    /\ tracking.allFlows => UpTo(tracking.created) \subseteq known
    /\ import.pc # "idle" =>
         /\ \A f \in cashFlows : f < import.start => f \in known
         /\ import.whole => UpTo(import.at) \subseteq known \cup import.flows
    /\ series.counted = Between(cashFlows, series.from, series.last)

PerfInv == PerfTypeOK /\ TimesOrdered /\ (~narrow => NothingSkipped)

LEMMA LatestIs ==
    ASSUME NEW S, S \subseteq Times, S # {}
    PROVE  LatestFlow(S) \in S /\ \A g \in S : g <= LatestFlow(S)
<1>. DEFINE B == {MaxFlowTime - f : f \in S}
<1>0. MaxFlowTime \in Nat /\ \A f \in S : f \in Nat /\ f <= MaxFlowTime
  BY PerfAssumption DEF Times
<1>1. B \subseteq Nat /\ B # {}
  BY <1>0
<1>2. PICK n \in B : \A k \in B : n <= k
  <2>. HIDE DEF B
  <2>. QED  BY <1>1, SmallestNumber
<1>3. PICK f \in S : n = MaxFlowTime - f
  BY <1>2
<1>4. \A g \in S : g <= f
  <2>. SUFFICES ASSUME NEW g \in S PROVE g <= f
    OBVIOUS
  <2>1. n <= MaxFlowTime - g
    BY <1>2
  <2>. QED  BY <1>0, <1>3, <2>1
<1>. QED  BY <1>3, <1>4 DEF LatestFlow

LEMMA PerfInvInit == PerfInit => PerfInv
<1>. SUFFICES ASSUME PerfInit PROVE PerfInv
  OBVIOUS
<1>1. 1 \in Times /\ 0 \in Times /\ MaxFlowTime \in Nat
  BY PerfAssumption DEF Times
<1>2. PerfTypeOK
  <2>1. tracking \in [created : Times, reconciled : Times \cup {NoTime},
                     allFlows : BOOLEAN, history : BOOLEAN]
    BY <1>1 DEF PerfInit
  <2>2. series \in [from : Times \cup {NoTime}, last : Times \cup {NoTime}, counted : SUBSET Times]
    BY DEF PerfInit, NoSeries
  <2>3. import \in [pc : {"idle", "flows", "past", "apply"}, at : Times, start : Int,
                 flows : SUBSET Times, whole : BOOLEAN, past : SUBSET Times, pastWhole : BOOLEAN]
    BY <1>1 DEF PerfInit, NoImport
  <2>4. hour \in Times /\ cashFlows \subseteq Times /\ known \subseteq cashFlows /\ narrow \in BOOLEAN
    BY <1>1 DEF PerfInit
  <2>. QED  BY <2>1, <2>2, <2>3, <2>4 DEF PerfTypeOK
<1>3. /\ tracking.created = 1 /\ tracking.reconciled = NoTime /\ tracking.allFlows = FALSE
      /\ series.from = NoTime /\ series.last = NoTime /\ series.counted = {} /\ series = NoSeries
      /\ import.pc = "idle" /\ import.flows = {} /\ import.past = {} /\ known = {}
      /\ cashFlows \subseteq {0} /\ hour = 1
  BY DEF PerfInit, NoSeries, NoImport
<1>4. TimesOrdered
  BY <1>3 DEF TimesOrdered, NoTime
<1>5. NothingSkipped
  <2>0. \A f \in cashFlows : f = 0
    BY <1>3
  <2>1. UpTo(tracking.reconciled) = {}
    <3>1. UpTo(tracking.reconciled) = {f \in cashFlows : f <= -1}
      BY <1>3 DEF UpTo, NoTime
    <3>. QED  BY <2>0, <3>1
  <2>2. Between(cashFlows, series.from, series.last) = {}
    <3>1. Between(cashFlows, series.from, series.last) = {f \in cashFlows : -1 < f /\ f <= -1}
      BY <1>3 DEF Between, NoTime
    <3>. QED  BY <2>0, <3>1
  <2>. QED  BY <1>3, <2>1, <2>2 DEF NothingSkipped, WithEarlier
<1>. QED  BY <1>2, <1>4, <1>5 DEF PerfInv

LEMMA InvFlow == PerfInv /\ Flow => PerfInv'
<1>. SUFFICES ASSUME PerfInv, Flow PROVE PerfInv'
  OBVIOUS
<1>0. PerfTypeOK /\ TimesOrdered /\ MaxFlowTime \in Nat
  BY PerfAssumption DEF PerfInv
<1>1. hour \in Nat /\ hour < MaxFlowTime /\ hour' = hour + 1 /\ cashFlows' = cashFlows \cup {hour}
      /\ UNCHANGED <<known, tracking, series, import, narrow>> /\ cashFlows \subseteq Nat
  BY <1>0 DEF Flow, PerfTypeOK, Times
<1>2. PerfTypeOK'
  BY <1>0, <1>1 DEF PerfTypeOK, Times
<1>3. tracking.created \in Nat /\ tracking.reconciled \in Int /\ import.at \in Nat /\ import.start \in Int
      /\ series.last \in Int /\ series.from \in Int
  BY <1>0 DEF PerfTypeOK, Times, NoTime
<1>4. TimesOrdered'
  BY <1>0, <1>1, <1>3 DEF TimesOrdered
<1>5. ASSUME NothingSkipped PROVE NothingSkipped'
  <2>1. ASSUME NEW S, S \subseteq cashFlows, WithEarlier(S), NEW f \in S, NEW g \in cashFlows', g <= f
        PROVE  g \in S
    <3>1. f \in cashFlows /\ f < hour /\ f \in Nat
      BY <1>0, <1>1, <2>1 DEF TimesOrdered
    <3>2. g \in cashFlows
      BY <1>1, <2>1, <3>1
    <3>. QED  BY <2>1, <3>2 DEF WithEarlier
  <2>2. known \subseteq cashFlows /\ known \cup import.flows \cup import.past \subseteq cashFlows
    BY <1>0 DEF PerfTypeOK, TimesOrdered
  <2>3. WithEarlier(known)' /\ WithEarlier(known \cup import.flows \cup import.past)'
    BY <1>1, <1>5, <2>1, <2>2 DEF WithEarlier, NothingSkipped
  <2>4. \A t \in Int : t < hour => {f \in cashFlows' : f <= t} = UpTo(t)
    BY <1>1 DEF UpTo
  <2>5. UpTo(tracking.reconciled)' = UpTo(tracking.reconciled)
    BY <1>0, <1>1, <1>3, <2>4 DEF TimesOrdered, UpTo
  <2>6. tracking.allFlows => UpTo(tracking.created)' = UpTo(tracking.created)
    BY <1>0, <1>1, <1>3, <2>4 DEF TimesOrdered, UpTo
  <2>7. import.pc # "idle" => UpTo(import.at)' = UpTo(import.at)
    BY <1>0, <1>1, <1>3, <2>4 DEF TimesOrdered, UpTo
  <2>8. import.pc # "idle" => \A f \in cashFlows' : f < import.start => f \in known
    BY <1>0, <1>1, <1>3, <1>5 DEF TimesOrdered, NothingSkipped
  <2>9. Between(cashFlows, series.from, series.last)' = Between(cashFlows, series.from, series.last)
    BY <1>0, <1>1, <1>3 DEF TimesOrdered, Between
  <2>. QED  BY <1>1, <1>5, <2>3, <2>5, <2>6, <2>7, <2>8, <2>9 DEF NothingSkipped
<1>. QED  BY <1>1, <1>2, <1>4, <1>5 DEF PerfInv

(* Where an import starts: the flows before are known.                     *)
LEMMA StartReaches ==
    ASSUME PerfTypeOK, TimesOrdered
    PROVE  /\ AutomaticStart \in Int /\ AutomaticStart <= hour
           /\ NothingSkipped => \A f \in cashFlows : f < AutomaticStart => f \in known
<1>0. /\ tracking.created \in Nat /\ tracking.reconciled \in Int /\ hour \in Nat
      /\ known \subseteq Times /\ Times \subseteq Nat /\ cashFlows \subseteq Nat /\ known \subseteq cashFlows
      /\ Overlap \in Nat
  BY PerfAssumption DEF PerfTypeOK, Times, NoTime
<1>1. CASE ~tracking.allFlows
  <2>1. AutomaticStart = 0
    BY <1>1 DEF AutomaticStart
  <2>. QED  BY <1>0, <2>1
<1>2. CASE tracking.allFlows /\ known # {}
  <2>. DEFINE m == LatestFlow(known)
  <2>1. m \in known /\ \A g \in known : g <= m
    BY <1>0, <1>2, LatestIs
  <2>2. AutomaticStart = m - Overlap
    BY <1>2 DEF AutomaticStart
  <2>. HIDE DEF m
  <2>3. m \in Nat /\ m < hour
    BY <1>0, <2>1 DEF TimesOrdered
  <2>4. ASSUME NothingSkipped, NEW f \in cashFlows, f < AutomaticStart PROVE f \in known
    <3>1. f <= m
      BY <1>0, <2>2, <2>3, <2>4
    <3>. QED  BY <2>1, <2>4, <3>1 DEF NothingSkipped, WithEarlier
  <2>. QED  BY <1>0, <2>2, <2>3, <2>4
<1>3. CASE tracking.allFlows /\ known = {}
  <2>. DEFINE w == StartOfWeek
              r == IF tracking.reconciled = NoTime THEN tracking.created ELSE tracking.reconciled
  <2>1. AutomaticStart = Later(Sooner(r, w), tracking.created)
    BY <1>3 DEF AutomaticStart
  <2>2. w \in Int /\ r \in Int
    BY <1>0, PerfAssumption DEF StartOfWeek
  <2>3. r <= hour
    BY <1>0 DEF TimesOrdered
  <2>. HIDE DEF w
  <2>4. AutomaticStart \in Int /\ AutomaticStart <= hour
          /\ (AutomaticStart <= tracking.created \/ AutomaticStart <= tracking.reconciled)
    BY <1>0, <2>1, <2>2, <2>3 DEF Later, Sooner, TimesOrdered
  <2>5. ASSUME NothingSkipped, NEW f \in cashFlows, f < AutomaticStart PROVE f \in known
    <3>1. f <= tracking.created \/ f <= tracking.reconciled
      BY <1>0, <2>4, <2>5
    <3>. QED  BY <1>3, <2>5, <3>1 DEF NothingSkipped, UpTo
  <2>. QED  BY <2>4, <2>5
<1>. QED  BY <1>1, <1>2, <1>3

LEMMA InvStartPass ==
    \A start \in Int :
        /\ PerfInv /\ StartPass(start) /\ start <= hour /\ narrow' \in BOOLEAN
        /\ (~narrow' => (~narrow /\ start <= AutomaticStart))
        => PerfInv'
<1>. SUFFICES ASSUME NEW start \in Int, PerfInv, StartPass(start), start <= hour, narrow' \in BOOLEAN,
                     ~narrow' => (~narrow /\ start <= AutomaticStart)
              PROVE  PerfInv'
  OBVIOUS
<1>0. PerfTypeOK /\ TimesOrdered /\ MaxFlowTime \in Nat
  BY PerfAssumption DEF PerfInv
<1>1. hour \in Nat /\ hour < MaxFlowTime /\ hour' = hour + 1 /\ cashFlows \subseteq Nat
      /\ UNCHANGED <<cashFlows, known, tracking, series>>
  BY <1>0 DEF StartPass, PerfTypeOK, Times
<1>2. /\ import' \in [pc : {"idle", "flows", "past", "apply"}, at : Times, start : Int,
                 flows : SUBSET Times, whole : BOOLEAN, past : SUBSET Times, pastWhole : BOOLEAN]
      /\ import'.pc = "flows" /\ import'.at = hour /\ import'.start = start
      /\ import'.flows = {} /\ import'.past = {} /\ import'.whole = FALSE
  <2>1. import' = [NoImport EXCEPT !.pc = "flows", !.at = hour, !.start = start]
    BY DEF StartPass
  <2>2. hour \in Times
    BY <1>0 DEF PerfTypeOK
  <2>. QED  BY <2>1, <2>2 DEF NoImport
<1>3. PerfTypeOK'
  <2>1. hour' \in Times
    BY <1>0, <1>1 DEF Times
  <2>. QED  BY <1>0, <1>1, <1>2, <2>1 DEF PerfTypeOK
<1>4. tracking.created \in Nat /\ tracking.reconciled \in Int
  BY <1>0 DEF PerfTypeOK, Times, NoTime
<1>5. TimesOrdered'
  BY <1>0, <1>1, <1>2, <1>4 DEF TimesOrdered
<1>6. ASSUME ~narrow', NothingSkipped PROVE NothingSkipped'
  <2>1. \A f \in cashFlows : f < AutomaticStart => f \in known
    BY <1>0, <1>6, StartReaches
  <2>2. AutomaticStart \in Int /\ start <= AutomaticStart
    BY <1>0, <1>6, StartReaches
  <2>3. \A f \in cashFlows : f < start => f \in known
    BY <1>1, <2>1, <2>2
  <2>4. known \cup {} \cup {} = known
    OBVIOUS
  <2>. QED  BY <1>1, <1>2, <1>6, <2>3, <2>4 DEF NothingSkipped, WithEarlier, UpTo, Between
<1>. QED  BY <1>3, <1>5, <1>6 DEF PerfInv

LEMMA InvAutomatic == PerfInv /\ Automatic => PerfInv'
<1>. SUFFICES ASSUME PerfInv, Automatic PROVE PerfInv'
  OBVIOUS
<1>1. AutomaticStart \in Int /\ AutomaticStart <= hour
  BY StartReaches DEF PerfInv
<1>2. narrow' = narrow /\ narrow \in BOOLEAN
  BY DEF Automatic, PerfInv, PerfTypeOK
<1>3. StartPass(AutomaticStart)
  BY DEF Automatic
<1>. QED  BY <1>1, <1>2, <1>3, InvStartPass

LEMMA InvWithLookback == \A minutes \in Lookbacks : PerfInv /\ WithLookback(minutes) => PerfInv'
<1>. SUFFICES ASSUME NEW minutes \in Lookbacks, PerfInv, WithLookback(minutes) PROVE PerfInv'
  OBVIOUS
<1>1. AutomaticStart \in Int
  BY StartReaches DEF PerfInv
<1>2. minutes \in Nat /\ hour \in Nat
  BY PerfAssumption DEF PerfInv, PerfTypeOK, Times
<1>3. StartPass(hour - minutes) /\ narrow' = (narrow \/ hour - minutes > AutomaticStart)
  BY DEF WithLookback
<1>4. hour - minutes \in Int /\ hour - minutes <= hour
  BY <1>2
<1>5. narrow' \in BOOLEAN
  BY <1>3
<1>6. ~narrow' => (~narrow /\ hour - minutes <= AutomaticStart)
  <2>1. ~narrow' => (~narrow /\ ~(hour - minutes > AutomaticStart))
    BY <1>3, Zenon
  <2>2. ~(hour - minutes > AutomaticStart) => hour - minutes <= AutomaticStart
    BY <1>1, <1>4
  <2>. QED  BY <2>1, <2>2, Zenon
<1>. QED  BY <1>3, <1>4, <1>5, <1>6, InvStartPass

(* What the pages read so far hold, with what is known, they hold with all *)
(* flows before.                                                           *)
LEMMA PagesReach ==
    ASSUME PerfTypeOK, NEW start \in Int, NEW at \in Int, NEW p \in Pages(start, at),
           NEW S, WithEarlier(S), \A f \in cashFlows : f < start => f \in S
    PROVE  WithEarlier(S \cup p.flows) /\ (p.whole => UpTo(at) \subseteq S \cup p.flows)
<1>1. PICK end \in (start - 1) .. at :
        p.flows = Between(cashFlows, start - 1, end) /\ p.whole = (end = at)
  BY DEF Pages
<1>2. cashFlows \subseteq Int
  BY DEF PerfTypeOK, Times
<1>3. ASSUME NEW f \in cashFlows, start <= f, f <= end PROVE f \in p.flows
  <2>1. f \in Int /\ start - 1 < f
    BY <1>2, <1>3
  <2>. QED  BY <1>1, <1>3, <2>1 DEF Between
<1>4. \A f \in p.flows : f \in cashFlows /\ f <= end
  BY <1>1 DEF Between
<1>5. ASSUME NEW f \in S \cup p.flows, NEW g \in cashFlows, g <= f PROVE g \in S \cup p.flows
  <2>1. CASE f \in S
    BY <1>5, <2>1 DEF WithEarlier
  <2>2. CASE f \in p.flows
    <3>1. g <= end
      <4>1. f \in cashFlows /\ f <= end
        BY <1>4, <2>2
      <4>2. f \in Int /\ g \in Int /\ end \in Int /\ g <= f
        BY <1>2, <1>5, <4>1
      <4>. QED  BY <4>1, <4>2
    <3>2. g < start \/ start <= g
      BY <1>2
    <3>. QED  BY <1>3, <3>1, <3>2
  <2>. QED  BY <1>5, <2>1, <2>2
<1>6. ASSUME p.whole, NEW f \in UpTo(at) PROVE f \in S \cup p.flows
  <2>1. f \in cashFlows /\ f <= end
    BY <1>1, <1>6 DEF UpTo
  <2>2. f < start \/ start <= f
    BY <1>2, <2>1
  <2>. QED  BY <1>3, <2>1, <2>2
<1>. QED  BY <1>5, <1>6 DEF WithEarlier

LEMMA PagesTyped ==
    ASSUME PerfTypeOK, NEW start, NEW at, NEW p \in Pages(start, at)
    PROVE  p.flows \subseteq cashFlows /\ p.flows \in SUBSET Times /\ p.whole \in BOOLEAN
<1>1. PICK end \in (start - 1) .. at : p = [flows |-> Between(cashFlows, start - 1, end), whole |-> end = at]
  BY DEF Pages
<1>2. p.flows = Between(cashFlows, start - 1, end) /\ p.whole = (end = at)
  BY <1>1
<1>3. p.flows \subseteq cashFlows
  BY <1>2 DEF Between
<1>. QED  BY <1>2, <1>3 DEF PerfTypeOK

ImportRow == [pc : {"idle", "flows", "past", "apply"}, at : Times, start : Int,
              flows : SUBSET Times, whole : BOOLEAN, past : SUBSET Times, pastWhole : BOOLEAN]

LEMMA InvFetchFlows == PerfInv /\ FetchFlows => PerfInv'
<1>. SUFFICES ASSUME PerfInv, FetchFlows PROVE PerfInv'
  OBVIOUS
<1>0. PerfTypeOK /\ TimesOrdered /\ import \in ImportRow
  BY DEF PerfInv, PerfTypeOK, ImportRow
<1>1. UNCHANGED <<hour, cashFlows, known, tracking, series, narrow>> /\ import.pc = "flows"
  BY DEF FetchFlows
<1>2. PICK p \in Pages(import.start, import.at) :
        import' = [import EXCEPT !.pc = "past", !.flows = p.flows, !.whole = p.whole]
  BY DEF FetchFlows
<1>3. p.flows \subseteq cashFlows /\ p.flows \in SUBSET Times /\ p.whole \in BOOLEAN
  BY <1>0, PagesTyped
<1>4. /\ import' \in ImportRow /\ import'.pc = "past" /\ import'.at = import.at /\ import'.start = import.start
      /\ import'.flows = p.flows /\ import'.past = import.past /\ import'.whole = p.whole
  BY <1>0, <1>2, <1>3 DEF ImportRow
<1>5. PerfTypeOK'
  BY <1>0, <1>1, <1>4 DEF PerfTypeOK, ImportRow
<1>6. TimesOrdered'
  BY <1>0, <1>1, <1>3, <1>4 DEF TimesOrdered
<1>7. ASSUME NothingSkipped PROVE NothingSkipped'
  <2>1. WithEarlier(known) /\ \A f \in cashFlows : f < import.start => f \in known
    BY <1>1, <1>7 DEF NothingSkipped
  <2>2. import.start \in Int /\ import.at \in Int
    BY <1>0 DEF ImportRow, Times
  <2>3. WithEarlier(known \cup p.flows) /\ (p.whole => UpTo(import.at) \subseteq known \cup p.flows)
    BY <1>0, <2>1, <2>2, PagesReach
  <2>4. import.past = {}
    BY <1>0, <1>1 DEF TimesOrdered
  <2>5. known \cup p.flows \cup {} = known \cup p.flows
    OBVIOUS
  <2>. QED  BY <1>1, <1>4, <1>7, <2>3, <2>4, <2>5 DEF NothingSkipped, WithEarlier, UpTo, Between
<1>. QED  BY <1>1, <1>5, <1>6, <1>7 DEF PerfInv

LEMMA InvFetchPast == PerfInv /\ FetchPast => PerfInv'
<1>. SUFFICES ASSUME PerfInv, FetchPast PROVE PerfInv'
  OBVIOUS
<1>0. PerfTypeOK /\ TimesOrdered /\ import \in ImportRow
  BY DEF PerfInv, PerfTypeOK, ImportRow
<1>1. UNCHANGED <<hour, cashFlows, known, tracking, series, narrow>> /\ import.pc = "past" /\ import.past = {}
  BY <1>0 DEF FetchPast, TimesOrdered
<1>. DEFINE past == import'.past
<1>2. /\ import' \in ImportRow /\ import'.pc = "apply" /\ import'.at = import.at /\ import'.start = import.start
      /\ import'.flows = import.flows /\ import'.whole = import.whole /\ past \subseteq cashFlows
      /\ past = {} \/ past = import.flows \/ \E p \in Pages(0, import.at) : past = p.flows
  <2>1. CASE import' = [import EXCEPT !.pc = "apply"]
    BY <1>0, <1>1, <2>1 DEF ImportRow
  <2>2. CASE import' # [import EXCEPT !.pc = "apply"]
    <3>1. PICK p \in IF import.start = 0 THEN {[flows |-> import.flows, whole |-> import.whole]}
                     ELSE Pages(0, import.at) :
            import' = [import EXCEPT !.pc = "apply", !.past = p.flows, !.pastWhole = p.whole]
      BY <2>2 DEF FetchPast
    <3>2. p.flows \subseteq cashFlows /\ p.flows \in SUBSET Times /\ p.whole \in BOOLEAN
          /\ (p.flows = import.flows \/ p \in Pages(0, import.at))
      <4>1. CASE import.start = 0
        BY <1>0, <3>1, <4>1 DEF ImportRow, TimesOrdered
      <4>2. CASE import.start # 0
        BY <1>0, <3>1, <4>2, PagesTyped
      <4>. QED  BY <4>1, <4>2
    <3>. QED  BY <1>0, <3>1, <3>2 DEF ImportRow
  <2>. QED  BY <2>1, <2>2
<1>5. PerfTypeOK'
  BY <1>0, <1>1, <1>2 DEF PerfTypeOK, ImportRow
<1>6. TimesOrdered'
  BY <1>0, <1>1, <1>2 DEF TimesOrdered
<1>7. ASSUME NothingSkipped PROVE NothingSkipped'
  <2>. DEFINE S == known \cup import.flows
  <2>1. WithEarlier(S)
    <3>1. known \cup import.flows \cup {} = S
      OBVIOUS
    <3>. QED  BY <1>1, <1>7, <3>1 DEF NothingSkipped
  <2>2. WithEarlier(S \cup past)
    <3>1. CASE past = {} \/ past = import.flows
      <4>1. S \cup past = S
        BY <3>1
      <4>. QED  BY <2>1, <4>1
    <3>2. CASE \E p \in Pages(0, import.at) : past = p.flows
      <4>1. PICK p \in Pages(0, import.at) : past = p.flows
        BY <3>2
      <4>2. \A f \in cashFlows : f < 0 => f \in S
        BY <1>0 DEF PerfTypeOK, Times
      <4>3. import.at \in Int /\ 0 \in Int
        BY <1>0 DEF ImportRow, Times
      <4>. HIDE DEF S, past
      <4>. QED  BY <1>0, <2>1, <4>1, <4>2, <4>3, PagesReach
    <3>. QED  BY <1>2, <3>1, <3>2
  <2>. QED  BY <1>1, <1>2, <1>7, <2>2 DEF NothingSkipped, WithEarlier, UpTo, Between
<1>. QED  BY <1>1, <1>5, <1>6, <1>7 DEF PerfInv

LEMMA InvFailPass == PerfInv /\ FailPass => PerfInv'
<1>. SUFFICES ASSUME PerfInv, FailPass PROVE PerfInv'
  OBVIOUS
<1>0. PerfTypeOK /\ TimesOrdered
  BY DEF PerfInv
<1>1. UNCHANGED <<hour, cashFlows, known, tracking, series, narrow>>
  BY DEF FailPass
<1>2. import' = NoImport /\ NoImport \in ImportRow
  BY PerfAssumption DEF FailPass, NoImport, ImportRow, Times
<1>3. /\ import' \in ImportRow /\ import'.pc = "idle" /\ import'.flows = {} /\ import'.past = {}
  BY <1>2 DEF NoImport
<1>4. PerfTypeOK'
  BY <1>0, <1>1, <1>3 DEF PerfTypeOK, ImportRow
<1>5. TimesOrdered'
  BY <1>0, <1>1, <1>3 DEF TimesOrdered
<1>6. ASSUME NothingSkipped PROVE NothingSkipped'
  <2>1. known \cup {} \cup {} = known
    OBVIOUS
  <2>. QED  BY <1>1, <1>3, <1>6, <2>1 DEF NothingSkipped, WithEarlier, UpTo, Between
<1>. QED  BY <1>1, <1>4, <1>5, <1>6 DEF PerfInv

SeriesRow == [from : Times \cup {NoTime}, last : Times \cup {NoTime}, counted : SUBSET Times]

TrackingRow == [created : Times, reconciled : Times \cup {NoTime}, allFlows : BOOLEAN, history : BOOLEAN]

LEMMA BetweenJoins ==
    ASSUME NEW S \in SUBSET Nat, NEW a \in Int, NEW b \in Int, NEW c \in Int, a <= b, b <= c
    PROVE  Between(S, a, c) = Between(S, a, b) \cup Between(S, b, c) /\ Between(S, c, c) = {}
<1>1. ASSUME NEW f \in S
      PROVE  /\ (a < f /\ f <= c) <=> ((a < f /\ f <= b) \/ (b < f /\ f <= c))
             /\ ~(c < f /\ f <= c)
  <2>1. f \in Int
    OBVIOUS
  <2>. QED  BY <2>1
<1>. QED  BY <1>1 DEF Between

(* What a complete pass leaves in the series.                              *)
LEMMA SeriesExtended ==
    ASSUME PerfTypeOK, TimesOrdered, NEW at, at = import.at, tracking.reconciled < at,
           NEW flows, flows \subseteq cashFlows,
           NEW s, \/ \E r \in Rebuilt(flows) : r.from < r.last /\ s = Snapshot(r, flows, at)
                  \/ s = Snapshot(WithBaseline(flows), flows, at)
    PROVE  /\ s \in SeriesRow /\ s # NoSeries /\ s.last = at /\ s.from <= s.last
           /\ (NothingSkipped /\ UpTo(at) \subseteq flows)
                => s.counted = Between(cashFlows, s.from, s.last)
<1>0. /\ at \in Times /\ Times \subseteq Nat /\ series \in SeriesRow /\ flows \subseteq Times
      /\ cashFlows \subseteq Nat /\ at - 1 < at /\ at \in Nat
  BY DEF PerfTypeOK, SeriesRow, Times
<1>1. ASSUME NEW p \in Int, NEW q \in Int
      PROVE  Between(flows, p, q) \in SUBSET Times
  BY <1>0 DEF Between
<1>2. ASSUME NEW b \in Int, NEW e \in Int, e <= at, UpTo(at) \subseteq flows
      PROVE  Between(flows, b, e) = Between(cashFlows, b, e)
  <2>1. \A f \in cashFlows : f <= e => f \in flows
    <3>. SUFFICES ASSUME NEW f \in cashFlows, f <= e PROVE f \in flows
      OBVIOUS
    <3>1. f \in Nat /\ f <= at
      BY <1>0, <1>2
    <3>. QED  BY <1>2, <3>1 DEF UpTo
  <2>. QED  BY <2>1 DEF Between
<1>3. CASE \E r \in Rebuilt(flows) : r.from < r.last /\ s = Snapshot(r, flows, at)
  <2>1. PICK p \in 0 .. (at - 1), q \in 0 .. (at - 1) :
          LET r == Snapshot(Snapshot(NoSeries, flows, p), flows, q)
          IN r.from < r.last /\ s = Snapshot(r, flows, at)
    BY <1>3 DEF Rebuilt
  <2>. DEFINE r == Snapshot(Snapshot(NoSeries, flows, p), flows, q)
  <2>2. p \in Times /\ q \in Times /\ p \in Nat /\ q \in Nat /\ q < at
    <3>1. at \in 0 .. MaxFlowTime /\ MaxFlowTime \in Nat
      BY <1>0, PerfAssumption DEF Times
    <3>. QED  BY <3>1 DEF Times
  <2>3. Snapshot(NoSeries, flows, p) = [from |-> p, last |-> p, counted |-> {}]
    BY DEF Snapshot
  <2>4. r = [from |-> p, last |-> q, counted |-> Between(flows, p, q)]
    <3>. DEFINE one == [from |-> p, last |-> p, counted |-> {}]
    <3>1. one.from = p /\ NoSeries.from = NoTime /\ p # NoTime
      BY <2>2 DEF NoSeries, NoTime
    <3>2. one # NoSeries
      BY <3>1
    <3>3. Snapshot(one, flows, q) = [from |-> p, last |-> q, counted |-> {} \cup Between(flows, p, q)]
      BY <3>2 DEF Snapshot
    <3>4. {} \cup Between(flows, p, q) = Between(flows, p, q)
      OBVIOUS
    <3>. QED  BY <2>3, <3>3, <3>4
  <2>5. r.from = p /\ r.last = q /\ r.counted = Between(flows, p, q)
    BY <2>4
  <2>6. p < q /\ s = Snapshot(r, flows, at)
    BY <2>1, <2>5
  <2>. HIDE DEF r
  <2>7. r # NoSeries
    BY <2>2, <2>5 DEF NoSeries, NoTime
  <2>8. s = [from |-> p, last |-> at, counted |-> Between(flows, p, q) \cup Between(flows, q, at)]
    BY <2>5, <2>6, <2>7 DEF Snapshot
  <2>9. Between(flows, p, q) \cup Between(flows, q, at) = Between(flows, p, at)
    <3>1. flows \in SUBSET Nat /\ p \in Int /\ q \in Int /\ at \in Int /\ p <= q /\ q <= at
      BY <1>0, <2>2, <2>6
    <3>. QED  BY <3>1, BetweenJoins
  <2>10. s.from = p /\ s.last = at /\ s.counted = Between(flows, p, at) /\ s \in SeriesRow
    BY <1>0, <1>1, <2>2, <2>8, <2>9 DEF SeriesRow
  <2>11. p <= at
    BY <1>0, <2>2, <2>6
  <2>12. s # NoSeries
    BY <2>2, <2>10 DEF NoSeries, NoTime
  <2>. QED  BY <1>0, <1>2, <2>2, <2>10, <2>11, <2>12
<1>4. CASE s = Snapshot(WithBaseline(flows), flows, at)
  <2>1. WithBaseline(flows) = series
    BY DEF WithBaseline, TimesOrdered
  <2>2. CASE series = NoSeries
    <3>1. s = [from |-> at, last |-> at, counted |-> {}]
      BY <1>4, <2>1, <2>2 DEF Snapshot
    <3>2. Between(cashFlows, at, at) = {}
      <4>1. at \in Int /\ at <= at
        BY <1>0
      <4>. QED  BY <1>0, <4>1, BetweenJoins
    <3>. QED  BY <1>0, <3>1, <3>2 DEF SeriesRow, NoSeries, NoTime
  <2>3. CASE series # NoSeries
    <3>. DEFINE b == series.from
                l == series.last
    <3>1. s = [from |-> b, last |-> at, counted |-> series.counted \cup Between(flows, l, at)]
      BY <1>4, <2>1, <2>3 DEF Snapshot
    <3>2. b \in Times \cup {NoTime} /\ l \in Int /\ b <= l /\ l < at /\ b \in Int
      BY <1>0 DEF TimesOrdered, SeriesRow, NoTime
    <3>3. s.from = b /\ s.last = at /\ s.counted = series.counted \cup Between(flows, l, at)
            /\ s \in SeriesRow
      BY <1>0, <1>1, <3>1, <3>2 DEF SeriesRow
    <3>4. s # NoSeries
      BY <1>0, <3>3 DEF NoSeries, NoTime
    <3>5. ASSUME NothingSkipped, UpTo(at) \subseteq flows
          PROVE  s.counted = Between(cashFlows, b, at)
      <4>1. series.counted = Between(cashFlows, b, l)
        BY <3>5 DEF NothingSkipped
      <4>2. Between(flows, l, at) = Between(cashFlows, l, at)
        BY <1>0, <1>2, <3>2, <3>5
      <4>3. Between(cashFlows, b, l) \cup Between(cashFlows, l, at) = Between(cashFlows, b, at)
        <5>1. l <= at /\ at \in Int /\ b \in Int /\ l \in Int /\ b <= l /\ cashFlows \in SUBSET Nat
          BY <1>0, <3>2
        <5>. HIDE DEF b, l
        <5>. QED  BY <5>1, BetweenJoins
      <4>. QED  BY <3>3, <4>1, <4>2, <4>3
    <3>. QED  BY <1>0, <3>2, <3>3, <3>4, <3>5
  <2>. QED  BY <2>2, <2>3
<1>. QED  BY <1>3, <1>4

LEMMA InvApplyPass == \A others \in BOOLEAN : PerfInv /\ ApplyPass(others) => PerfInv'
<1>. SUFFICES ASSUME NEW others \in BOOLEAN, PerfInv, ApplyPass(others) PROVE PerfInv'
  OBVIOUS
<1>0. PerfTypeOK /\ TimesOrdered /\ import \in ImportRow /\ tracking \in TrackingRow /\ series \in SeriesRow
  BY DEF PerfInv, PerfTypeOK, ImportRow, TrackingRow, SeriesRow
<1>1. /\ UNCHANGED <<hour, cashFlows, narrow>> /\ import.pc = "apply"
      /\ known' = known \cup import.flows \cup import.past
  BY DEF ApplyPass
<1>2. import' = NoImport /\ NoImport \in ImportRow
  BY PerfAssumption DEF ApplyPass, NoImport, ImportRow, Times
<1>3. /\ import' \in ImportRow /\ import'.pc = "idle" /\ import'.flows = {} /\ import'.past = {}
  BY <1>2 DEF NoImport
<1>4. /\ import.at < hour /\ tracking.reconciled < import.at /\ tracking.created <= import.at
      /\ tracking.created <= hour /\ import.at \in Nat /\ hour \in Nat /\ tracking.created \in Nat
      /\ import.at \in Times
  BY <1>0, <1>1 DEF TimesOrdered, ImportRow, PerfTypeOK, Times
<1>5. known \subseteq known' /\ known' \subseteq cashFlows
  BY <1>0, <1>1 DEF PerfTypeOK, TimesOrdered
<1>. DEFINE all == tracking.allFlows \/ (import.start = 0 /\ import.whole)
<1>6. all \in BOOLEAN
  BY <1>0 DEF TrackingRow, ImportRow
<1>7. /\ tracking' \in TrackingRow /\ tracking'.created = tracking.created /\ tracking'.allFlows = all
      /\ \/ /\ tracking'.reconciled = tracking.reconciled /\ series' = series
         \/ /\ import.whole /\ tracking'.reconciled = import.at
            /\ \/ \E r \in Rebuilt(known') : r.from < r.last /\ series' = Snapshot(r, known', import.at)
               \/ series' = Snapshot(WithBaseline(known'), known', import.at)
  <2>. HIDE DEF all
  <2>1. CASE WholePass(others)
    <3>1. import.whole
      BY <2>1 DEF WholePass
    <3>2. CASE tracking' = [tracking EXCEPT !.allFlows = all, !.history = TRUE, !.reconciled = import.at]
               /\ \E r \in Rebuilt(known') : r.from < r.last /\ series' = Snapshot(r, known', import.at)
      BY <1>0, <1>4, <1>6, <3>1, <3>2 DEF TrackingRow
    <3>3. CASE tracking' = [tracking EXCEPT !.allFlows = all, !.reconciled = import.at]
               /\ series' = Snapshot(WithBaseline(known'), known', import.at)
      BY <1>0, <1>4, <1>6, <3>1, <3>3 DEF TrackingRow
    <3>. QED  BY <2>1, <3>2, <3>3 DEF ApplyPass, all
  <2>2. CASE ~WholePass(others)
    <3>1. tracking' = [tracking EXCEPT !.allFlows = all] /\ series' = series
      BY <2>2 DEF ApplyPass, all
    <3>. QED  BY <1>0, <1>6, <3>1 DEF TrackingRow
  <2>. QED  BY <2>1, <2>2
<1>8. \/ series' = series /\ tracking'.reconciled = tracking.reconciled
      \/ /\ import.whole /\ tracking'.reconciled = import.at
         /\ series' \in SeriesRow /\ series' # NoSeries /\ series'.last = import.at
         /\ series'.from <= series'.last
         /\ (NothingSkipped /\ UpTo(import.at) \subseteq known')
               => series'.counted = Between(cashFlows, series'.from, series'.last)
  BY <1>0, <1>1, <1>4, <1>5, <1>7, SeriesExtended
<1>9. PerfTypeOK'
  BY <1>0, <1>1, <1>3, <1>5, <1>7, <1>8 DEF PerfTypeOK, ImportRow, TrackingRow, SeriesRow
<1>10. TimesOrdered'
  <2>1. tracking'.created <= hour /\ (tracking'.allFlows => tracking'.created < hour) /\ tracking'.reconciled < hour
    BY <1>0, <1>4, <1>7, <1>8 DEF TimesOrdered
  <2>2. /\ series'.last = tracking'.reconciled /\ series'.from <= series'.last
        /\ series' = NoSeries <=> tracking'.reconciled = NoTime
    BY <1>0, <1>4, <1>8 DEF TimesOrdered, NoTime
  <2>. QED  BY <1>0, <1>1, <1>3, <2>1, <2>2 DEF TimesOrdered
<1>11. ASSUME NothingSkipped PROVE NothingSkipped'
  <2>1. WithEarlier(known')
    BY <1>1, <1>11 DEF NothingSkipped
  <2>2. import.whole => UpTo(import.at) \subseteq known'
    BY <1>1, <1>11 DEF NothingSkipped
  <2>3. UpTo(tracking'.reconciled) \subseteq known'
    BY <1>5, <1>8, <1>11, <2>2 DEF NothingSkipped
  <2>4. tracking'.allFlows => UpTo(tracking.created) \subseteq known'
    <3>1. UpTo(tracking.created) \subseteq UpTo(import.at)
      <4>1. \A f \in cashFlows : f <= tracking.created => f <= import.at
        <5>. DEFINE m == tracking.created
                    n == import.at
        <5>1. m \in Nat /\ n \in Nat /\ m <= n /\ \A f \in cashFlows : f \in Nat
          BY <1>0, <1>4 DEF PerfTypeOK, Times
        <5>. HIDE DEF m, n
        <5>2. \A f \in cashFlows : f <= m => f <= n
          BY <5>1
        <5>. QED  BY <5>2 DEF m, n
      <4>. QED  BY <4>1 DEF UpTo
    <3>. QED  BY <1>5, <1>7, <1>11, <2>2, <3>1 DEF NothingSkipped
  <2>5. series'.counted = Between(cashFlows, series'.from, series'.last)
    BY <1>8, <1>11, <2>2 DEF NothingSkipped
  <2>6. known' \cup {} \cup {} = known'
    OBVIOUS
  <2>. QED  BY <1>1, <1>3, <1>7, <2>1, <2>3, <2>4, <2>5, <2>6 DEF NothingSkipped, WithEarlier, UpTo, Between
<1>. QED  BY <1>1, <1>9, <1>10, <1>11 DEF PerfInv

LEMMA InvPerfNext == PerfInv /\ [PerfNext]_perfVars => PerfInv'
<1>. SUFFICES ASSUME PerfInv, [PerfNext]_perfVars PROVE PerfInv'
  OBVIOUS
<1>1. CASE UNCHANGED perfVars
  BY <1>1 DEF perfVars, PerfInv, PerfTypeOK, TimesOrdered, NothingSkipped, WithEarlier, UpTo, Between
<1>. QED  BY <1>1, InvFlow, InvAutomatic, InvFetchFlows, InvFetchPast, InvFailPass, InvWithLookback,
             InvApplyPass DEF PerfNext

(* The invariant of the equity series holds: types, the order of times,    *)
(* and that nothing is skipped as long as no operator asked for a narrower *)
(* window.                                                                 *)
THEOREM PerformanceInvariant == PerfSpec => []PerfInv
<1>1. PerfInit => PerfInv
  BY PerfInvInit
<1>2. PerfInv /\ [PerfNext]_perfVars => PerfInv'
  BY InvPerfNext
<1>. QED  BY <1>1, <1>2, PTL DEF PerfSpec

(* live_trading_service: between the first and the last snapshot the       *)
(* equity series counts every deposit and withdrawal made in between,      *)
(* whatever imports failed or were partial, unless an operator narrowed a  *)
(* window.                                                                 *)
THEOREM FlowsAlwaysCounted == PerfSpec => []FlowsCounted
<1>1. PerfInv => FlowsCounted
  BY DEF PerfInv, NothingSkipped, FlowsCounted
<1>. QED  BY <1>1, PerformanceInvariant, PTL
----------------------------------------------------------------------------
(* The four side by side.                                                  *)
BooksInv == LedgerInv /\ PaperInv /\ QueueTypes /\ RiskInv /\ PerfInv

LEMMA BooksInvInit == BooksInit => BooksInv
BY InvInit, PaperInvInit, QueuesInit, RiskInvInit, PerfInvInit DEF BooksInit, BooksInv

LEMMA InvBooksNext == BooksInv /\ [BooksNext]_bookVars => BooksInv'
<1>. SUFFICES ASSUME BooksInv, [BooksNext]_bookVars PROVE BooksInv'
  OBVIOUS
<1>1. /\ [Next]_ledgerVars /\ [PaperNext]_paperVars /\ [RiskNext]_riskVars /\ [PerfNext]_perfVars
  BY DEF BooksNext, bookVars
<1>2. [Next]_vars
  BY <1>1 DEF ledgerVars
<1>3. LedgerInv'
  BY <1>2, InvNext DEF BooksInv
<1>4. PaperInv' /\ QueueTypes'
  BY <1>1, InvPaperNext, QueuesNext DEF BooksInv
<1>5. RiskInv'
  BY <1>1, InvRiskNext DEF BooksInv
<1>6. PerfInv'
  BY <1>1, InvPerfNext DEF BooksInv
<1>. QED  BY <1>3, <1>4, <1>5, <1>6 DEF BooksInv

(* The variables of every part keep their types, in all that the parts do  *)
(* side by side.                                                           *)
THEOREM BooksAlwaysTyped == BooksSpec => []BooksTyped
<1>1. BooksInit => BooksInv
  BY BooksInvInit
<1>2. BooksInv /\ [BooksNext]_bookVars => BooksInv'
  BY InvBooksNext
<1>3. BooksInv => BooksTyped
  BY PaperTyped, RiskInvBooked DEF BooksInv, BooksTyped, LedgerInv, PerfInv
<1>. QED  BY <1>1, <1>2, <1>3, PTL DEF BooksSpec
=============================================================================
