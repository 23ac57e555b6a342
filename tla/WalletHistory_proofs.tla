------------------------ MODULE WalletHistory_proofs ------------------------
(***************************************************************************)
(* What is stored of a wallet is what its last poll vouches for, for any   *)
(* sizes of pages and limits.                                              *)
(*                                                                         *)
(* First what reading returns: a page, the pages read forward, the windows *)
(* read back and what is cut of them hold all that there was in between    *)
(* (ReadWindowSound).  Then what an import does with it: whatever joins    *)
(* the stretch that was known leaves no hole between the two (JoinCovers), *)
(* so that it stays known (HistoryKnown) with every step of the system.    *)
(***************************************************************************)
EXTENDS WalletHistory, Recursion_proofs

(* What the exchange has is finite, and was traded before now.             *)
FillsKnown ==
    /\ time \in Nat /\ executed \subseteq Nat /\ IsFiniteSet(executed)
    /\ \A f \in executed : TimeOf(f) < time

LEMMA TimeIs ==
    ASSUME NEW f \in Nat
    PROVE  TimeOf(f) \in Nat /\ (f = 2 * TimeOf(f) \/ f = 2 * TimeOf(f) + 1)
BY DEF TimeOf

LEMMA TimeOrder ==
    ASSUME NEW f \in Nat, NEW g \in Nat
    PROVE  (TimeOf(f) < TimeOf(g) => f < g) /\ (f <= g => TimeOf(f) <= TimeOf(g))
BY DEF TimeOf

LEMMA LargestNumber ==
    ASSUME NEW S, S \subseteq Nat, S # {}, NEW b \in Nat, \A x \in S : x <= b
    PROVE  \E x \in S : \A y \in S : y <= x
<1>. DEFINE B == {m \in Nat : \A x \in S : x <= m}
<1>1. B \subseteq Nat /\ B # {}
  OBVIOUS
<1>2. PICK m \in B : \A n \in B : m <= n
  <2>. HIDE DEF B
  <2>. QED  BY <1>1, SmallestNumber
<1>. SUFFICES ASSUME m \notin S PROVE FALSE
  BY <1>2
<1>3. m # 0
  <2>1. PICK x \in S : TRUE
    OBVIOUS
  <2>2. x \in Nat /\ x <= m /\ x # m
    BY <1>2
  <2>. QED  BY <1>2, <2>2
<1>4. m - 1 \in B
  <2>1. m \in Nat /\ m - 1 \in Nat
    BY <1>2, <1>3
  <2>2. ASSUME NEW x \in S PROVE x <= m - 1
    <3>1. x \in Nat /\ x <= m /\ x # m
      BY <1>2
    <3>. QED  BY <2>1, <3>1
  <2>. QED  BY <2>1, <2>2
<1>. QED  BY <1>2, <1>4

LEMMA Extremes ==
    ASSUME FillsKnown, NEW S, S \subseteq executed, S # {}
    PROVE  /\ Min(S) \in S /\ \A y \in S : Min(S) <= y
           /\ Max(S) \in S /\ \A y \in S : y <= Max(S)
<1>1. S \subseteq Nat
  BY DEF FillsKnown
<1>2. \A x \in S : x <= 2 * time
  <2>. SUFFICES ASSUME NEW x \in S PROVE x <= 2 * time
    OBVIOUS
  <2>1. x \in Nat /\ TimeOf(x) < time /\ time \in Nat
    BY <1>1 DEF FillsKnown
  <2>. QED  BY <2>1, TimeIs
<1>3. \E x \in S : \A y \in S : x <= y
  BY <1>1, SmallestNumber
<1>4. \E x \in S : \A y \in S : y <= x
  <2>1. 2 * time \in Nat
    BY DEF FillsKnown
  <2>. QED  BY <1>1, <1>2, <2>1, LargestNumber
<1>5. Min(S) \in S /\ \A y \in S : Min(S) <= y
  BY <1>3 DEF Min
<1>6. Max(S) \in S /\ \A y \in S : Max(S) >= y
  BY <1>1, <1>4 DEF Max
<1>. QED  BY <1>1, <1>5, <1>6

LEMMA TimesOf ==
    ASSUME FillsKnown, NEW S, S \subseteq executed, S # {}
    PROVE  /\ FirstTime(S) \in Nat /\ LastTime(S) \in Nat
           /\ \A f \in S : TimeOf(f) \in Nat /\ FirstTime(S) <= TimeOf(f) /\ TimeOf(f) <= LastTime(S)
           /\ \E f \in S : TimeOf(f) = LastTime(S)
           /\ LastTime(S) < time /\ time \in Nat
<1>1. S \subseteq Nat
  BY DEF FillsKnown
<1>2. Min(S) \in S /\ Max(S) \in S /\ \A y \in S : Min(S) <= y /\ y <= Max(S)
  BY Extremes
<1>3. \A f \in S : TimeOf(f) \in Nat /\ TimeOf(Min(S)) <= TimeOf(f) /\ TimeOf(f) <= TimeOf(Max(S))
  BY <1>1, <1>2, TimeIs, TimeOrder
<1>4. TimeOf(Max(S)) < time /\ time \in Nat
  BY <1>2 DEF FillsKnown
<1>. QED  BY <1>2, <1>3, <1>4 DEF FirstTime, LastTime

(* A page of the oldest holds all there are or is full, and skips none.    *)
LEMMA OldestPage ==
    ASSUME FillsKnown, NEW S, S \subseteq executed
    PROVE  /\ Oldest(S) \subseteq S /\ Cardinality(Oldest(S)) \in Nat
           /\ \A f \in S, g \in Oldest(S) : f < g => f \in Oldest(S)
           /\ (Cardinality(Oldest(S)) < Page => Oldest(S) = S)
<1>0. IsFiniteSet(S) /\ S \subseteq Nat
  BY FS_Subset DEF FillsKnown
<1>1. Oldest(S) \subseteq S
  BY DEF Oldest
<1>2. IsFiniteSet(Oldest(S)) /\ Cardinality(Oldest(S)) \in Nat
  BY <1>0, <1>1, FS_Subset, FS_CardinalityType
<1>3. ASSUME NEW f \in S, NEW g \in Oldest(S), f < g
      PROVE  f \in Oldest(S)
  <2>. DEFINE F == {h \in S : h < f}
              G == {h \in S : h < g}
  <2>1. f \in Nat /\ g \in Nat /\ g \in S
    BY <1>0, <1>1
  <2>2. F \subseteq G
    <3>. SUFFICES ASSUME NEW h \in F PROVE h \in G
      OBVIOUS
    <3>1. h \in Nat
      BY <1>0
    <3>. QED  BY <1>3, <2>1, <3>1
  <2>3. Cardinality(G) < Page
    BY DEF Oldest
  <2>4. IsFiniteSet(G) /\ F \subseteq G
    <3>1. G \subseteq S
      OBVIOUS
    <3>. HIDE DEF F, G
    <3>. QED  BY <1>0, <2>2, <3>1, FS_Subset
  <2>5. Cardinality(F) <= Cardinality(G) /\ Cardinality(F) \in Nat /\ Cardinality(G) \in Nat
    <3>. HIDE DEF F, G
    <3>. QED  BY <2>4, FS_Subset, FS_CardinalityType
  <2>6. Cardinality(F) < Page
    BY <2>3, <2>5, HistoryAssumption
  <2>. QED  BY <2>6 DEF Oldest
<1>4. ASSUME Cardinality(Oldest(S)) < Page, Oldest(S) # S
      PROVE  FALSE
  <2>. DEFINE B == S \ Oldest(S)
  <2>1. B # {} /\ B \subseteq Nat
    BY <1>0, <1>1, <1>4
  <2>2. PICK m \in B : \A n \in B : m <= n
    <3>. HIDE DEF B
    <3>. QED  BY <2>1, SmallestNumber
  <2>. DEFINE F == {h \in S : h < m}
  <2>3. F \subseteq Oldest(S)
    <3>. SUFFICES ASSUME NEW h \in F, h \notin Oldest(S) PROVE FALSE
      OBVIOUS
    <3>1. h \in B /\ h \in Nat /\ m \in Nat /\ h < m
      BY <1>0, <2>1, <2>2
    <3>2. m <= h
      BY <2>2, <3>1
    <3>. QED  BY <3>1, <3>2
  <2>4. Cardinality(F) <= Cardinality(Oldest(S)) /\ Cardinality(F) \in Nat
    <3>. HIDE DEF F
    <3>. QED  BY <1>2, <2>3, FS_Subset, FS_CardinalityType
  <2>5. Cardinality(F) < Page
    BY <1>2, <1>4, <2>4, HistoryAssumption
  <2>6. m \in Oldest(S)
    BY <2>2, <2>5 DEF Oldest
  <2>. QED  BY <2>2, <2>6
<1>. QED  BY <1>1, <1>2, <1>3, <1>4

(* The page of the newest skips none either.                               *)
LEMMA NewestPage ==
    ASSUME FillsKnown
    PROVE  /\ Newest(executed) \subseteq executed
           /\ (executed # {} => Newest(executed) # {})
           /\ \A f \in executed, g \in Newest(executed) : g < f => f \in Newest(executed)
<1>0. IsFiniteSet(executed) /\ executed \subseteq Nat
  BY DEF FillsKnown
<1>1. Newest(executed) \subseteq executed
  BY DEF Newest
<1>2. ASSUME executed # {} PROVE Newest(executed) # {}
  <2>. DEFINE m == Max(executed)
  <2>1. m \in executed /\ \A y \in executed : y <= m
    BY <1>2, Extremes
  <2>. HIDE DEF m
  <2>2. {g \in executed : g > m} = {}
    <3>. SUFFICES ASSUME NEW g \in executed, g > m PROVE FALSE
      OBVIOUS
    <3>1. g \in Nat /\ m \in Nat /\ g <= m
      BY <1>0, <2>1
    <3>. QED  BY <3>1
  <2>3. Cardinality({g \in executed : g > m}) < Page
    BY <2>2, FS_EmptySet, HistoryAssumption
  <2>. QED  BY <2>1, <2>3 DEF Newest
<1>3. ASSUME NEW f \in executed, NEW g \in Newest(executed), g < f
      PROVE  f \in Newest(executed)
  <2>. DEFINE F == {h \in executed : h > f}
              G == {h \in executed : h > g}
  <2>1. f \in Nat /\ g \in Nat
    BY <1>0, <1>1
  <2>2. F \subseteq G
    <3>. SUFFICES ASSUME NEW h \in F PROVE h \in G
      OBVIOUS
    <3>1. h \in Nat
      BY <1>0
    <3>. QED  BY <1>3, <2>1, <3>1
  <2>3. Cardinality(G) < Page
    BY DEF Newest
  <2>4. IsFiniteSet(G)
    <3>1. G \subseteq executed
      OBVIOUS
    <3>. HIDE DEF G
    <3>. QED  BY <1>0, <3>1, FS_Subset
  <2>5. Cardinality(F) <= Cardinality(G) /\ Cardinality(F) \in Nat /\ Cardinality(G) \in Nat
    <3>. HIDE DEF F, G
    <3>. QED  BY <2>2, <2>4, FS_Subset, FS_CardinalityType
  <2>6. Cardinality(F) < Page
    BY <2>3, <2>5, HistoryAssumption
  <2>. QED  BY <2>6 DEF Newest
<1>. QED  BY <1>1, <1>2, <1>3

(* No page is filled by the fills of one time, but by all of them.         *)
LEMMA FullPage ==
    ASSUME FillsKnown, NEW page, page \subseteq executed, ~(Cardinality(page) < Page)
    PROVE  /\ page # {}
           /\ \A t \in Nat : (\A f \in page : TimeOf(f) = t) =>
                \A f \in executed : TimeOf(f) = t => f \in page
<1>1. IsFiniteSet(page) /\ page \subseteq Nat /\ executed \subseteq Nat
  BY FS_Subset DEF FillsKnown
<1>2. Cardinality(page) \in Nat /\ Cardinality(page) >= 2
  BY <1>1, FS_CardinalityType, HistoryAssumption
<1>3. page # {}
  BY <1>2, FS_EmptySet
<1>4. ASSUME NEW t \in Nat, \A f \in page : TimeOf(f) = t, NEW e \in executed, TimeOf(e) = t, e \notin page
      PROVE  FALSE
  <2>. DEFINE o == IF e = 2 * t THEN 2 * t + 1 ELSE 2 * t
  <2>1. page \subseteq {o}
    BY <1>1, <1>4, TimeIs
  <2>2. IsFiniteSet({o}) /\ Cardinality({o}) = 1
    BY FS_Singleton
  <2>3. Cardinality(page) <= 1
    <3>. HIDE DEF o
    <3>. QED  BY <2>1, <2>2, FS_Subset
  <2>. QED  BY <1>2, <2>3
<1>. QED  BY <1>3, <1>4

(* What a read forward has after some pages, and when it is complete: all  *)
(* that was before its end, and the first fill of that time.               *)
Reads == [next : Int, rows : SUBSET executed, whole : BOOLEAN, left : Int]

ReadSound(r, from, to) ==
    /\ r \in Reads /\ r.rows \subseteq Between(executed, from, to) /\ r.next >= from
    /\ r.whole => \A f \in Between(executed, from, to) : TimeOf(f) < to \/ f = 2 * to => f \in r.rows
    /\ ~r.whole =>
          /\ \A f \in Between(executed, from, to) : TimeOf(f) < r.next => f \in r.rows
          /\ \A g \in r.rows : TimeOf(g) <= r.next
          /\ \A f \in Between(executed, from, to), g \in r.rows : f < g => f \in r.rows

LEMMA BetweenIs ==
    ASSUME FillsKnown, NEW S, S \subseteq executed, NEW from, NEW to
    PROVE  /\ Between(S, from, to) \subseteq S /\ Between(S, from, to) \subseteq executed
           /\ \A f \in S : f \in Nat /\ TimeOf(f) \in Nat /\ (f = 2 * TimeOf(f) \/ f = 2 * TimeOf(f) + 1)
           /\ \A f \in S : f \in Between(S, from, to) <=> from <= TimeOf(f) /\ TimeOf(f) <= to
BY TimeIs DEF Between, FillsKnown

LEMMA PageSound ==
    ASSUME FillsKnown, NEW from \in Int, NEW to \in Int, NEW r, ReadSound(r, from, to)
    PROVE  /\ ReadSound(NextPage(r, to), from, to)
           /\ ~NextPage(r, to).whole => NextPage(r, to).left = r.left - 1 /\ NextPage(r, to).rows # {}
<1>. DEFINE all == Between(executed, from, to)
            rest == Between(executed, r.next, to)
            page == Oldest(rest)
            ends == Cardinality(page) < Page \/ LastTime(page) >= to
            whole == [r EXCEPT !.rows = r.rows \cup page, !.left = r.left - 1, !.whole = TRUE]
            more == [r EXCEPT !.rows = r.rows \cup page, !.left = r.left - 1,
                              !.next = Greatest(LastTime(page), r.next + 1)]
<1>1. r \in Reads /\ r.next \in Int /\ r.left \in Int /\ r.rows \subseteq all /\ r.next >= from
  BY DEF ReadSound, Reads
<1>2. NextPage(r, to) = IF r.whole THEN r ELSE IF ends THEN whole ELSE more
  BY DEF NextPage
<1>3. CASE r.whole
  BY <1>2, <1>3
<1>4. /\ all \subseteq executed /\ rest \subseteq all /\ page \subseteq rest
      /\ \A f \in executed : f \in Nat /\ TimeOf(f) \in Nat /\ (f = 2 * TimeOf(f) \/ f = 2 * TimeOf(f) + 1)
      /\ \A f \in executed : f \in all <=> from <= TimeOf(f) /\ TimeOf(f) <= to
      /\ \A f \in executed : f \in rest <=> r.next <= TimeOf(f) /\ TimeOf(f) <= to
      /\ \A f \in rest, g \in page : f < g => f \in page
      /\ (Cardinality(page) < Page => page = rest)
  <2>1. /\ all \subseteq executed /\ rest \subseteq executed
        /\ \A f \in executed : f \in Nat /\ TimeOf(f) \in Nat /\ (f = 2 * TimeOf(f) \/ f = 2 * TimeOf(f) + 1)
        /\ \A f \in executed : f \in all <=> from <= TimeOf(f) /\ TimeOf(f) <= to
        /\ \A f \in executed : f \in rest <=> r.next <= TimeOf(f) /\ TimeOf(f) <= to
    BY BetweenIs
  <2>2. rest \subseteq all
    <3>. HIDE DEF all, rest
    <3>. QED  BY <1>1, <2>1
  <2>3. page \subseteq rest /\ (\A f \in rest, g \in page : f < g => f \in page)
        /\ (Cardinality(page) < Page => page = rest)
    <3>. HIDE DEF rest
    <3>. QED  BY <2>1, OldestPage
  <2>. HIDE DEF all, rest, page
  <2>. QED  BY <2>1, <2>2, <2>3
<1>5. ~r.whole =>
          /\ \A f \in all : TimeOf(f) < r.next => f \in r.rows
          /\ \A g \in r.rows : TimeOf(g) <= r.next
          /\ \A f \in all, g \in r.rows : f < g => f \in r.rows
  BY DEF ReadSound
<1>6. CASE ~r.whole /\ ends
  <2>1. /\ NextPage(r, to) = whole /\ whole \in Reads /\ whole.rows = r.rows \cup page
        /\ whole.rows \subseteq all /\ whole.next = r.next /\ whole.whole
    <3>1. page \subseteq executed /\ page \subseteq all
      BY <1>4
    <3>2. NextPage(r, to) = whole
      BY <1>2, <1>6
    <3>3. r.rows \cup page \subseteq all /\ r.rows \cup page \subseteq executed
      BY <1>1, <1>4
    <3>. HIDE DEF page, all
    <3>4. /\ whole \in Reads /\ whole.next = r.next /\ whole.rows = r.rows \cup page
          /\ whole.whole = TRUE
      <4>. DEFINE R == r.rows \cup page
                  L == r.left - 1
      <4>1. L \in Int /\ R \in SUBSET executed
        BY <1>1, <3>3
      <4>2. whole = [r EXCEPT !.rows = R, !.left = L, !.whole = TRUE]
        OBVIOUS
      <4>. HIDE DEF whole, R, L
      <4>3. whole \in Reads
        BY <1>1, <4>1, <4>2 DEF Reads
      <4>4. whole.next = r.next /\ whole.rows = R /\ whole.whole = TRUE
        BY <1>1, <4>2 DEF Reads
      <4>. QED  BY <4>3, <4>4 DEF R
    <3>. HIDE DEF whole
    <3>. QED  BY <3>2, <3>3, <3>4
  <2>2. ASSUME NEW f \in all, TimeOf(f) < to \/ f = 2 * to, f \notin r.rows
        PROVE  f \in page
    <3>1. ~(TimeOf(f) < r.next) /\ f \in executed /\ TimeOf(f) \in Nat
      BY <1>4, <1>5, <1>6, <2>2
    <3>2. f \in rest
      <4>. HIDE DEF all, rest
      <4>. QED  BY <1>1, <1>4, <2>2, <3>1
    <3>3. CASE Cardinality(page) < Page
      BY <1>4, <3>2, <3>3
    <3>4. CASE ~(Cardinality(page) < Page)
      <4>1. page # {} /\ LastTime(page) >= to
        BY <1>4, <1>6, <3>4, FullPage
      <4>2. PICK g \in page : TimeOf(g) = LastTime(page)
        BY <1>4, <4>1, TimesOf
      <4>3. g \in executed /\ g \in Nat /\ f \in Nat /\ TimeOf(g) >= to /\ TimeOf(f) <= to
            /\ (g = 2 * TimeOf(g) \/ g = 2 * TimeOf(g) + 1)
            /\ (f = 2 * TimeOf(f) \/ f = 2 * TimeOf(f) + 1)
            /\ TimeOf(g) \in Nat
        <5>. HIDE DEF all, rest, page
        <5>. QED  BY <1>4, <3>1, <4>1, <4>2
      <4>4. f <= g
        BY <2>2, <4>3, <3>1
      <4>. QED  BY <1>4, <3>2, <4>3, <4>4
    <3>. QED  BY <3>3, <3>4
  <2>. HIDE DEF page, all, whole
  <2>3. \A f \in all : TimeOf(f) < to \/ f = 2 * to => f \in whole.rows
    BY <2>1, <2>2
  <2>. QED  BY <1>1, <2>1, <2>3 DEF ReadSound, all
<1>7. CASE ~r.whole /\ ~ends
  <2>1. /\ page # {} /\ LastTime(page) \in Nat /\ LastTime(page) < to
        /\ \A f \in page : TimeOf(f) \in Nat /\ TimeOf(f) <= LastTime(page)
        /\ \E f \in page : TimeOf(f) = LastTime(page)
    <3>1. page \subseteq executed /\ page # {}
      BY <1>4, <1>7, FullPage
    <3>2. LastTime(page) \in Nat
      BY <3>1, TimesOf
    <3>. HIDE DEF page
    <3>. QED  BY <1>7, <3>1, <3>2, TimesOf
  <2>. DEFINE next == Greatest(LastTime(page), r.next + 1)
  <2>2. next \in Int /\ next >= r.next + 1 /\ next >= LastTime(page)
        /\ (next # LastTime(page) => next = r.next + 1 /\ LastTime(page) <= r.next)
    <3>. DEFINE last == LastTime(page)
    <3>0. last \in Nat
      BY <2>1
    <3>1. next = IF last < r.next + 1 THEN r.next + 1 ELSE last
      BY DEF Greatest
    <3>. HIDE DEF last, next
    <3>2. next \in Int /\ next >= r.next + 1 /\ next >= last
          /\ (next # last => next = r.next + 1 /\ last <= r.next)
      BY <1>1, <3>0, <3>1
    <3>. QED  BY <3>2 DEF last
  <2>3. /\ NextPage(r, to) = more /\ more \in Reads /\ more.rows = r.rows \cup page
        /\ more.rows \subseteq all /\ more.next = next /\ ~more.whole /\ more.left = r.left - 1
    <3>1. page \subseteq executed /\ page \subseteq all
      BY <1>4
    <3>2. NextPage(r, to) = more
      BY <1>2, <1>7
    <3>3. r.rows \cup page \subseteq all /\ r.rows \cup page \subseteq executed
      BY <1>1, <1>4
    <3>. HIDE DEF page, all
    <3>4. /\ more \in Reads /\ more.next = next /\ more.rows = r.rows \cup page
          /\ more.whole = r.whole /\ more.left = r.left - 1
      <4>. DEFINE R == r.rows \cup page
                  L == r.left - 1
      <4>1. L \in Int /\ R \in SUBSET executed /\ next \in Int
        BY <1>1, <2>2, <3>3
      <4>2. more = [r EXCEPT !.rows = R, !.left = L, !.next = next]
        OBVIOUS
      <4>. HIDE DEF more, next, R, L
      <4>3. more \in Reads
        BY <1>1, <4>1, <4>2 DEF Reads
      <4>4. more.next = next /\ more.rows = R /\ more.whole = r.whole /\ more.left = L
        BY <1>1, <4>2 DEF Reads
      <4>. QED  BY <4>3, <4>4 DEF R, L
    <3>. HIDE DEF more, next
    <3>. QED  BY <1>7, <3>2, <3>3, <3>4
  <2>4. ASSUME NEW f \in all, TimeOf(f) < next, f \notin r.rows
        PROVE  f \in page
    <3>1. ~(TimeOf(f) < r.next) /\ f \in executed /\ TimeOf(f) \in Nat
      BY <1>4, <1>5, <1>7, <2>4
    <3>2. f \in rest
      <4>. HIDE DEF all, rest
      <4>. QED  BY <1>1, <1>4, <2>4, <3>1
    <3>3. CASE TimeOf(f) < LastTime(page)
      <4>1. PICK g \in page : TimeOf(g) = LastTime(page)
        BY <2>1
      <4>2. g \in Nat /\ f \in Nat /\ TimeOf(f) < TimeOf(g)
        BY <1>4, <3>1, <3>3, <4>1
      <4>3. f < g
        BY <4>2, TimeOrder
      <4>. QED  BY <1>4, <3>2, <4>3
    <3>4. CASE ~(TimeOf(f) < LastTime(page))
      <4>. DEFINE t == TimeOf(f)
      <4>1. t = r.next /\ LastTime(page) <= r.next /\ t \in Nat
        <5>. DEFINE last == LastTime(page)
        <5>1. last \in Nat
          BY <2>1
        <5>. HIDE DEF last, next
        <5>. QED  BY <1>1, <2>2, <2>4, <3>1, <3>4
      <4>2. \A g \in page : TimeOf(g) = t
        <5>. SUFFICES ASSUME NEW g \in page PROVE TimeOf(g) = t
          OBVIOUS
        <5>1. TimeOf(g) \in Nat /\ TimeOf(g) <= LastTime(page)
          BY <2>1
        <5>2. r.next <= TimeOf(g)
          BY <1>4
        <5>3. LastTime(page) \in Nat
          BY <2>1
        <5>. HIDE DEF page, rest, t
        <5>. QED  BY <1>1, <4>1, <5>1, <5>2, <5>3
      <4>3. page \subseteq executed /\ ~(Cardinality(page) < Page)
        BY <1>4, <1>7
      <4>. HIDE DEF page, rest
      <4>. QED  BY <3>1, <4>1, <4>2, <4>3, FullPage
    <3>. QED  BY <3>3, <3>4
  <2>5. ASSUME NEW g \in r.rows \cup page PROVE TimeOf(g) <= next
    <3>1. g \in executed /\ TimeOf(g) \in Nat
      BY <1>1, <1>4
    <3>2. CASE g \in r.rows
      <4>1. TimeOf(g) <= r.next
        BY <1>5, <1>7, <3>2
      <4>. HIDE DEF next
      <4>. QED  BY <1>1, <2>2, <3>1, <4>1
    <3>3. CASE g \in page
      <4>1. TimeOf(g) <= LastTime(page) /\ LastTime(page) \in Nat
        BY <2>1, <3>3
      <4>. HIDE DEF next, page
      <4>. QED  BY <2>2, <3>1, <4>1
    <3>. HIDE DEF page
    <3>. QED  BY <3>2, <3>3
  <2>6. ASSUME NEW f \in all, NEW g \in r.rows \cup page, f < g PROVE f \in r.rows \cup page
    <3>1. CASE g \in r.rows
      BY <1>5, <1>7, <2>6, <3>1
    <3>2. CASE g \in page
      <4>1. CASE TimeOf(f) < r.next
        BY <1>5, <1>7, <4>1
      <4>2. CASE ~(TimeOf(f) < r.next)
        <5>1. f \in rest
          BY <1>1, <1>4, <4>2
        <5>. QED  BY <1>4, <2>6, <3>2, <5>1
      <4>. QED  BY <4>1, <4>2
    <3>. HIDE DEF page, all
    <3>. QED  BY <3>1, <3>2
  <2>. HIDE DEF page, all, more, next
  <2>7. more.next >= from
    BY <1>1, <2>2, <2>3
  <2>8. \A f \in all : TimeOf(f) < more.next => f \in more.rows
    BY <2>3, <2>4
  <2>9. \A g \in more.rows : TimeOf(g) <= more.next
    BY <2>3, <2>5
  <2>10. \A f \in all, g \in more.rows : f < g => f \in more.rows
    BY <2>3, <2>6
  <2>11. more.rows # {}
    BY <2>1, <2>3
  <2>. QED  BY <2>3, <2>7, <2>8, <2>9, <2>10, <2>11 DEF ReadSound, all
<1>. QED  BY <1>3, <1>6, <1>7

(* A read forward stops short only when its pages are used up.             *)
LEMMA ForwardSound ==
    ASSUME FillsKnown, NEW from \in Int, NEW to \in Int, NEW pages \in Nat
    PROVE  /\ ReadSound(Forward(from, to, pages), from, to)
           /\ ~Forward(from, to, pages).whole =>
                /\ Forward(from, to, pages).left = 0
                /\ pages # 0 => Forward(from, to, pages).rows # {}
<1>. DEFINE v == [next |-> from, rows |-> {}, whole |-> FALSE, left |-> pages]
            V == {r \in Reads : ReadSound(r, from, to)}
            rec(g) == [n \in 0 .. pages |-> IF n = 0 THEN v ELSE NextPage(g[n - 1], to)]
            s == CHOOSE g : g = rec(g)
            step == [r \in V |-> [n \in 1 .. pages |-> NextPage(r, to)]]
<1>1. ASSUME NEW r \in V PROVE NextPage(r, to) \in V
  <2>1. ReadSound(NextPage(r, to), from, to)
    BY PageSound
  <2>. QED  BY <2>1 DEF ReadSound
<1>2. v \in V
  <2>1. v \in Reads
    BY DEF Reads
  <2>2. v.rows = {} /\ v.next = from /\ ~v.whole
    OBVIOUS
  <2>. HIDE DEF v
  <2>3. ReadSound(v, from, to)
    <3>1. \A f \in Between(executed, from, to) : ~(TimeOf(f) < from)
      BY BetweenIs
    <3>. QED  BY <2>1, <2>2, <3>1 DEF ReadSound
  <2>. QED  BY <2>1, <2>3
<1>3. PICK g \in [0 .. pages -> V] : Steps(g, 0, pages, v, step)
  <2>1. step \in StepMaps(0, pages, V)
    BY <1>1 DEF StepMaps
  <2>. HIDE DEF step, v, V
  <2>. QED  BY <1>2, <2>1, StepsExist
<1>4. g = rec(g)
  <2>1. ASSUME NEW n \in 0 .. pages, n # 0
        PROVE  g[n] = NextPage(g[n - 1], to)
    <3>1. n - 1 \in 0 .. pages /\ n \in 1 .. pages
      BY <2>1
    <3>2. g[n - 1] \in V
      BY <3>1
    <3>3. g[n] = step[g[n - 1]][n]
      BY <1>3, <2>1 DEF Steps
    <3>. HIDE DEF V
    <3>. QED  BY <3>1, <3>2, <3>3
  <2>. HIDE DEF v, step, V
  <2>. QED  BY <1>3, <2>1 DEF Steps
<1>5. s = rec(s)
  <2>. HIDE DEF rec
  <2>. QED  BY <1>4
<1>6. Forward(from, to, pages) = s[pages]
  BY DEF Forward
<1>. HIDE DEF s
<1>. DEFINE Kept(n) == /\ s[n] \in V
                       /\ ~s[n].whole => s[n].left = pages - n /\ (n # 0 => s[n].rows # {})
            B == {n \in 0 .. pages : ~Kept(n)}
<1>7. \A n \in 1 .. pages : n \in B => n - 1 \in B
  <2>. SUFFICES ASSUME NEW n \in 1 .. pages, n - 1 \notin B PROVE Kept(n)
    OBVIOUS
  <2>1. n \in 0 .. pages /\ n - 1 \in 0 .. pages /\ n # 0
    OBVIOUS
  <2>2. s[n] = NextPage(s[n - 1], to)
    <3>. HIDE DEF v, B
    <3>. QED  BY <1>5, <2>1
  <2>3. Kept(n - 1)
    BY <2>1
  <2>. DEFINE r == s[n - 1]
  <2>4. r \in V /\ (~r.whole => r.left = pages - (n - 1)) /\ (r.whole => NextPage(r, to) = r)
    BY <2>3 DEF NextPage
  <2>5. s[n] = NextPage(r, to)
    BY <2>2
  <2>. HIDE DEF r, V
  <2>6. s[n] \in V
    BY <1>1, <2>4, <2>5
  <2>7. ~s[n].whole => s[n].left = r.left - 1 /\ s[n].rows # {}
    BY <2>4, <2>5, PageSound DEF V
  <2>8. ~s[n].whole => ~r.whole
    BY <2>4, <2>5
  <2>. QED  BY <2>4, <2>6, <2>7, <2>8
<1>8. 0 \notin B
  <2>1. s[0] = v
    BY <1>5
  <2>. HIDE DEF V
  <2>. QED  BY <1>2, <2>1
<1>9. B = {}
  <2>1. B \subseteq 0 .. pages
    OBVIOUS
  <2>2. 0 + 1 .. pages = 1 .. pages /\ 0 \in Nat
    OBVIOUS
  <2>. HIDE DEF B
  <2>3. \A n \in 0 + 1 .. pages : n \in B => n - 1 \in B
    BY <1>7, <2>2
  <2>. QED  BY <1>8, <2>1, <2>2, <2>3, NoneFails
<1>10. Kept(pages)
  BY <1>9
<1>. QED  BY <1>6, <1>10

(* The windows read back from the newest page: nothing is missing after    *)
(* the time they reach, and none of what was read before.                  *)
ReadRuns == [from : Int, rows : SUBSET executed, left : Int]

RunSound(run, rows, to) ==
    /\ run \in ReadRuns /\ run.from <= to /\ rows \subseteq run.rows
    /\ \A f \in executed :
         TimeOf(f) < to /\ (run.from < TimeOf(f) \/ f = 2 * run.from + 1) => f \in run.rows

LEMMA WindowSound ==
    ASSUME FillsKnown, NEW reached \in Int, NEW to \in Int, NEW span \in Nat,
           NEW rows, NEW run, RunSound(run, rows, to)
    PROVE  RunSound(NextWindow(run, reached, to, span), rows, to)
<1>. DEFINE below == Greatest(run.from - span, reached)
            read == Forward(below, run.from, run.left)
            longer == [from |-> below, rows |-> run.rows \cup read.rows, left |-> read.left]
            goes == /\ run.from > reached /\ run.left > 0
                    /\ Cardinality(Between(run.rows, run.from, to)) < Target
                    /\ read.whole
<1>1. NextWindow(run, reached, to, span) = IF goes THEN longer ELSE run
  BY DEF NextWindow
<1>2. CASE ~goes
  BY <1>1, <1>2
<1>3. CASE goes
  <2>1. run.from \in Int /\ run.left \in Nat /\ run.rows \subseteq executed /\ rows \subseteq run.rows
        /\ run.from <= to
    BY <1>3 DEF RunSound, ReadRuns
  <2>2. below \in Int /\ below <= run.from
    BY <1>3, <2>1 DEF Greatest
  <2>3. read.whole
    BY <1>3
  <2>4. NextWindow(run, reached, to, span) = longer
    BY <1>1, <1>3
  <2>. HIDE DEF below
  <2>5. ReadSound(read, below, run.from)
    BY <2>1, <2>2, ForwardSound
  <2>. HIDE DEF read
  <2>6. read.rows \subseteq executed /\ read.left \in Int
        /\ \A f \in Between(executed, below, run.from) :
             TimeOf(f) < run.from \/ f = 2 * run.from => f \in read.rows
    BY <2>3, <2>5 DEF ReadSound, Reads
  <2>7. longer \in ReadRuns /\ longer.from = below /\ longer.rows = run.rows \cup read.rows
    BY <2>1, <2>2, <2>6 DEF ReadRuns
  <2>8. ASSUME NEW f \in executed, TimeOf(f) < to, below < TimeOf(f) \/ f = 2 * below + 1,
               f \notin run.rows
        PROVE  f \in read.rows
    <3>1. f \in Nat /\ TimeOf(f) \in Nat /\ (f = 2 * TimeOf(f) \/ f = 2 * TimeOf(f) + 1)
      BY TimeIs DEF FillsKnown
    <3>2. ~(run.from < TimeOf(f) \/ f = 2 * run.from + 1)
      BY <2>8 DEF RunSound
    <3>3. below <= TimeOf(f)
      BY <2>2, <2>8, <3>1
    <3>4. TimeOf(f) <= run.from /\ (TimeOf(f) < run.from \/ f = 2 * run.from)
      BY <2>1, <3>1, <3>2
    <3>5. f \in Between(executed, below, run.from)
      BY <3>3, <3>4, BetweenIs
    <3>. QED  BY <2>6, <3>4, <3>5
  <2>. HIDE DEF longer
  <2>. QED  BY <2>1, <2>2, <2>4, <2>7, <2>8 DEF RunSound
<1>. QED  BY <1>2, <1>3

LEMMA BackSound ==
    ASSUME FillsKnown, NEW reached \in Int, NEW to \in Int, NEW span \in Nat,
           NEW rows, NEW newest, RunSound(newest, rows, to)
    PROVE  RunSound(Back(newest, reached, to, span), rows, to)
<1>. DEFINE V == {r \in ReadRuns : RunSound(r, rows, to)}
            rec(g) == [n \in 0 .. MaxPages |->
                          IF n = 0 THEN newest ELSE NextWindow(g[n - 1], reached, to, span)]
            s == CHOOSE g : g = rec(g)
            step == [r \in V |-> [n \in 1 .. MaxPages |-> NextWindow(r, reached, to, span)]]
<1>0. MaxPages \in Nat
  BY HistoryAssumption
<1>1. ASSUME NEW r \in V PROVE NextWindow(r, reached, to, span) \in V
  <2>1. RunSound(NextWindow(r, reached, to, span), rows, to)
    BY WindowSound
  <2>. QED  BY <2>1 DEF RunSound
<1>2. newest \in V
  BY DEF RunSound
<1>3. PICK g \in [0 .. MaxPages -> V] : Steps(g, 0, MaxPages, newest, step)
  <2>1. step \in StepMaps(0, MaxPages, V)
    BY <1>1 DEF StepMaps
  <2>. HIDE DEF step, V
  <2>. QED  BY <1>0, <1>2, <2>1, StepsExist
<1>4. g = rec(g)
  <2>1. ASSUME NEW n \in 0 .. MaxPages, n # 0
        PROVE  g[n] = NextWindow(g[n - 1], reached, to, span)
    <3>1. n - 1 \in 0 .. MaxPages /\ n \in 1 .. MaxPages
      BY <1>0, <2>1
    <3>2. g[n - 1] \in V
      BY <3>1
    <3>3. g[n] = step[g[n - 1]][n]
      BY <1>3, <2>1 DEF Steps
    <3>. HIDE DEF V
    <3>. QED  BY <3>1, <3>2, <3>3
  <2>. HIDE DEF step, V
  <2>. QED  BY <1>3, <2>1 DEF Steps
<1>5. s = rec(s)
  <2>. HIDE DEF rec
  <2>. QED  BY <1>4
<1>6. Back(newest, reached, to, span) = s[MaxPages]
  BY DEF Back
<1>. HIDE DEF s
<1>. DEFINE B == {n \in 0 .. MaxPages : s[n] \notin V}
<1>7. \A n \in 1 .. MaxPages : n \in B => n - 1 \in B
  <2>. SUFFICES ASSUME NEW n \in 1 .. MaxPages, n - 1 \notin B PROVE s[n] \in V
    OBVIOUS
  <2>1. n \in 0 .. MaxPages /\ n - 1 \in 0 .. MaxPages /\ n # 0
    BY <1>0
  <2>2. s[n] = NextWindow(s[n - 1], reached, to, span)
    <3>. HIDE DEF B
    <3>. QED  BY <1>5, <2>1
  <2>3. s[n - 1] \in V
    BY <2>1
  <2>. HIDE DEF V
  <2>. QED  BY <1>1, <2>2, <2>3
<1>8. 0 \notin B
  <2>1. s[0] = newest
    BY <1>0, <1>5
  <2>. HIDE DEF V
  <2>. QED  BY <1>2, <2>1
<1>9. B = {}
  <2>1. B \subseteq 0 .. MaxPages
    OBVIOUS
  <2>2. 0 + 1 .. MaxPages = 1 .. MaxPages /\ 0 \in Nat
    OBVIOUS
  <2>. HIDE DEF B
  <2>3. \A n \in 0 + 1 .. MaxPages : n \in B => n - 1 \in B
    BY <1>7, <2>2
  <2>. QED  BY <1>0, <1>8, <2>1, <2>2, <2>3, NoneFails
<1>10. s[MaxPages] \in V
  BY <1>0, <1>9
<1>. QED  BY <1>6, <1>10

(* What a window that was read for a start and an end vouches for: all     *)
(* that was between what it was read after and its own end.                *)
WindowKnown(w, from, to) ==
    /\ w.rows \subseteq executed /\ w.from \in Int /\ w.to \in Int /\ w.to <= to
    /\ to \in Nat => w.to \in Nat
    /\ \A f \in executed : ReadAfter(w, from) < TimeOf(f) /\ TimeOf(f) < w.to => f \in w.rows

LEMMA TrimmedSound ==
    ASSUME FillsKnown, NEW rows, rows \subseteq executed, NEW from \in Int, NEW start \in Int, from <= start,
           NEW to, NEW end \in Int, end <= to, to \in Nat => end \in Nat,
           \A f \in executed :
              (start < TimeOf(f) \/ (start = from /\ TimeOf(f) = from)) /\ TimeOf(f) < end => f \in rows
    PROVE  WindowKnown(Trimmed(rows, start, end), from, to)
<1>. DEFINE kept == Between(rows, start, end)
            newest == {f \in kept : Cardinality({g \in kept : g > f}) < Target}
            first == FirstTime(newest)
            whole == [rows |-> kept, from |-> start, to |-> end]
            cut == [rows |-> Between(kept, first, end), from |-> first, to |-> end]
            few == Cardinality(kept) <= Target
<1>1. Trimmed(rows, start, end) = IF few THEN whole ELSE cut
  BY DEF Trimmed
<1>2. /\ kept \subseteq executed
      /\ \A f \in rows : f \in kept <=> start <= TimeOf(f) /\ TimeOf(f) <= end
  BY BetweenIs
<1>3. \A f \in executed : TimeOf(f) \in Nat
  BY TimeIs DEF FillsKnown
<1>4. CASE few
  <2>1. Trimmed(rows, start, end) = whole /\ whole.rows = kept /\ whole.from = start /\ whole.to = end
    BY <1>1, <1>4
  <2>2. ASSUME NEW f \in executed, ReadAfter(whole, from) < TimeOf(f), TimeOf(f) < end
        PROVE  f \in kept
    <3>1. start < TimeOf(f) \/ (start = from /\ TimeOf(f) = from)
      BY <1>3, <2>1, <2>2 DEF ReadAfter
    <3>2. f \in rows /\ start <= TimeOf(f) /\ TimeOf(f) <= end
      BY <1>3, <2>2, <3>1
    <3>. QED  BY <1>2, <3>2
  <2>. HIDE DEF whole, kept
  <2>. QED  BY <1>2, <2>1, <2>2 DEF WindowKnown
<1>5. CASE ~few
  <2>1. kept # {}
    <3>. SUFFICES ASSUME kept = {} PROVE FALSE
      OBVIOUS
    <3>1. Cardinality(kept) = 0
      BY FS_EmptySet
    <3>. HIDE DEF kept
    <3>. QED  BY <1>5, <3>1, HistoryAssumption
  <2>2. newest \subseteq executed /\ newest \subseteq kept
    BY <1>2
  <2>3. newest # {}
    <3>. DEFINE m == Max(kept)
    <3>1. m \in kept /\ \A y \in kept : y <= m
      <4>. HIDE DEF kept
      <4>. QED  BY <1>2, <2>1, Extremes
    <3>. HIDE DEF m
    <3>2. {g \in kept : g > m} = {}
      <4>. SUFFICES ASSUME NEW g \in kept, g > m PROVE FALSE
        OBVIOUS
      <4>1. g \in Nat /\ m \in Nat /\ g <= m
        BY <1>2, <3>1 DEF FillsKnown
      <4>. QED  BY <4>1
    <3>3. Cardinality({g \in kept : g > m}) < Target
      BY <3>2, FS_EmptySet, HistoryAssumption
    <3>. QED  BY <3>1, <3>3
  <2>. HIDE DEF newest
  <2>4. first \in Nat /\ start <= first
    <3>1. first \in Nat /\ (\A f \in newest : TimeOf(f) \in Nat) /\ \E f \in newest : TimeOf(f) = first
      <4>1. Min(newest) \in newest
        BY <2>2, <2>3, Extremes
      <4>. QED  BY <2>2, <2>3, <4>1, TimesOf DEF FirstTime
    <3>2. \A f \in newest : start <= TimeOf(f)
      BY <2>2 DEF Between
    <3>. QED  BY <3>1, <3>2
  <2>5. Trimmed(rows, start, end) = cut /\ cut.from = first /\ cut.to = end
        /\ cut.rows \subseteq executed /\ cut.rows \subseteq kept
        /\ \A f \in kept : f \in cut.rows <=> first <= TimeOf(f) /\ TimeOf(f) <= end
    <3>1. Trimmed(rows, start, end) = cut /\ cut.from = first /\ cut.to = end
          /\ cut.rows = Between(kept, first, end)
      BY <1>1, <1>5
    <3>. HIDE DEF kept, first, cut
    <3>. QED  BY <1>2, <3>1, BetweenIs
  <2>. HIDE DEF cut, first
  <2>6. ASSUME NEW f \in executed, ReadAfter(cut, from) < TimeOf(f), TimeOf(f) < end
        PROVE  f \in cut.rows
    <3>1. first < TimeOf(f) \/ (first = from /\ TimeOf(f) = from)
      BY <1>3, <2>4, <2>5, <2>6 DEF ReadAfter
    <3>2. TimeOf(f) \in Nat /\ first <= TimeOf(f) /\ (start < TimeOf(f) \/ (start = from /\ TimeOf(f) = from))
      BY <1>3, <2>4, <3>1
    <3>3. f \in rows
      BY <2>6, <3>2
    <3>4. f \in kept
      BY <1>2, <2>6, <3>2, <3>3
    <3>. HIDE DEF kept
    <3>. QED  BY <2>5, <2>6, <3>2, <3>4
  <2>. HIDE DEF kept
  <2>. QED  BY <2>4, <2>5, <2>6 DEF WindowKnown
<1>. QED  BY <1>4, <1>5

(* read_fill_window vouches for what it returns, whichever way it reads.   *)
THEOREM ReadWindowSound ==
    ASSUME FillsKnown, NEW from \in Int, NEW to \in Int, NEW anchored, NEW span \in Nat
    PROVE  WindowKnown(ReadWindow(from, to, anchored, span), from, to)
<1>. DEFINE first == Forward(from, to, 1)
            reached == LastTime(first.rows)
            rest == Forward(reached, to, MaxPages - 1)
            rows == first.rows \cup rest.rows
            newest == Newest(executed)
            newestRun == [from |-> Least(Greatest(FirstTime(newest), from), to),
                          rows |-> first.rows \cup newest, left |-> MaxPages - 2]
            back == Back(newestRun, reached, to, span)
            end == IF rest.whole THEN to ELSE LastTime(rows)
            start == IF back.from <= reached THEN from ELSE back.from
<1>1. ReadWindow(from, to, anchored, span) =
        IF first.whole THEN Trimmed(first.rows, from, to)
        ELSE IF ~anchored \/ MaxPages = 1 THEN Trimmed(rows, from, end)
        ELSE Trimmed(back.rows, start, to)
  BY DEF ReadWindow
<1>2. MaxPages \in Nat /\ MaxPages - 1 \in Nat
  BY HistoryAssumption
<1>3. \A f \in executed : f \in Nat /\ TimeOf(f) \in Nat /\ (f = 2 * TimeOf(f) \/ f = 2 * TimeOf(f) + 1)
  BY TimeIs DEF FillsKnown
<1>4. ReadSound(first, from, to) /\ (~first.whole => first.rows # {})
  <2>1. 1 \in Nat
    OBVIOUS
  <2>. QED  BY <2>1, ForwardSound
<1>5. first.rows \subseteq executed /\ first.rows \subseteq Between(executed, from, to)
  BY <1>4 DEF ReadSound, Reads
<1>. HIDE DEF first
<1>6. CASE first.whole
  <2>1. ASSUME NEW f \in executed, from < TimeOf(f) \/ TimeOf(f) = from, TimeOf(f) < to
        PROVE  f \in first.rows
    <3>1. f \in Between(executed, from, to)
      BY <1>3, <2>1, BetweenIs
    <3>. QED  BY <1>4, <1>6, <2>1, <3>1 DEF ReadSound
  <2>2. WindowKnown(Trimmed(first.rows, from, to), from, to)
    BY <1>5, <2>1, TrimmedSound
  <2>. QED  BY <1>1, <1>6, <2>2
<1>7. ASSUME ~first.whole
      PROVE  /\ reached \in Nat /\ from <= reached /\ reached <= to
             /\ \A f \in executed : from <= TimeOf(f) /\ TimeOf(f) < reached => f \in first.rows
             /\ \A f \in executed : TimeOf(f) = reached /\ f = 2 * reached => f \in first.rows
  <2>1. first.rows # {}
    BY <1>4, <1>7
  <2>2. PICK g \in first.rows : TimeOf(g) = reached
    BY <1>5, <2>1, TimesOf
  <2>3. reached \in Nat /\ from <= reached /\ reached <= to /\ g \in executed
    <3>1. g \in executed /\ from <= TimeOf(g) /\ TimeOf(g) <= to
      BY <1>5, BetweenIs DEF Between
    <3>. QED  BY <1>3, <2>2, <3>1
  <2>. HIDE DEF reached
  <2>4. ASSUME NEW f \in executed, from <= TimeOf(f), TimeOf(f) < reached \/ f = 2 * reached, f \notin first.rows
        PROVE  FALSE
    <3>1. f \in Nat /\ g \in Nat /\ TimeOf(f) \in Nat /\ (f = 2 * TimeOf(f) \/ f = 2 * TimeOf(f) + 1)
          /\ (g = 2 * reached \/ g = 2 * reached + 1)
      BY <1>3, <2>2, <2>3
    <3>2. f # g /\ TimeOf(f) <= to
      BY <2>2, <2>3, <2>4, <3>1
    <3>3. f < g
      BY <2>3, <2>4, <3>1, <3>2
    <3>4. f \in Between(executed, from, to)
      BY <2>4, <3>2, BetweenIs
    <3>. QED  BY <1>4, <1>7, <2>2, <2>4, <3>3, <3>4 DEF ReadSound
  <2>. QED  BY <2>3, <2>4, <1>3
<1>. HIDE DEF reached
<1>8. CASE ~first.whole /\ (~anchored \/ MaxPages = 1)
  <2>1. reached \in Int /\ ReadSound(rest, reached, to)
    <3>1. reached \in Int
      BY <1>7, <1>8
    <3>. DEFINE pages == MaxPages - 1
    <3>2. pages \in Nat /\ rest = Forward(reached, to, pages)
      BY <1>2
    <3>. HIDE DEF rest, pages
    <3>. QED  BY <3>1, <3>2, ForwardSound
  <2>2. rest.rows \subseteq executed /\ rest.rows \subseteq Between(executed, reached, to)
    BY <2>1 DEF ReadSound, Reads
  <2>. HIDE DEF rest
  <2>3. rows \subseteq executed /\ rows # {} /\ \A g \in rows : TimeOf(g) <= to
    BY <1>4, <1>5, <1>8, <2>2 DEF Between
  <2>4. LastTime(rows) \in Nat /\ \E g \in rows : TimeOf(g) = LastTime(rows)
    <3>. HIDE DEF rows
    <3>. QED  BY <2>3, TimesOf
  <2>5. end \in Int /\ end <= to /\ (to \in Nat => end \in Nat)
    BY <2>3, <2>4
  <2>6. ASSUME NEW f \in executed, from < TimeOf(f) \/ TimeOf(f) = from, TimeOf(f) < end,
               f \notin first.rows
        PROVE  f \in rest.rows
    <3>1. f \in Nat /\ TimeOf(f) \in Nat /\ reached <= TimeOf(f) /\ TimeOf(f) < to
      <4>1. TimeOf(f) \in Nat /\ from <= TimeOf(f) /\ f \in Nat
        BY <1>3, <2>6
      <4>. HIDE DEF end
      <4>. QED  BY <1>7, <1>8, <2>5, <2>6, <4>1
    <3>2. f \in Between(executed, reached, to)
      BY <3>1, BetweenIs
    <3>3. CASE rest.whole
      BY <2>1, <3>1, <3>2, <3>3 DEF ReadSound
    <3>4. CASE ~rest.whole
      <4>1. PICK g \in rows : TimeOf(g) = end
        BY <2>4, <3>4
      <4>2. g \in executed /\ g \in Nat /\ TimeOf(f) < TimeOf(g)
        BY <1>3, <2>3, <2>6, <4>1
      <4>3. f < g
        BY <3>1, <4>2, TimeOrder
      <4>4. CASE g \in rest.rows
        BY <2>1, <3>2, <3>4, <4>3, <4>4 DEF ReadSound
      <4>5. CASE g \in first.rows
        <5>1. TimeOf(g) <= reached /\ TimeOf(g) \in Nat
          BY <1>5, <4>5, TimesOf DEF reached
        <5>. QED  BY <1>7, <1>8, <3>1, <4>2, <5>1
      <4>. QED  BY <4>1, <4>4, <4>5
    <3>. QED  BY <3>3, <3>4
  <2>7. \A f \in executed : (from < TimeOf(f) \/ TimeOf(f) = from) /\ TimeOf(f) < end => f \in rows
    <3>. HIDE DEF end
    <3>. QED  BY <2>6
  <2>. HIDE DEF end, rows
  <2>8. WindowKnown(Trimmed(rows, from, end), from, to)
    BY <2>3, <2>5, <2>7, TrimmedSound
  <2>. QED  BY <1>1, <1>8, <2>8
<1>9. CASE ~first.whole /\ ~(~anchored \/ MaxPages = 1)
  <2>1. newest # {} /\ newest \subseteq executed
        /\ \A f \in executed, g \in newest : g < f => f \in newest
    <3>1. executed # {}
      BY <1>4, <1>5, <1>9
    <3>. QED  BY <3>1, NewestPage
  <2>. HIDE DEF newest
  <2>2. FirstTime(newest) \in Nat /\ Min(newest) \in newest
    BY <2>1, TimesOf, Extremes
  <2>. DEFINE low == Least(Greatest(FirstTime(newest), from), to)
              m == FirstTime(newest)
  <2>3. low \in Int /\ low <= to /\ (low = to \/ (m <= low /\ (low = m \/ m < low)))
    <3>1. m \in Nat /\ low = Least(Greatest(m, from), to)
      BY <2>2
    <3>. HIDE DEF m, low
    <3>. QED  BY <3>1 DEF Least, Greatest
  <2>4. newestRun \in ReadRuns /\ newestRun.from = low /\ newestRun.rows = first.rows \cup newest
    <3>. DEFINE read == first.rows \cup newest
                left == MaxPages - 2
    <3>1. left \in Int /\ read \subseteq executed
      BY <1>2, <1>5, <2>1
    <3>2. newestRun = [from |-> low, rows |-> read, left |-> left]
      OBVIOUS
    <3>. HIDE DEF low, read, left, newestRun
    <3>3. newestRun \in ReadRuns /\ newestRun.from = low /\ newestRun.rows = read
      BY <2>3, <3>1, <3>2 DEF ReadRuns
    <3>. QED  BY <3>3 DEF read
  <2>5. ASSUME NEW f \in executed, TimeOf(f) < to, low < TimeOf(f) \/ f = 2 * low + 1
        PROVE  f \in newest
    <3>1. f \in Nat /\ TimeOf(f) \in Nat /\ (f = 2 * TimeOf(f) \/ f = 2 * TimeOf(f) + 1)
      BY <1>3
    <3>2. low <= TimeOf(f)
      <4>. HIDE DEF low
      <4>. QED  BY <2>3, <2>5, <3>1
    <3>3. low # to /\ m <= low /\ m \in Nat
      <4>1. m \in Nat
        BY <2>2
      <4>. HIDE DEF low, m
      <4>. QED  BY <2>3, <2>5, <3>1, <3>2, <4>1
    <3>. DEFINE g == Min(newest)
    <3>4. g \in newest /\ g \in Nat /\ (g = 2 * m \/ g = 2 * m + 1)
      BY <1>3, <2>1, <2>2 DEF FirstTime
    <3>. HIDE DEF g, m, low
    <3>5. g <= f
      BY <2>3, <2>5, <3>1, <3>2, <3>3, <3>4
    <3>6. g = f \/ g < f
      BY <3>1, <3>4, <3>5
    <3>. QED  BY <2>1, <3>4, <3>6
  <2>6. RunSound(newestRun, first.rows, to)
    <3>. HIDE DEF newestRun, low
    <3>. QED  BY <2>3, <2>4, <2>5 DEF RunSound
  <2>. HIDE DEF newestRun, low
  <2>7. reached \in Int /\ from <= reached
    BY <1>7, <1>9
  <2>8. RunSound(back, first.rows, to)
    BY <2>6, <2>7, BackSound
  <2>. HIDE DEF back
  <2>9. back.from \in Int /\ back.rows \subseteq executed /\ first.rows \subseteq back.rows
    BY <2>8 DEF RunSound, ReadRuns
  <2>10. start \in Int /\ from <= start /\ (back.from > reached => start = back.from /\ from # start)
    BY <2>7, <2>9
  <2>11. ASSUME NEW f \in executed, start < TimeOf(f) \/ (start = from /\ TimeOf(f) = from),
                TimeOf(f) < to, f \notin back.rows
         PROVE  FALSE
    <3>1. f \in Nat /\ TimeOf(f) \in Nat /\ (f = 2 * TimeOf(f) \/ f = 2 * TimeOf(f) + 1)
      BY <1>3
    <3>2. ~(back.from < TimeOf(f)) /\ f # 2 * back.from + 1
      BY <2>8, <2>11 DEF RunSound
    <3>3. start = from /\ from <= TimeOf(f) /\ back.from <= reached
      BY <2>7, <2>9, <2>10, <2>11, <3>1, <3>2
    <3>4. ~(TimeOf(f) < reached) /\ ~(TimeOf(f) = reached /\ f = 2 * reached)
      BY <1>7, <1>9, <2>9, <2>11, <3>3
    <3>. HIDE DEF start
    <3>. QED  BY <2>7, <2>9, <3>1, <3>2, <3>3, <3>4
  <2>. HIDE DEF start
  <2>12. WindowKnown(Trimmed(back.rows, start, to), from, to)
    BY <2>9, <2>10, <2>11, TrimmedSound
  <2>. QED  BY <1>1, <1>9, <2>12
<1>. QED  BY <1>6, <1>8, <1>9
----------------------------------------------------------------------------
(* What was traded was traded before now; so it is finite.                 *)
HistoryTypes ==
    /\ HistoryTypeOK
    /\ \A f \in executed : TimeOf(f) < time

LEMMA TypedKnown ==
    ASSUME HistoryTypes
    PROVE  FillsKnown
<1>1. MaxHistoryTime \in Nat
  BY HistoryAssumption
<1>2. WalletFills \subseteq Nat /\ IsFiniteSet(WalletFills)
  <2>1. 0 \in Int /\ 2 * MaxHistoryTime + 1 \in Int
    BY <1>1
  <2>. QED  BY <1>1, <2>1, FS_Interval DEF WalletFills
<1>3. executed \subseteq WalletFills /\ time \in Nat
  BY <1>1 DEF HistoryTypes, HistoryTypeOK
<1>. QED  BY <1>2, <1>3, FS_Subset DEF HistoryTypes, FillsKnown

LEMMA JoinedTyped ==
    ASSUME since \in Int, NEW after \in Int, NEW joins
    PROVE  Joined(after, joins) \in Int
BY DEF Joined, Least

LEMMA ImportTyped ==
    ASSUME HistoryTypes, NEW job \in Jobs
    PROVE  import[job] \in [from : Int, to : Int, now : Int, last : Int]
BY DEF HistoryTypes, HistoryTypeOK

LEMMA StartTyped ==
    ASSUME HistoryTypes, NEW job \in Jobs, NEW from \in Int, NEW to \in Int, Start(job, from, to)
    PROVE  import' \in [Jobs -> [from : Int, to : Int, now : Int, last : Int]]
<1>1. time \in Int /\ wallet.polled \in Int /\ None \in Int
  BY DEF HistoryTypes, HistoryTypeOK, None
<1>. DEFINE i == [from |-> from, to |-> to, now |-> time,
                  last |-> IF job = "pool" THEN wallet.polled ELSE None]
<1>2. i \in [from : Int, to : Int, now : Int, last : Int]
  BY <1>1
<1>3. import' = [import EXCEPT ![job] = i]
  BY DEF Start
<1>. HIDE DEF i
<1>. QED  BY <1>2, <1>3 DEF HistoryTypes, HistoryTypeOK

LEMMA Ended ==
    ASSUME HistoryTypes, NEW job \in Jobs
    PROVE  [import EXCEPT ![job] = NoImport] \in [Jobs -> [from : Int, to : Int, now : Int, last : Int]]
BY DEF HistoryTypes, HistoryTypeOK, NoImport, None

LEMMA FinishKnown ==
    ASSUME HistoryTypes, NEW job \in Jobs, NEW span \in Spans, NEW w,
           w = ReadWindow(import[job].from, import[job].to, import[job].to = import[job].now, span)
    PROVE  /\ WindowKnown(w, import[job].from, import[job].to)
           /\ w.rows \subseteq executed /\ w.to \in Int
           /\ ReadAfter(w, import[job].from) \in Int
           /\ PolledAt(import[job], w) \in Int
<1>. DEFINE i == import[job]
            anchored == i.to = i.now
<1>1. i.from \in Int /\ i.to \in Int /\ i.now \in Int
  BY ImportTyped
<1>2. FillsKnown /\ span \in Nat
  BY TypedKnown, HistoryAssumption
<1>3. w = ReadWindow(i.from, i.to, anchored, span)
  OBVIOUS
<1>. HIDE DEF i, anchored
<1>4. WindowKnown(w, i.from, i.to)
  BY <1>1, <1>2, <1>3, ReadWindowSound
<1>5. w.rows \subseteq executed /\ w.to \in Int /\ ReadAfter(w, i.from) \in Int /\ PolledAt(i, w) \in Int
  BY <1>1, <1>4 DEF WindowKnown, ReadAfter, PolledAt
<1>. QED  BY <1>4, <1>5 DEF i

LEMMA NewestTyped ==
    ASSUME HistoryTypes, Newest(executed) # {}
    PROVE  Newest(executed) \subseteq executed /\ FirstTime(Newest(executed)) \in Int
<1>1. FillsKnown
  BY TypedKnown
<1>2. Newest(executed) \subseteq executed
  BY <1>1, NewestPage
<1>. HIDE DEF Newest
<1>3. FirstTime(Newest(executed)) \in Nat
  BY <1>1, <1>2, TimesOf
<1>. QED  BY <1>2, <1>3

LEMMA RepairTyped ==
    ASSUME HistoryTypes, NEW f \in stored, Repair(f)
    PROVE  stored' \subseteq executed /\ stored \subseteq stored'
<1>. DEFINE later == {g \in stored : TimeOf(g) > TimeOf(f)}
<1>1. FillsKnown /\ stored \subseteq executed
  BY TypedKnown DEF HistoryTypes, HistoryTypeOK
<1>2. TimeOf(f) \in Int
  BY <1>1, TimeIs DEF FillsKnown
<1>3. GapEnd(f) \in Int
  <2>1. GapEnd(f) = IF later # {} THEN FirstTime(later) ELSE wallet.polled
    BY DEF GapEnd
  <2>2. wallet.polled \in Int /\ later \subseteq executed
    BY <1>1 DEF HistoryTypes, HistoryTypeOK
  <2>. HIDE DEF later
  <2>3. later # {} => FirstTime(later) \in Nat
    BY <1>1, <2>2, TimesOf
  <2>. QED  BY <2>1, <2>2, <2>3
<1>. DEFINE from == TimeOf(f)
            read == Forward(from, GapEnd(f), MaxPages)
<1>4. MaxPages \in Nat /\ from \in Int
  BY <1>2, HistoryAssumption
<1>5. stored' = stored \cup read.rows
  BY DEF Repair
<1>6. ReadSound(read, from, GapEnd(f))
  <2>. HIDE DEF from
  <2>. QED  BY <1>1, <1>3, <1>4, ForwardSound
<1>. HIDE DEF read
<1>7. read.rows \subseteq executed
  BY <1>6 DEF ReadSound, Reads
<1>. QED  BY <1>1, <1>5, <1>7

LEMMA TickKnown ==
    ASSUME HistoryTypes, HistoryTick
    PROVE  /\ time' = time + 1 /\ time \in Nat /\ time' \in 0 .. MaxHistoryTime
           /\ executed' \subseteq WalletFills /\ executed \subseteq executed'
           /\ \A f \in executed' : TimeOf(f) < time' /\ (TimeOf(f) < time => f \in executed)
<1>1. time \in Nat /\ time < MaxHistoryTime /\ MaxHistoryTime \in Nat
      /\ executed \subseteq WalletFills /\ time' = time + 1
      /\ \A f \in executed : TimeOf(f) < time
  BY HistoryAssumption DEF HistoryTypes, HistoryTypeOK, HistoryTick
<1>2. PICK n \in Bursts : executed' = executed \cup {2 * time + k : k \in 0 .. (n - 1)}
  BY DEF HistoryTick
<1>3. n \in 0 .. 2
  BY HistoryAssumption
<1>4. ASSUME NEW f \in executed', f \notin executed
      PROVE  f \in WalletFills /\ TimeOf(f) = time
  <2>1. PICK k \in 0 .. (n - 1) : f = 2 * time + k
    BY <1>2, <1>4
  <2>2. k \in 0 .. 1
    BY <1>3
  <2>3. f \in Nat /\ (f = 2 * time \/ f = 2 * time + 1)
    BY <1>1, <2>1, <2>2
  <2>4. TimeOf(f) \in Nat /\ (f = 2 * TimeOf(f) \/ f = 2 * TimeOf(f) + 1)
    BY <2>3, TimeIs
  <2>. QED  BY <1>1, <2>3, <2>4 DEF WalletFills
<1>5. ASSUME NEW f \in executed'
      PROVE  f \in WalletFills /\ TimeOf(f) < time' /\ (TimeOf(f) < time => f \in executed)
  <2>1. CASE f \in executed
    <3>1. f \in Nat
      BY <1>1, <2>1 DEF WalletFills
    <3>2. TimeOf(f) \in Nat
      BY <3>1, TimeIs
    <3>. QED  BY <1>1, <2>1, <3>2
  <2>2. CASE f \notin executed
    BY <1>1, <1>4, <2>2
  <2>. QED  BY <2>1, <2>2
<1>. QED  BY <1>1, <1>2, <1>5

LEMMA InPoolKnown ==
    ASSUME wallet \in [exists : BOOLEAN, enabled : BOOLEAN, polled : Int], NEW w \in InPool
    PROVE  /\ w \in [exists : BOOLEAN, enabled : BOOLEAN, polled : Int]
           /\ w.exists /\ w.polled = wallet.polled
<1>1. PICK back \in BOOLEAN : w = [wallet EXCEPT !.exists = TRUE, !.enabled = wallet.enabled \/ back]
  BY Zenon DEF InPool
<1>. DEFINE on == wallet.enabled \/ back
<1>2. on \in BOOLEAN
  BY Zenon
<1>3. w = [wallet EXCEPT !.exists = TRUE, !.enabled = on]
  BY <1>1
<1>. HIDE DEF on
<1>. QED  BY <1>2, <1>3

LEMMA TypedStep == HistoryTypes /\ [HistoryNext]_historyVars => HistoryTypes'
<1>. SUFFICES ASSUME HistoryTypes, [HistoryNext]_historyVars PROVE HistoryTypes'
  OBVIOUS
<1>. USE DEF HistoryTypes
<1>0. /\ time \in 0 .. MaxHistoryTime /\ executed \subseteq WalletFills /\ stored \subseteq executed
      /\ wallet \in [exists : BOOLEAN, enabled : BOOLEAN, polled : Int]
      /\ since \in Int /\ sweeping \in BOOLEAN /\ swept \in BOOLEAN
      /\ candidate \in [status : {"none", "accepted", "running", "fetched", "decided"},
                        from : Int, upto : Int]
      /\ import \in [Jobs -> [from : Int, to : Int, now : Int, last : Int]]
      /\ None \in Int /\ time \in Int /\ Window \in Int /\ Overlap \in Int /\ MaxHistoryTime \in Nat
  BY HistoryAssumption DEF HistoryTypeOK, None
<1>1. CASE HistoryTick
  <2>1. UNCHANGED <<stored, wallet, since, candidate, import, sweeping, swept>>
    BY <1>1 DEF HistoryTick
  <2>. QED  BY <1>0, <1>1, <2>1, TickKnown DEF HistoryTypeOK
<1>2. ASSUME NEW job \in Jobs, NEW from \in Int, NEW to \in Int, Start(job, from, to),
             candidate' \in {candidate, [candidate EXCEPT !.status = "running"]}
      PROVE  HistoryTypes'
  <2>1. import' \in [Jobs -> [from : Int, to : Int, now : Int, last : Int]]
    BY <1>2, StartTyped
  <2>2. candidate' \in [status : {"none", "accepted", "running", "fetched", "decided"},
                        from : Int, upto : Int]
    BY <1>0, <1>2
  <2>3. UNCHANGED <<time, executed, stored, wallet, since, sweeping, swept>>
    BY <1>2 DEF Start
  <2>. QED  BY <1>0, <2>1, <2>2, <2>3 DEF HistoryTypeOK
<1>3. CASE StartPoolImport
  <2>1. PollFrom \in Int /\ "pool" \in Jobs
    BY <1>0 DEF PollFrom, Jobs
  <2>. QED  BY <1>0, <1>2, <1>3, <2>1 DEF StartPoolImport
<1>4. ASSUME NEW days \in Days, NEW ago \in Ends, StartOperatorImport(days, ago) PROVE HistoryTypes'
  <2>1. time - days \in Int /\ time - ago \in Int /\ "operator" \in Jobs
    BY <1>0, HistoryAssumption DEF Jobs
  <2>. QED  BY <1>2, <1>4, <2>1 DEF StartOperatorImport
<1>5. CASE StartBackfill
  <2>1. time - Window \in Int /\ "backfill" \in Jobs
    BY <1>0 DEF Jobs
  <2>. QED  BY <1>0, <1>2, <1>5, <2>1 DEF StartBackfill
<1>6. ASSUME NEW job \in Jobs, Abort(job), candidate' \in {candidate, Accepted} PROVE HistoryTypes'
  <2>1. import' \in [Jobs -> [from : Int, to : Int, now : Int, last : Int]]
    BY <1>6, Ended DEF Abort
  <2>2. candidate' \in [status : {"none", "accepted", "running", "fetched", "decided"},
                        from : Int, upto : Int]
    BY <1>0, <1>6 DEF Accepted, NoCandidate
  <2>. QED  BY <1>0, <1>6, <2>1, <2>2 DEF Abort, HistoryTypeOK
<1>7. CASE \E job \in {"pool", "operator"} : AbortImport(job)
  BY <1>6, <1>7 DEF AbortImport, Jobs
<1>8. CASE AbortBackfill
  BY <1>6, <1>8 DEF AbortBackfill, Jobs
<1>9. ASSUME NEW job \in Jobs, NEW span \in Spans, Finish(job, span) PROVE HistoryTypes'
  <2>. DEFINE i == import[job]
              w == ReadWindow(i.from, i.to, i.to = i.now, span)
              after == ReadAfter(w, i.from)
              joins == IF job = "pool" /\ wallet.polled = i.last THEN w.from = i.from
                       ELSE Overlaps(after, PolledAt(i, w))
  <2>1. w.rows \subseteq executed /\ w.to \in Int /\ after \in Int /\ PolledAt(i, w) \in Int
    BY FinishKnown
  <2>2. import' \in [Jobs -> [from : Int, to : Int, now : Int, last : Int]]
    BY <1>9, Ended DEF Finish
  <2>3. /\ stored' = stored \cup w.rows /\ UNCHANGED <<time, executed, sweeping, swept>>
        /\ job = "backfill" => /\ candidate' = [status |-> "fetched", from |-> after, upto |-> w.to]
                               /\ UNCHANGED <<wallet, since>>
        /\ job # "backfill" => /\ wallet' = [wallet EXCEPT !.polled = PolledAt(i, w)]
                               /\ since' = Joined(after, joins)
                               /\ UNCHANGED candidate
    BY <1>9 DEF Finish
  <2>4. Joined(after, joins) \in Int
    <3>. HIDE DEF joins, after
    <3>. QED  BY <1>0, <2>1, JoinedTyped
  <2>. HIDE DEF w, i, after, joins
  <2>5. stored' \subseteq executed
    BY <1>0, <2>1, <2>3
  <2>6. candidate' \in [status : {"none", "accepted", "running", "fetched", "decided"},
                        from : Int, upto : Int]
    BY <1>0, <2>1, <2>3
  <2>7. wallet' \in [exists : BOOLEAN, enabled : BOOLEAN, polled : Int] /\ since' \in Int
    BY <1>0, <2>1, <2>3, <2>4
  <2>. QED  BY <1>0, <2>2, <2>3, <2>5, <2>6, <2>7 DEF HistoryTypeOK
<1>10. CASE ReceiveFills
  <2>. DEFINE page == Newest(executed)
              after == IF page = executed THEN None ELSE FirstTime(page)
              joins == Overlaps(after, time)
  <2>1. /\ page # {} /\ stored' = stored \cup page /\ UNCHANGED <<time, executed, candidate, import, sweeping, swept>>
        /\ wallet.exists => wallet' = [wallet EXCEPT !.polled = time] /\ since' = Joined(after, joins)
        /\ ~wallet.exists => UNCHANGED <<wallet, since>>
    BY <1>10 DEF ReceiveFills
  <2>2. page \subseteq executed /\ after \in Int
    BY <1>0, <2>1, NewestTyped
  <2>. HIDE DEF page, after, joins
  <2>3. Joined(after, joins) \in Int
    BY <1>0, <2>2, JoinedTyped
  <2>4. wallet' \in [exists : BOOLEAN, enabled : BOOLEAN, polled : Int] /\ since' \in Int
    BY <1>0, <2>1, <2>3
  <2>. QED  BY <1>0, <2>1, <2>2, <2>4 DEF HistoryTypeOK
<1>11. CASE Discover
  <2>1. import' \in [Jobs -> [from : Int, to : Int, now : Int, last : Int]]
    BY <1>11, Ended DEF Discover, Jobs
  <2>. QED  BY <1>0, <1>11, <2>1 DEF Discover, Accepted, NoCandidate, HistoryTypeOK
<1>12. \A w \in InPool : w \in [exists : BOOLEAN, enabled : BOOLEAN, polled : Int]
  BY <1>0, InPoolKnown
<1>13. CASE Promote
  <2>1. PICK w \in InPool : wallet' = [w EXCEPT !.polled = Greatest(@, candidate.upto)]
    BY <1>13 DEF Promote
  <2>2. wallet' \in [exists : BOOLEAN, enabled : BOOLEAN, polled : Int]
    BY <1>0, <1>12, <2>1 DEF Greatest
  <2>3. since' \in Int
    <3>1. candidate.from \in Int
      BY <1>0
    <3>2. Joined(candidate.from, Overlaps(candidate.from, candidate.upto)) \in Int
      BY <1>0, <3>1, JoinedTyped
    <3>. QED  BY <1>0, <1>13, <3>2 DEF Promote
  <2>. QED  BY <1>0, <1>13, <2>2, <2>3 DEF Promote, Decided, NoCandidate, HistoryTypeOK
<1>14. CASE PromoteUnfetched
  BY <1>0, <1>12, <1>14 DEF PromoteUnfetched, Decided, NoCandidate, HistoryTypeOK
<1>15. CASE Reject
  <2>1. import' \in [Jobs -> [from : Int, to : Int, now : Int, last : Int]]
    BY <1>15, Ended DEF Reject, Jobs
  <2>. QED  BY <1>0, <1>15, <2>1 DEF Reject, Decided, NoCandidate, HistoryTypeOK
<1>16. CASE Create
  BY <1>0, <1>16 DEF Create, NewWallet, NoWallet, HistoryTypeOK
<1>17. CASE DeleteWalletRows
  <2>1. import' \in [Jobs -> [from : Int, to : Int, now : Int, last : Int]]
    BY <1>0, <1>17 DEF DeleteWalletRows, NoImport
  <2>. QED  BY <1>0, <1>17, <2>1 DEF DeleteWalletRows, NoWallet, HistoryTypeOK
<1>18. ASSUME NEW on \in BOOLEAN, Enable(on) PROVE HistoryTypes'
  BY <1>0, <1>18 DEF Enable, HistoryTypeOK
<1>19. CASE SelectOrphan
  BY <1>0, <1>19 DEF SelectOrphan, HistoryTypeOK
<1>20. CASE DeleteOrphan
  BY <1>0, <1>20 DEF DeleteOrphan, HistoryTypeOK
<1>21. CASE Retain
  <2>1. stored' \subseteq stored
    BY <1>21 DEF Retain
  <2>. QED  BY <1>0, <1>21, <2>1 DEF Retain, HistoryTypeOK
<1>22. ASSUME NEW f \in stored, Repair(f) PROVE HistoryTypes'
  <2>1. stored' \subseteq executed
    BY <1>22, RepairTyped
  <2>. QED  BY <1>0, <1>22, <2>1 DEF Repair, HistoryTypeOK
<1>23. CASE UNCHANGED historyVars
  BY <1>0, <1>23 DEF historyVars, HistoryTypeOK
<1>. QED
  BY <1>1, <1>3, <1>4, <1>5, <1>7, <1>8, <1>9, <1>10, <1>11, <1>13, <1>14, <1>15, <1>16, <1>17,
     <1>18, <1>19, <1>20, <1>21, <1>22, <1>23 DEF HistoryNext
----------------------------------------------------------------------------
(* Nothing that was traded after a time and before another is missing, of  *)
(* what retention keeps.                                                   *)
Covered(after, upto) ==
    \A f \in executed :
        after < TimeOf(f) /\ TimeOf(f) < upto /\ time - RetentionAge <= TimeOf(f) => f \in stored

(* What a candidate's backfill and what a wallet's poll vouch for is       *)
(* there, unless it was deleted since; and an import under way ends at its *)
(* start, of a wallet with a row, and a pool's goes on from the poll it    *)
(* has seen.                                                               *)
CandidateKnown ==
    candidate.status = "fetched" =>
        candidate.upto \in 0 .. time /\ (~swept => Covered(candidate.from, candidate.upto))

PollKnown ==
    /\ wallet.polled = None \/ wallet.polled \in 0 .. time
    /\ ~wallet.exists => wallet.polled = None
    /\ wallet.polled # None /\ ~swept => Covered(since, wallet.polled)

ImportKnown(job) ==
    import[job] # NoImport =>
        /\ import[job].to \in 0 .. time /\ import[job].now = import[job].to
        /\ job # "backfill" => wallet.exists
        /\ job = "pool" /\ import[job].last # None => import[job].from = import[job].last - Overlap

HistoryKnown == CandidateKnown /\ PollKnown /\ \A job \in Jobs : ImportKnown(job)

LEMMA CandidateStays ==
    ASSUME CandidateKnown, UNCHANGED <<candidate, executed, time>>, stored \subseteq stored', ~swept' => ~swept
    PROVE  CandidateKnown'
BY DEF CandidateKnown, Covered

LEMMA PollStays ==
    ASSUME PollKnown, UNCHANGED <<wallet, since, executed, time>>, stored \subseteq stored', ~swept' => ~swept
    PROVE  PollKnown'
BY DEF PollKnown, Covered

LEMMA ImportsStay ==
    ASSUME \A job \in Jobs : ImportKnown(job), time' = time, wallet.exists => wallet'.exists,
           \A job \in Jobs : import'[job] = import[job] \/ import'[job] = NoImport
    PROVE  \A job \in Jobs : ImportKnown(job)'
<1>. SUFFICES ASSUME NEW job \in Jobs PROVE ImportKnown(job)'
  OBVIOUS
<1>. QED  BY DEF ImportKnown

(* What was read joins the stretch that the last poll vouched for.         *)
LEMMA JoinCovers ==
    ASSUME HistoryTypes, PollKnown, ~swept, NEW after \in Int, NEW upto \in Int, NEW joins, NEW S,
           stored \subseteq S,
           \A f \in executed :
              after < TimeOf(f) /\ TimeOf(f) < upto /\ time - RetentionAge <= TimeOf(f) => f \in S,
           wallet.polled # None /\ joins => after < wallet.polled
    PROVE  \A f \in executed :
              Joined(after, joins) < TimeOf(f) /\ TimeOf(f) < upto /\ time - RetentionAge <= TimeOf(f)
              => f \in S
<1>. SUFFICES ASSUME NEW f \in executed, Joined(after, joins) < TimeOf(f), TimeOf(f) < upto,
                     time - RetentionAge <= TimeOf(f), f \notin S
              PROVE  FALSE
  OBVIOUS
<1>1. TimeOf(f) \in Nat /\ since \in Int /\ wallet.polled \in Int
  BY TypedKnown, TimeIs DEF FillsKnown, HistoryTypes, HistoryTypeOK
<1>2. ~(after < TimeOf(f))
  OBVIOUS
<1>3. wallet.polled # None /\ joins /\ since < TimeOf(f)
  <2>1. Joined(after, joins) # after
    BY <1>2
  <2>2. wallet.polled # None /\ joins /\ Joined(after, joins) = Least(since, after)
    BY <2>1 DEF Joined
  <2>. QED  BY <1>1, <1>2, <2>1, <2>2 DEF Least
<1>4. TimeOf(f) < wallet.polled
  BY <1>1, <1>2, <1>3
<1>5. f \in stored
  BY <1>3, <1>4 DEF PollKnown, Covered
<1>. QED  BY <1>5

LEMMA StartStep ==
    ASSUME HistoryTypes, HistoryKnown, NEW job \in Jobs, NEW from \in Int, Start(job, from, time),
           job # "backfill" => wallet.exists, job = "pool" => from = PollFrom,
           candidate' = candidate \/ candidate'.status # "fetched"
    PROVE  HistoryKnown'
<1>. DEFINE i == [from |-> from, to |-> time, now |-> time,
                  last |-> IF job = "pool" THEN wallet.polled ELSE None]
<1>1. /\ import' = [import EXCEPT ![job] = i]
      /\ UNCHANGED <<time, executed, stored, wallet, since, sweeping, swept>>
  BY DEF Start
<1>2. DOMAIN import = Jobs /\ time \in Nat
  BY HistoryAssumption DEF HistoryTypes, HistoryTypeOK
<1>3. /\ i.to \in 0 .. time /\ i.now = i.to
      /\ job = "pool" /\ i.last # None => i.from = i.last - Overlap
  BY <1>2 DEF PollFrom
<1>. HIDE DEF i
<1>4. ASSUME NEW j \in Jobs PROVE ImportKnown(j)'
  <2>1. CASE j = job
    <3>1. import'[j] = i
      BY <1>1, <1>2, <2>1
    <3>. QED  BY <1>1, <1>3, <2>1, <3>1 DEF ImportKnown
  <2>2. CASE j # job
    <3>1. import'[j] = import[j]
      BY <1>1, <1>2, <2>2
    <3>. QED  BY <1>1, <3>1 DEF ImportKnown, HistoryKnown
  <2>. QED  BY <2>1, <2>2
<1>5. CandidateKnown'
  <2>1. CASE candidate' = candidate
    BY <1>1, <2>1, CandidateStays DEF HistoryKnown
  <2>2. CASE candidate'.status # "fetched"
    BY <2>2 DEF CandidateKnown
  <2>. QED  BY <2>1, <2>2
<1>6. PollKnown'
  BY <1>1, PollStays DEF HistoryKnown
<1>. QED  BY <1>4, <1>5, <1>6 DEF HistoryKnown

LEMMA FinishStep ==
    ASSUME HistoryTypes, HistoryKnown, NEW job \in Jobs, NEW span \in Spans, Finish(job, span)
    PROVE  HistoryKnown'
<1>. DEFINE i == import[job]
            w == ReadWindow(i.from, i.to, i.to = i.now, span)
            after == ReadAfter(w, i.from)
            joins == IF job = "pool" /\ wallet.polled = i.last THEN w.from = i.from
                     ELSE Overlaps(after, PolledAt(i, w))
<1>1. /\ WindowKnown(w, i.from, i.to) /\ w.rows \subseteq executed /\ w.to \in Int
      /\ after \in Int
  BY FinishKnown
<1>2. /\ i # NoImport /\ stored' = stored \cup w.rows
      /\ import' = [import EXCEPT ![job] = NoImport]
      /\ UNCHANGED <<time, executed, sweeping, swept>>
      /\ job = "backfill" => /\ candidate' = [status |-> "fetched", from |-> after, upto |-> w.to]
                             /\ UNCHANGED <<wallet, since>>
      /\ job # "backfill" => /\ wallet' = [wallet EXCEPT !.polled = PolledAt(i, w)]
                             /\ since' = Joined(after, joins)
                             /\ UNCHANGED candidate
  BY DEF Finish
<1>3. i.from \in Int /\ i.to \in 0 .. time /\ i.now = i.to /\ (job # "backfill" => wallet.exists)
      /\ (job = "pool" /\ i.last # None => i.from = i.last - Overlap)
  BY <1>2, ImportTyped DEF HistoryKnown, ImportKnown
<1>4. /\ time \in Nat /\ Overlap \in Nat /\ since \in Int /\ DOMAIN import = Jobs
      /\ wallet \in [exists : BOOLEAN, enabled : BOOLEAN, polled : Int]
  BY HistoryAssumption DEF HistoryTypes, HistoryTypeOK
<1>5. \A f \in executed : after < TimeOf(f) /\ TimeOf(f) < w.to => f \in stored'
  BY <1>1, <1>2 DEF WindowKnown
<1>6. w.to \in 0 .. time /\ w.to <= i.to
  BY <1>1, <1>3, <1>4 DEF WindowKnown
<1>7. PolledAt(i, w) = w.to
  BY <1>3, <1>4, <1>6 DEF PolledAt
<1>8. wallet.polled # None /\ joins => after < wallet.polled
  <2>1. CASE job = "pool" /\ wallet.polled = i.last
    <3>. SUFFICES ASSUME wallet.polled # None, joins PROVE after < wallet.polled
      OBVIOUS
    <3>1. w.from = i.from /\ i.from = wallet.polled - Overlap /\ after = i.from - 1
      BY <1>3, <2>1 DEF ReadAfter
    <3>2. wallet.polled \in Int
      BY <1>4
    <3>. QED  BY <1>4, <3>1, <3>2
  <2>2. CASE ~(job = "pool" /\ wallet.polled = i.last)
    BY <2>2 DEF Overlaps
  <2>. QED  BY <2>1, <2>2
<1>9. /\ stored \subseteq stored'
      /\ \A j \in Jobs : import'[j] = import[j] \/ import'[j] = NoImport
  BY <1>2, <1>4
<1>. HIDE DEF i, w, after, joins
<1>10. CASE job = "backfill"
  <2>1. wallet' = wallet /\ candidate'.from = after /\ candidate'.upto = w.to
    BY <1>2, <1>10
  <2>2. CandidateKnown'
    BY <1>2, <1>5, <1>6, <2>1 DEF CandidateKnown, Covered
  <2>3. PollKnown'
    BY <1>2, <1>9, <1>10, PollStays DEF HistoryKnown
  <2>4. \A j \in Jobs : ImportKnown(j)'
    BY <1>2, <1>9, <2>1, ImportsStay DEF HistoryKnown
  <2>. QED  BY <2>2, <2>3, <2>4 DEF HistoryKnown
<1>11. CASE job # "backfill"
  <2>1. wallet'.polled = w.to /\ wallet'.exists = wallet.exists /\ wallet.exists /\ since' = Joined(after, joins)
    BY <1>2, <1>3, <1>4, <1>7, <1>11
  <2>2. CandidateKnown'
    BY <1>2, <1>9, <1>11, CandidateStays DEF HistoryKnown
  <2>3. ASSUME ~swept
        PROVE  \A f \in executed :
                  Joined(after, joins) < TimeOf(f) /\ TimeOf(f) < w.to /\ time - RetentionAge <= TimeOf(f)
                  => f \in stored'
    BY <1>1, <1>5, <1>8, <1>9, <2>3, JoinCovers DEF HistoryKnown
  <2>4. PollKnown'
    BY <1>2, <1>6, <2>1, <2>3 DEF PollKnown, Covered
  <2>5. \A j \in Jobs : ImportKnown(j)'
    BY <1>2, <1>9, <2>1, ImportsStay DEF HistoryKnown
  <2>. QED  BY <2>2, <2>4, <2>5 DEF HistoryKnown
<1>. QED  BY <1>10, <1>11

LEMMA ReceiveStep ==
    ASSUME HistoryTypes, HistoryKnown, ReceiveFills
    PROVE  HistoryKnown'
<1>. DEFINE page == Newest(executed)
            after == IF page = executed THEN None ELSE FirstTime(page)
            joins == Overlaps(after, time)
<1>1. /\ page # {} /\ stored' = stored \cup page
      /\ UNCHANGED <<time, executed, candidate, import, sweeping, swept>>
      /\ wallet.exists => wallet' = [wallet EXCEPT !.polled = time] /\ since' = Joined(after, joins)
      /\ ~wallet.exists => UNCHANGED <<wallet, since>>
  BY DEF ReceiveFills
<1>2. FillsKnown /\ time \in Nat
      /\ wallet \in [exists : BOOLEAN, enabled : BOOLEAN, polled : Int]
  BY TypedKnown DEF HistoryTypes, HistoryTypeOK, FillsKnown
<1>3. /\ page \subseteq executed /\ after \in Int
      /\ \A f \in executed, g \in page : g < f => f \in page
  BY <1>1, <1>2, NewestTyped, NewestPage DEF None
<1>4. ASSUME NEW f \in executed, after < TimeOf(f), f \notin page
      PROVE  FALSE
  <2>1. after = FirstTime(page)
    BY <1>4
  <2>. DEFINE g == Min(page)
  <2>2. g \in page /\ TimeOf(g) < TimeOf(f) /\ f \in Nat /\ g \in Nat
    <3>. HIDE DEF page
    <3>. QED  BY <1>1, <1>2, <1>3, <1>4, <2>1, Extremes DEF FirstTime, FillsKnown
  <2>. HIDE DEF g, page
  <2>3. g < f
    BY <2>2, TimeOrder
  <2>. QED  BY <1>3, <1>4, <2>2, <2>3
<1>. HIDE DEF page, after
<1>5. stored \subseteq stored' /\ \A j \in Jobs : import'[j] = import[j]
  BY <1>1
<1>6. CandidateKnown'
  BY <1>1, <1>5, CandidateStays DEF HistoryKnown
<1>7. PollKnown' /\ (wallet.exists => wallet'.exists)
  <2>1. CASE ~wallet.exists
    BY <1>1, <1>5, <2>1, PollStays DEF HistoryKnown
  <2>2. CASE wallet.exists
    <3>1. wallet'.polled = time /\ wallet'.exists /\ since' = Joined(after, joins)
      BY <1>1, <1>2, <2>2
    <3>2. wallet.polled # None /\ joins => after < wallet.polled
      BY DEF Overlaps
    <3>3. \A f \in executed : after < TimeOf(f) => f \in stored'
      BY <1>1, <1>4
    <3>. HIDE DEF joins
    <3>4. ASSUME ~swept
          PROVE  \A f \in executed :
                    Joined(after, joins) < TimeOf(f) /\ TimeOf(f) < time /\ time - RetentionAge <= TimeOf(f)
                    => f \in stored'
      BY <1>2, <1>3, <1>5, <3>2, <3>3, <3>4, JoinCovers DEF HistoryKnown
    <3>. QED  BY <1>1, <1>2, <3>1, <3>4 DEF PollKnown, Covered
  <2>. QED  BY <2>1, <2>2
<1>8. \A j \in Jobs : ImportKnown(j)'
  BY <1>1, <1>5, <1>7, ImportsStay DEF HistoryKnown
<1>. QED  BY <1>6, <1>7, <1>8 DEF HistoryKnown

LEMMA TickStep ==
    ASSUME HistoryTypes, HistoryKnown, HistoryTick
    PROVE  HistoryKnown'
<1>1. /\ time' = time + 1 /\ time \in Nat /\ executed \subseteq executed' /\ executed' \subseteq Nat
      /\ \A f \in executed' : TimeOf(f) < time => f \in executed
      /\ UNCHANGED <<stored, wallet, since, candidate, import, sweeping, swept>>
  BY TickKnown DEF HistoryTick, WalletFills
<1>2. ASSUME NEW after, NEW upto \in 0 .. time, Covered(after, upto),
             NEW f \in executed', after < TimeOf(f), TimeOf(f) < upto, time' - RetentionAge <= TimeOf(f)
      PROVE  f \in stored'
  <2>1. TimeOf(f) \in Nat /\ RetentionAge \in Nat
    BY <1>1, TimeIs, HistoryAssumption
  <2>2. TimeOf(f) < time /\ time - RetentionAge <= TimeOf(f)
    BY <1>1, <1>2, <2>1
  <2>3. f \in executed
    BY <1>1, <2>2
  <2>. QED  BY <1>1, <1>2, <2>2, <2>3 DEF Covered
<1>3. CandidateKnown'
  BY <1>1, <1>2 DEF HistoryKnown, CandidateKnown, Covered
<1>4. PollKnown'
  BY <1>1, <1>2 DEF HistoryKnown, PollKnown, Covered
<1>5. \A job \in Jobs : ImportKnown(job)'
  <2>. SUFFICES ASSUME NEW job \in Jobs PROVE ImportKnown(job)'
    OBVIOUS
  <2>. QED  BY <1>1 DEF HistoryKnown, ImportKnown
<1>. QED  BY <1>3, <1>4, <1>5 DEF HistoryKnown

LEMMA PromoteStep ==
    ASSUME HistoryTypes, HistoryKnown, Promote
    PROVE  HistoryKnown'
<1>. DEFINE upto == candidate.upto
            after == candidate.from
            joins == Overlaps(after, upto)
<1>1. /\ candidate.status = "fetched" /\ candidate' = Decided
      /\ since' = IF wallet.polled > upto THEN since ELSE Joined(after, joins)
      /\ UNCHANGED <<time, executed, stored, import, sweeping, swept>>
  BY DEF Promote
<1>2. /\ wallet \in [exists : BOOLEAN, enabled : BOOLEAN, polled : Int]
      /\ time \in Nat /\ upto \in 0 .. time /\ after \in Int
  BY <1>1 DEF HistoryKnown, CandidateKnown, HistoryTypes, HistoryTypeOK
<1>3. PICK w \in InPool : wallet' = [w EXCEPT !.polled = Greatest(@, candidate.upto)]
  BY DEF Promote
<1>4. wallet'.exists /\ wallet'.polled = Greatest(wallet.polled, upto)
  BY <1>2, <1>3, InPoolKnown
<1>5. ~swept => Covered(after, upto)
  BY <1>1 DEF HistoryKnown, CandidateKnown
<1>. HIDE DEF upto, after
<1>6. PollKnown'
  <2>1. CASE wallet.polled > upto
    <3>1. wallet'.polled = wallet.polled /\ since' = since
      BY <1>1, <1>2, <1>4, <2>1 DEF Greatest
    <3>2. wallet.polled \in 0 .. time
      BY <1>2, <2>1 DEF HistoryKnown, PollKnown, None
    <3>. QED  BY <1>1, <1>4, <3>1, <3>2 DEF HistoryKnown, PollKnown, Covered
  <2>2. CASE ~(wallet.polled > upto)
    <3>1. wallet'.polled = upto /\ since' = Joined(after, joins)
      BY <1>1, <1>2, <1>4, <2>2 DEF Greatest
    <3>2. wallet.polled # None /\ joins => after < wallet.polled
      BY DEF Overlaps
    <3>. HIDE DEF joins
    <3>3. ASSUME ~swept
          PROVE  \A f \in executed :
                    Joined(after, joins) < TimeOf(f) /\ TimeOf(f) < upto /\ time - RetentionAge <= TimeOf(f)
                    => f \in stored
      BY <1>2, <1>5, <3>2, <3>3, JoinCovers DEF HistoryKnown, Covered
    <3>. QED  BY <1>1, <1>2, <1>4, <3>1, <3>3 DEF PollKnown, Covered
  <2>. QED  BY <2>1, <2>2
<1>7. CandidateKnown'
  BY <1>1 DEF CandidateKnown, Decided, NoCandidate
<1>8. \A job \in Jobs : ImportKnown(job)'
  BY <1>1, <1>4, ImportsStay DEF HistoryKnown
<1>. QED  BY <1>6, <1>7, <1>8 DEF HistoryKnown

(* Retention deletes nothing that it keeps: there are as many fills before *)
(* one of these as there are outdated ones.                                *)
LEMMA RetainKeeps ==
    ASSUME HistoryTypes, Retain, NEW f \in stored, time - RetentionAge <= TimeOf(f)
    PROVE  f \in stored'
<1>. DEFINE before == {g \in stored : g < f}
<1>1. PICK n \in 1 .. Cardinality(Outdated) :
        stored' = {g \in stored : Cardinality({h \in stored : h < g}) >= n}
  BY DEF Retain
<1>2. IsFiniteSet(stored) /\ stored \subseteq Nat /\ time \in Nat /\ RetentionAge \in Nat
  BY TypedKnown, FS_Subset, HistoryAssumption DEF FillsKnown, HistoryTypes, HistoryTypeOK
<1>3. ASSUME NEW g \in Outdated PROVE g \in before
  <2>1. g \in stored /\ TimeOf(g) <= time - RetentionAge - 1
    BY <1>3 DEF Outdated, Between
  <2>2. g \in Nat /\ f \in Nat /\ TimeOf(g) \in Nat /\ TimeOf(f) \in Nat
    BY <1>2, <2>1, TimeIs
  <2>3. TimeOf(g) < TimeOf(f)
    BY <1>2, <2>1, <2>2
  <2>. QED  BY <2>1, <2>2, <2>3, TimeOrder
<1>4. IsFiniteSet(before)
  <2>1. before \subseteq stored
    OBVIOUS
  <2>. HIDE DEF before
  <2>. QED  BY <1>2, <2>1, FS_Subset
<1>5. Cardinality(Outdated) <= Cardinality(before) /\ Cardinality(before) \in Nat /\ Cardinality(Outdated) \in Nat
  <2>1. Outdated \subseteq before
    BY <1>3
  <2>. HIDE DEF before
  <2>. QED  BY <1>4, <2>1, FS_Subset, FS_CardinalityType
<1>6. Cardinality(before) >= n
  <2>. HIDE DEF before
  <2>. QED  BY <1>5
<1>. QED  BY <1>1, <1>6

LEMMA RetainStep ==
    ASSUME HistoryTypes, HistoryKnown, Retain
    PROVE  HistoryKnown'
<1>1. UNCHANGED <<time, executed, wallet, since, candidate, import, sweeping, swept>>
  BY DEF Retain
<1>2. \A f \in stored : time - RetentionAge <= TimeOf(f) => f \in stored'
  BY RetainKeeps
<1>3. CandidateKnown' /\ PollKnown'
  BY <1>1, <1>2 DEF HistoryKnown, CandidateKnown, PollKnown, Covered
<1>4. \A job \in Jobs : ImportKnown(job)'
  BY <1>1, ImportsStay DEF HistoryKnown
<1>. QED  BY <1>3, <1>4 DEF HistoryKnown

LEMMA KnownStep ==
    ASSUME Ends \subseteq {0}
    PROVE  HistoryTypes /\ HistoryKnown /\ [HistoryNext]_historyVars => HistoryKnown'
<1>. SUFFICES ASSUME HistoryTypes, HistoryKnown, [HistoryNext]_historyVars PROVE HistoryKnown'
  OBVIOUS
<1>0. /\ time \in Nat /\ wallet \in [exists : BOOLEAN, enabled : BOOLEAN, polled : Int]
      /\ CandidateKnown /\ PollKnown /\ (\A job \in Jobs : ImportKnown(job))
      /\ import \in [Jobs -> [from : Int, to : Int, now : Int, last : Int]]
      /\ candidate \in [status : {"none", "accepted", "running", "fetched", "decided"},
                        from : Int, upto : Int]
      /\ Window \in Int /\ Overlap \in Int
  BY HistoryAssumption DEF HistoryKnown, HistoryTypes, HistoryTypeOK
<1>1. CASE HistoryTick
  BY <1>1, TickStep
<1>2. CASE StartPoolImport
  <2>1. PollFrom \in Int /\ "pool" \in Jobs /\ "pool" # "backfill"
    BY <1>0 DEF PollFrom, Jobs
  <2>. QED  BY <1>2, <2>1, StartStep DEF StartPoolImport
<1>3. ASSUME NEW days \in Days, NEW ago \in Ends, StartOperatorImport(days, ago) PROVE HistoryKnown'
  <2>1. ago = 0 /\ time - ago = time /\ time - days \in Int /\ "operator" \in Jobs
    BY <1>0, HistoryAssumption DEF Jobs
  <2>2. Start("operator", time - days, time) /\ wallet.exists /\ candidate' = candidate
    BY <1>3, <2>1 DEF StartOperatorImport
  <2>. DEFINE from == time - days
  <2>3. from \in Int /\ Start("operator", from, time)
    BY <2>1, <2>2
  <2>. HIDE DEF from
  <2>. QED  BY <2>1, <2>2, <2>3, StartStep
<1>4. CASE StartBackfill
  <2>. DEFINE from == time - Window
  <2>1. from \in Int /\ "backfill" \in Jobs /\ Start("backfill", from, time)
    BY <1>0, <1>4 DEF StartBackfill, Jobs
  <2>2. candidate'.status # "fetched"
    BY <1>0, <1>4 DEF StartBackfill
  <2>. HIDE DEF from
  <2>. QED  BY <2>1, <2>2, StartStep
<1>5. ASSUME NEW job \in Jobs, Abort(job), candidate' \in {candidate, Accepted} PROVE HistoryKnown'
  <2>1. /\ UNCHANGED <<time, executed, stored, wallet, since, sweeping, swept>>
        /\ \A j \in Jobs : import'[j] = import[j] \/ import'[j] = NoImport
    BY <1>0, <1>5 DEF Abort
  <2>2. CandidateKnown'
    <3>1. CASE candidate' = candidate
      BY <1>0, <2>1, <3>1, CandidateStays
    <3>2. CASE candidate' = Accepted
      BY <3>2 DEF CandidateKnown, Accepted, NoCandidate
    <3>. QED  BY <1>5, <3>1, <3>2
  <2>. QED  BY <1>0, <2>1, <2>2, PollStays, ImportsStay DEF HistoryKnown
<1>6. CASE \E job \in {"pool", "operator"} : AbortImport(job)
  BY <1>5, <1>6 DEF AbortImport, Jobs
<1>7. CASE AbortBackfill
  BY <1>5, <1>7 DEF AbortBackfill, Jobs
<1>8. ASSUME NEW job \in Jobs, NEW span \in Spans, Finish(job, span) PROVE HistoryKnown'
  BY <1>8, FinishStep
<1>9. CASE ReceiveFills
  BY <1>9, ReceiveStep
<1>10. CASE Discover
  <2>1. /\ UNCHANGED <<time, executed, stored, wallet, since, sweeping, swept>> /\ candidate' = Accepted
        /\ \A j \in Jobs : import'[j] = import[j] \/ import'[j] = NoImport
    BY <1>0, <1>10 DEF Discover
  <2>2. CandidateKnown'
    BY <2>1 DEF CandidateKnown, Accepted, NoCandidate
  <2>. QED  BY <1>0, <2>1, <2>2, PollStays, ImportsStay DEF HistoryKnown
<1>11. CASE Promote
  BY <1>11, PromoteStep
<1>12. CASE PromoteUnfetched
  <2>1. /\ UNCHANGED <<time, executed, stored, since, import, sweeping, swept>> /\ candidate' = Decided
        /\ wallet'.exists /\ wallet'.polled = wallet.polled
    BY <1>0, <1>12, InPoolKnown DEF PromoteUnfetched
  <2>2. CandidateKnown'
    BY <2>1 DEF CandidateKnown, Decided, NoCandidate
  <2>3. PollKnown'
    BY <1>0, <2>1 DEF PollKnown, Covered
  <2>. QED  BY <1>0, <2>1, <2>2, <2>3, ImportsStay DEF HistoryKnown
<1>13. CASE Reject
  <2>1. /\ UNCHANGED <<time, executed, wallet, since, sweeping>> /\ candidate' = Decided
        /\ stored' = IF wallet.exists THEN stored ELSE {}
        /\ wallet.exists => swept' = swept
        /\ \A j \in Jobs : import'[j] = import[j] \/ import'[j] = NoImport
    <3>1. swept' = (swept /\ wallet.exists)
      BY <1>13 DEF Reject
    <3>2. wallet.exists => swept' = swept
      <4>1. swept \in BOOLEAN /\ wallet.exists \in BOOLEAN
        BY <1>0 DEF HistoryTypes, HistoryTypeOK
      <4>. QED  BY <3>1, <4>1, Zenon
    <3>. QED  BY <1>0, <1>13, <3>2 DEF Reject
  <2>2. CandidateKnown'
    BY <2>1 DEF CandidateKnown, Decided, NoCandidate
  <2>3. PollKnown'
    BY <1>0, <2>1 DEF PollKnown, Covered
  <2>. QED  BY <1>0, <2>1, <2>2, <2>3, ImportsStay DEF HistoryKnown
<1>14. CASE Create
  <2>1. /\ UNCHANGED <<time, executed, stored, since, candidate, import, sweeping, swept>>
        /\ wallet'.exists /\ wallet'.polled = None
    BY <1>14 DEF Create, NewWallet, NoWallet
  <2>2. PollKnown'
    BY <2>1 DEF PollKnown
  <2>. QED  BY <1>0, <2>1, <2>2, CandidateStays, ImportsStay DEF HistoryKnown
<1>15. CASE DeleteWalletRows
  <2>1. /\ UNCHANGED <<time, executed, candidate, sweeping>>
        /\ ~wallet'.exists /\ wallet'.polled = None
        /\ swept' = (candidate.status = "fetched")
        /\ \A j \in Jobs : import'[j] = IF j = "backfill" THEN import[j] ELSE NoImport
    BY <1>15 DEF DeleteWalletRows, NoWallet
  <2>2. CandidateKnown'
    BY <1>0, <2>1 DEF CandidateKnown
  <2>3. PollKnown'
    BY <2>1 DEF PollKnown
  <2>4. \A job \in Jobs : ImportKnown(job)'
    <3>. SUFFICES ASSUME NEW job \in Jobs PROVE ImportKnown(job)'
      OBVIOUS
    <3>. QED  BY <1>0, <2>1 DEF ImportKnown
  <2>. QED  BY <2>2, <2>3, <2>4 DEF HistoryKnown
<1>16. ASSUME NEW on \in BOOLEAN, Enable(on) PROVE HistoryKnown'
  <2>1. /\ UNCHANGED <<time, executed, stored, since, candidate, import, sweeping, swept>>
        /\ wallet'.exists = wallet.exists /\ wallet'.polled = wallet.polled
    BY <1>0, <1>16 DEF Enable
  <2>2. PollKnown'
    BY <1>0, <2>1 DEF PollKnown, Covered
  <2>. QED  BY <1>0, <2>1, <2>2, CandidateStays, ImportsStay DEF HistoryKnown
<1>17. ASSUME UNCHANGED <<time, executed, wallet, since, candidate, import, swept>>, stored \subseteq stored'
       PROVE  HistoryKnown'
  BY <1>0, <1>17, CandidateStays, PollStays, ImportsStay DEF HistoryKnown
<1>18. CASE SelectOrphan
  BY <1>17, <1>18 DEF SelectOrphan
<1>19. CASE DeleteOrphan
  <2>1. /\ UNCHANGED <<time, executed, wallet, since, candidate, import>>
        /\ wallet.polled # None \/ candidate.status = "fetched" => swept'
    BY <1>19 DEF DeleteOrphan
  <2>2. CandidateKnown' /\ PollKnown'
    BY <1>0, <2>1 DEF CandidateKnown, PollKnown
  <2>. QED  BY <1>0, <2>1, <2>2, ImportsStay DEF HistoryKnown
<1>20. CASE Retain
  BY <1>20, RetainStep
<1>21. ASSUME NEW f \in stored, Repair(f) PROVE HistoryKnown'
  BY <1>17, <1>21, RepairTyped DEF Repair
<1>22. CASE UNCHANGED historyVars
  BY <1>17, <1>22 DEF historyVars
<1>. QED
  BY <1>1, <1>2, <1>3, <1>4, <1>6, <1>7, <1>8, <1>9, <1>10, <1>11, <1>12, <1>13, <1>14, <1>15,
     <1>16, <1>18, <1>19, <1>20, <1>21, <1>22 DEF HistoryNext

LEMMA HistoryStart == HistoryInit => HistoryTypes /\ HistoryKnown
<1>. SUFFICES ASSUME HistoryInit PROVE HistoryTypes /\ HistoryKnown
  OBVIOUS
<1>1. MaxHistoryTime \in Nat
  BY HistoryAssumption
<1>2. HistoryTypes
  <2>1. None \in Int
    BY DEF None
  <2>2. import \in [Jobs -> [from : Int, to : Int, now : Int, last : Int]]
    BY <2>1 DEF HistoryInit, NoImport
  <2>3. wallet \in [exists : BOOLEAN, enabled : BOOLEAN, polled : Int] /\ since \in Int
        /\ candidate \in [status : {"none", "accepted", "running", "fetched", "decided"},
                          from : Int, upto : Int]
    BY <2>1 DEF HistoryInit, NoWallet, NoCandidate
  <2>4. time \in 0 .. MaxHistoryTime /\ executed = {} /\ stored = {}
    BY <1>1 DEF HistoryInit
  <2>5. sweeping \in BOOLEAN /\ swept \in BOOLEAN
    BY DEF HistoryInit
  <2>6. HistoryTypeOK
    BY <2>2, <2>3, <2>4, <2>5 DEF HistoryTypeOK
  <2>. QED  BY <2>4, <2>6 DEF HistoryTypes
<1>3. HistoryKnown
  BY DEF HistoryInit, HistoryKnown, CandidateKnown, PollKnown, ImportKnown, NoWallet, NoCandidate
<1>. QED  BY <1>2, <1>3

(* What is stored, what vouches for it and what is under way keep their    *)
(* types: import_address_fills, store_realtime_fills, the candidates, the  *)
(* wallet routes and all that deletes.                                     *)
THEOREM HistoryTyped == HistorySpec => []HistoryTypeOK
<1>1. HistoryInit => HistoryTypes
  BY HistoryStart
<1>2. HistoryTypes /\ [HistoryNext]_historyVars => HistoryTypes'
  BY TypedStep
<1>3. HistoryTypes => HistoryTypeOK
  BY DEF HistoryTypes
<1>. QED  BY <1>1, <1>2, <1>3, PTL DEF HistorySpec

(* What the exchange had before a wallet's last poll is stored, back to    *)
(* where a limit, a window or retention cut it: for any page size and      *)
(* limits, however the imports of the pool, of operators and of discovery, *)
(* the websocket, promotions, repairs and deletions interleave.            *)
THEOREM PolledIsStored ==
    ASSUME Ends \subseteq {0}
    PROVE  HistorySpec => []StoredUntilPolled
<1>1. HistoryInit => HistoryTypes /\ HistoryKnown
  BY HistoryStart
<1>2. HistoryTypes /\ HistoryKnown /\ [HistoryNext]_historyVars => (HistoryTypes /\ HistoryKnown)'
  BY TypedStep, KnownStep
<1>3. HistoryTypes /\ HistoryKnown => StoredUntilPolled
  <2>. SUFFICES ASSUME HistoryTypes, HistoryKnown, wallet.polled # None, ~swept,
                       NEW f \in Between(executed, Greatest(since + 1, time - RetentionAge), wallet.polled - 1)
                PROVE  f \in stored
    BY DEF StoredUntilPolled
  <2>1. /\ f \in executed /\ Greatest(since + 1, time - RetentionAge) <= TimeOf(f)
        /\ TimeOf(f) <= wallet.polled - 1
    BY DEF Between
  <2>2. TimeOf(f) \in Nat /\ since \in Int /\ time \in Nat /\ RetentionAge \in Nat /\ wallet.polled \in Int
    BY <2>1, TypedKnown, TimeIs, HistoryAssumption DEF FillsKnown, HistoryTypes, HistoryTypeOK
  <2>3. since < TimeOf(f) /\ TimeOf(f) < wallet.polled /\ time - RetentionAge <= TimeOf(f)
    BY <2>1, <2>2 DEF Greatest
  <2>. QED  BY <2>1, <2>3 DEF HistoryKnown, PollKnown, Covered
<1>. QED  BY <1>1, <1>2, <1>3, PTL DEF HistorySpec
=============================================================================
