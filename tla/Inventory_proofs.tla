-------------------------- MODULE Inventory_proofs --------------------------
(***************************************************************************)
(* A key moves stock once, the stock of a warehouse is what its movements   *)
(* say and is worth what they booked, up to rounding, for any number of     *)
(* warehouses, requests and keys and for any quantities and costs.          *)
(***************************************************************************)
EXTENDS Inventory, FiniteSetTheorems, WellFoundedInduction, TLAPS

\* Among finite sets there is one of which no other is a part.
LEMMA SmallestSet ==
  ASSUME NEW D, NEW C \in SUBSET FiniteSubsetsOf(D), C # {}
  PROVE  \E S \in C : \A T \in C : T \subseteq S => T = S
<1>1. PICK S \in C : \A T \in C : <<T, S>> \notin StrictSubsetOrdering(D)
  BY FS_StrictSubsetOrderingWellFounded, WFMin
<1>2. ASSUME NEW T \in C, T \subseteq S, T # S PROVE FALSE
  BY <1>1, <1>2 DEF StrictSubsetOrdering, FiniteSubsetsOf
<1> QED
  BY <1>2

\* Sums are computed by taking one element after the other out of the set.
Pick(S) == CHOOSE x \in S : TRUE
Adds(g, f, S) == g = [T \in SUBSET S |-> IF T = {} THEN 0 ELSE f[Pick(T)] + g[T \ {Pick(T)}]]
Sum(f, S) == (CHOOSE g : Adds(g, f, S))[S]

LEMMA SumIsFold ==
  ASSUME NEW f, NEW S
  PROVE  SumFunctionOnSet(f, S) = Sum(f, S)
  BY DEF SumFunctionOnSet, FoldFunctionOnSet, MapThenFoldSet, Sum, Adds, Pick

LEMMA Picked ==
  ASSUME NEW D, NEW S \in FiniteSubsetsOf(D), S # {}
  PROVE  /\ Pick(S) \in S /\ S \ {Pick(S)} \in FiniteSubsetsOf(D)
         /\ S \ {Pick(S)} \subseteq S /\ S \ {Pick(S)} # S
  BY FS_Subset DEF Pick, FiniteSubsetsOf

\* Two functions that add up agree where both are defined.
LEMMA AddsAgree ==
  ASSUME NEW D, NEW f, NEW g, NEW h, NEW S \in SUBSET D, NEW T \in SUBSET D,
         Adds(g, f, S), Adds(h, f, T), NEW U \in FiniteSubsetsOf(D), U \subseteq S, U \subseteq T
  PROVE  g[U] = h[U]
<1> DEFINE C == {V \in FiniteSubsetsOf(D) : V \subseteq S /\ V \subseteq T /\ g[V] # h[V]}
<1> SUFFICES ASSUME C # {} PROVE FALSE
  OBVIOUS
<1>1. PICK V \in C : \A W \in C : W \subseteq V => W = V
  <2> HIDE DEF C
  <2>1. C \in SUBSET FiniteSubsetsOf(D)
    BY DEF C
  <2> QED
    BY <2>1, SmallestSet
<1>2. /\ g[V] = IF V = {} THEN 0 ELSE f[Pick(V)] + g[V \ {Pick(V)}]
      /\ h[V] = IF V = {} THEN 0 ELSE f[Pick(V)] + h[V \ {Pick(V)}]
  BY DEF Adds
<1>3. V # {}
  BY <1>2
<1>4. V \ {Pick(V)} \notin C
  BY <1>1, <1>3, Picked
<1>5. g[V \ {Pick(V)}] = h[V \ {Pick(V)}]
  BY <1>3, <1>4, Picked
<1> QED
  BY <1>2, <1>5

\* There is a function that adds up over a finite set.
LEMMA AddsExists ==
  ASSUME NEW D, NEW f, NEW U \in FiniteSubsetsOf(D)
  PROVE  \E g : Adds(g, f, U)
<1> DEFINE C == {V \in FiniteSubsetsOf(D) : ~ \E g : Adds(g, f, V)}
<1> SUFFICES ASSUME C # {} PROVE FALSE
  OBVIOUS
<1>1. PICK S \in C : \A W \in C : W \subseteq S => W = S
  <2> HIDE DEF C
  <2>1. C \in SUBSET FiniteSubsetsOf(D)
    BY DEF C
  <2> QED
    BY <2>1, SmallestSet
<1>a. S \in FiniteSubsetsOf(D) /\ ~ \E g : Adds(g, f, S)
  OBVIOUS
<1>2. \A T : T \subseteq S => T \in FiniteSubsetsOf(D)
  BY FS_Subset DEF FiniteSubsetsOf
<1>3. ASSUME NEW T, T \subseteq S, T # S PROVE \E g : Adds(g, f, T)
  BY <1>1, <1>2, <1>3
<1> DEFINE G == [T \in SUBSET S |-> IF T = {} THEN 0 ELSE f[Pick(T)] + Sum(f, T \ {Pick(T)})]
<1>4. ASSUME NEW T \in SUBSET S, T # {} PROVE G[T \ {Pick(T)}] = Sum(f, T \ {Pick(T)})
  <2> DEFINE V == T \ {Pick(T)}
  <2>1. V \subseteq S /\ V # S /\ V \in FiniteSubsetsOf(D)
    BY <1>2, <1>4, Picked
  <2>2. PICK g : g = CHOOSE h : Adds(h, f, V)
    OBVIOUS
  <2>3. Adds(g, f, V) /\ Sum(f, V) = g[V]
    BY <1>3, <2>1, <2>2 DEF Sum
  <2>4. g[V] = IF V = {} THEN 0 ELSE f[Pick(V)] + g[V \ {Pick(V)}]
    BY <2>3 DEF Adds
  <2>5. CASE V # {}
    <3> DEFINE W == V \ {Pick(V)}
    <3>1. W \subseteq V /\ W \subseteq S /\ W # S /\ W \in FiniteSubsetsOf(D)
      BY <1>2, <2>1, <2>5, Picked
    <3>2. PICK h : h = CHOOSE k : Adds(k, f, W)
      OBVIOUS
    <3>3. Adds(h, f, W) /\ Sum(f, W) = h[W]
      BY <1>3, <3>1, <3>2 DEF Sum
    <3>4. g[W] = h[W]
      <4> HIDE DEF V, W
      <4>1. V \in SUBSET D /\ W \in SUBSET D
        BY <2>1, <3>1 DEF FiniteSubsetsOf
      <4> QED
        BY <2>3, <3>1, <3>3, <4>1, AddsAgree
    <3>5. G[V] = f[Pick(V)] + Sum(f, W)
      BY <2>1, <2>5
    <3> QED
      BY <2>3, <2>4, <2>5, <3>3, <3>4, <3>5
  <2>6. CASE V = {}
    BY <2>1, <2>3, <2>4, <2>6
  <2> QED
    BY <2>5, <2>6
<1>5. Adds(G, f, S)
  <2>1. \A T \in SUBSET S :
          (IF T = {} THEN 0 ELSE f[Pick(T)] + Sum(f, T \ {Pick(T)}))
            = IF T = {} THEN 0 ELSE f[Pick(T)] + G[T \ {Pick(T)}]
    BY <1>4
  <2> QED
    BY <2>1 DEF Adds
<1> QED
  BY <1>a, <1>5

LEMMA SumUnfolds ==
  ASSUME NEW D, NEW f, NEW S \in FiniteSubsetsOf(D)
  PROVE  Sum(f, S) = IF S = {} THEN 0 ELSE f[Pick(S)] + Sum(f, S \ {Pick(S)})
<1>1. PICK g : g = CHOOSE h : Adds(h, f, S)
  OBVIOUS
<1>2. Adds(g, f, S) /\ Sum(f, S) = g[S]
  BY <1>1, AddsExists DEF Sum
<1>3. g[S] = IF S = {} THEN 0 ELSE f[Pick(S)] + g[S \ {Pick(S)}]
  BY <1>2 DEF Adds
<1>4. CASE S # {}
  <2> DEFINE V == S \ {Pick(S)}
  <2>1. V \in FiniteSubsetsOf(D) /\ V \subseteq S
    BY <1>4, Picked
  <2>2. PICK k : k = CHOOSE h : Adds(h, f, V)
    OBVIOUS
  <2>3. Adds(k, f, V) /\ Sum(f, V) = k[V]
    BY <2>1, <2>2, AddsExists DEF Sum
  <2> HIDE DEF V
  <2>4. V \in SUBSET D /\ S \in SUBSET D
    BY <2>1 DEF FiniteSubsetsOf
  <2>5. g[V] = k[V]
    BY <1>2, <2>1, <2>3, <2>4, AddsAgree
  <2> QED
    BY <1>2, <1>3, <1>4, <2>3, <2>5 DEF V
<1> QED
  BY <1>2, <1>3, <1>4

LEMMA SumTakesOne ==
  ASSUME NEW f, NEW S, IsFiniteSet(S)
  PROVE  Sum(f, S) = IF S = {} THEN 0 ELSE f[Pick(S)] + Sum(f, S \ {Pick(S)})
<1>1. S \in FiniteSubsetsOf(S)
  BY DEF FiniteSubsetsOf
<1> QED
  BY <1>1, SumUnfolds

LEMMA SumIsInt ==
  ASSUME NEW D, NEW f \in [D -> Int], NEW U \in FiniteSubsetsOf(D)
  PROVE  Sum(f, U) \in Int
<1> DEFINE C == {V \in FiniteSubsetsOf(D) : Sum(f, V) \notin Int}
<1> SUFFICES ASSUME C # {} PROVE FALSE
  OBVIOUS
<1>1. PICK S \in C : \A W \in C : W \subseteq S => W = S
  <2> HIDE DEF C
  <2>1. C \in SUBSET FiniteSubsetsOf(D)
    BY DEF C
  <2> QED
    BY <2>1, SmallestSet
<1>2. Sum(f, S) = IF S = {} THEN 0 ELSE f[Pick(S)] + Sum(f, S \ {Pick(S)})
  BY SumTakesOne DEF FiniteSubsetsOf
<1>3. S # {}
  BY <1>2
<1>4. S \ {Pick(S)} \notin C /\ Pick(S) \in D
  BY <1>1, <1>3, Picked DEF FiniteSubsetsOf
<1>5. Sum(f, S \ {Pick(S)}) \in Int
  BY <1>3, <1>4, Picked
<1> QED
  BY <1>2, <1>4, <1>5

\* One element more adds its value, whichever it is.
LEMMA SumAdds ==
  ASSUME NEW D, NEW f \in [D -> Int], NEW U \in FiniteSubsetsOf(D), NEW a \in D \ U
  PROVE  Sum(f, U \cup {a}) = f[a] + Sum(f, U)
<1> DEFINE C == {V \in FiniteSubsetsOf(D) :
                   \E x \in D \ V : Sum(f, V \cup {x}) # f[x] + Sum(f, V)}
<1> SUFFICES ASSUME C # {} PROVE FALSE
  OBVIOUS
<1>1. PICK S \in C : \A W \in C : W \subseteq S => W = S
  <2> HIDE DEF C
  <2>1. C \in SUBSET FiniteSubsetsOf(D)
    BY DEF C
  <2> QED
    BY <2>1, SmallestSet
<1>2. S \in FiniteSubsetsOf(D)
  OBVIOUS
<1>3. PICK x \in D \ S : Sum(f, S \cup {x}) # f[x] + Sum(f, S)
  OBVIOUS
<1>4. ASSUME NEW W \in FiniteSubsetsOf(D), W \subseteq S, W # S, NEW z \in D \ W
      PROVE  Sum(f, W \cup {z}) = f[z] + Sum(f, W)
  BY <1>1, <1>4
<1> DEFINE T == S \cup {x}
           y == Pick(T)
<1>5. T \in FiniteSubsetsOf(D) /\ T # {}
  BY <1>2, <1>3, FS_AddElement DEF FiniteSubsetsOf
<1>6. y \in T /\ Sum(f, T) = f[y] + Sum(f, T \ {y})
  <2> HIDE DEF C, T, y
  <2>1. Pick(T) \in T
    BY <1>5, Picked
  <2>2. IsFiniteSet(T)
    BY <1>5 DEF FiniteSubsetsOf
  <2>3. Sum(f, T) = IF T = {} THEN 0 ELSE f[Pick(T)] + Sum(f, T \ {Pick(T)})
    BY <2>2, SumTakesOne
  <2> QED
    BY <1>5, <2>1, <2>3 DEF y
<1> HIDE DEF y
<1>7. CASE y = x
  <2>1. T \ {y} = S
    BY <1>3, <1>7
  <2> QED
    BY <1>3, <1>6, <1>7, <2>1
<1>8. CASE y # x
  <2> DEFINE W == S \ {y}
  <2>1. y \in S /\ y \in D
    BY <1>2, <1>6, <1>8 DEF FiniteSubsetsOf
  <2>2. W \in FiniteSubsetsOf(D) /\ W \subseteq S /\ W # S /\ y \in D \ W /\ x \in D \ W
    BY <1>2, <1>3, <2>1, FS_Subset DEF FiniteSubsetsOf
  <2>3. T \ {y} = W \cup {x} /\ S = W \cup {y}
    BY <1>8, <2>1
  <2>4. Sum(f, W \cup {x}) = f[x] + Sum(f, W) /\ Sum(f, W \cup {y}) = f[y] + Sum(f, W)
    BY <1>4, <2>2
  <2>5. Sum(f, W) \in Int /\ f[x] \in Int /\ f[y] \in Int
    BY <1>3, <2>1, <2>2, SumIsInt
  <2>6. Sum(f, T) = f[y] + (f[x] + Sum(f, W)) /\ Sum(f, S) = f[y] + Sum(f, W)
    BY <1>6, <2>3, <2>4
  <2> HIDE DEF T, W
  <2>7. Sum(f, T) = f[x] + Sum(f, S)
    BY <2>5, <2>6
  <2> QED
    BY <1>3, <2>7 DEF T
<1> QED
  BY <1>7, <1>8

-----------------------------------------------------------------------------
\* The quotient by a positive number is the last one that fits.
LEMMA DivBounds ==
  ASSUME NEW n \in Nat, NEW m \in Nat \ {0}
  PROVE  n \div m \in Nat /\ m * (n \div m) <= n /\ n < m * (n \div m) + m
  OBVIOUS

\* Rounding a quotient is off by half the divisor at most.
LEMMA RoundedBounds ==
  ASSUME NEW n \in Int, NEW d \in Int, d # 0
  PROVE  /\ Rounded(n, d) \in Int
         /\ d > 0 => 2 * Magnitude(d * Rounded(n, d) - n) <= d
<1> DEFINE a == 2 * Magnitude(n) + Magnitude(d)
           b == 2 * Magnitude(d)
           q == a \div b
<1>1. a \in Nat /\ b \in Nat \ {0}
  BY DEF Magnitude
<1>2. q \in Nat /\ b * q <= a /\ a < b * q + b
  <2> HIDE DEF a, b
  <2> QED
    BY <1>1, DivBounds
<1>3. Rounded(n, d) = IF n * d < 0 THEN -q ELSE q
  BY DEF Rounded
<1>4. Rounded(n, d) \in Int
  BY <1>2, <1>3
<1>5. ASSUME d > 0 PROVE 2 * Magnitude(d * Rounded(n, d) - n) <= d
  <2>1. b = 2 * d /\ d * q \in Int /\ b * q = 2 * (d * q)
    BY <1>2, <1>5 DEF Magnitude
  <2>2. CASE n < 0
    <3>1. n * d < 0 /\ a = d - 2 * n
      BY <1>5, <2>2 DEF Magnitude
    <3>2. d * Rounded(n, d) = -(d * q)
      BY <1>2, <1>3, <3>1
    <3> HIDE DEF q, a, b
    <3> QED
      BY <1>2, <2>1, <3>1, <3>2 DEF Magnitude
  <2>3. CASE n >= 0
    <3>1. ~(n * d < 0) /\ a = d + 2 * n
      BY <1>5, <2>3 DEF Magnitude
    <3>2. d * Rounded(n, d) = d * q
      BY <1>3, <3>1
    <3> HIDE DEF q, a, b
    <3> QED
      BY <1>2, <2>1, <3>1, <3>2 DEF Magnitude
  <2> QED
    BY <2>2, <2>3
<1> QED
  BY <1>4, <1>5

\* A movement's total is off by half a unit of cost at most.
LEMMA TotalBounds ==
  ASSUME NEW qty \in Int, NEW cost \in Int
  PROVE  /\ Total(qty, cost) \in Int
         /\ 2 * Magnitude(qty * cost - Scale * Total(qty, cost)) <= Scale
<1>1. qty * cost \in Int /\ Scale \in Int /\ Scale > 0
  BY InventoryAssumption
<1>2. /\ Total(qty, cost) \in Int
      /\ 2 * Magnitude(Scale * Total(qty, cost) - qty * cost) <= Scale
  BY <1>1, RoundedBounds DEF Total
<1>3. Scale * Total(qty, cost) \in Int
  BY <1>1, <1>2
<1>4. \A x, y \in Int : Magnitude(x - y) = Magnitude(y - x)
  BY DEF Magnitude
<1> QED
  BY <1>1, <1>2, <1>3, <1>4

-----------------------------------------------------------------------------
\* What the movements of a warehouse say of its stock.
Delta == [m \in Movements |-> m.delta]
StockIsMoved ==
  \A w \in Warehouses : balance[w].qty = SumFunctionOnSet(Delta, At(w))

\* A warehouse that got nothing from another and never owed: what it has came in by
\* movements, and rounding lost no more than Lost.
Bought(w) == (\A m \in At(w) : m.type # "TRANSFER_IN") /\ ~MayBeOwed(w)
Off(w) == balance[w].qty * balance[w].avg - Scale * Booked(w)
Valued(w) ==
  Bought(w) => /\ balance[w].qty >= 0 /\ balance[w].qty <= Pieces(w)
               /\ 2 * Magnitude(Off(w)) <= Lost(w)

Inv ==
  /\ TypeOK
  /\ IsFiniteSet(moved)
  /\ OncePerKey
  /\ StockIsMoved
  /\ \A w \in Warehouses : Valued(w)

\* A request being served.
Serving ==
  [busy : {TRUE}, key : Keys, needs : SUBSET Warehouses, locks : SUBSET Warehouses]

LEMMA GainsAreInt ==
  Gain \in [Movements -> Int] /\ Worth \in [Movements -> Int] /\ Delta \in [Movements -> Int]
  BY DEF Gain, Worth, Delta, Movements

\* The sums and the receipts of a set of movements when one more is made.
LEMMA OneMore ==
  ASSUME NEW A \in FiniteSubsetsOf(Movements), NEW m \in Movements \ A
  PROVE  /\ SumFunctionOnSet(Gain, A) \in Int
         /\ SumFunctionOnSet(Worth, A) \in Int
         /\ SumFunctionOnSet(Delta, A) \in Int
         /\ SumFunctionOnSet(Gain, A \cup {m}) = Gain[m] + SumFunctionOnSet(Gain, A)
         /\ SumFunctionOnSet(Worth, A \cup {m}) = m.total + SumFunctionOnSet(Worth, A)
         /\ SumFunctionOnSet(Delta, A \cup {m}) = m.delta + SumFunctionOnSet(Delta, A)
<1>1. /\ SumFunctionOnSet(Gain, A) \in Int
      /\ SumFunctionOnSet(Gain, A \cup {m}) = Gain[m] + SumFunctionOnSet(Gain, A)
  BY GainsAreInt, SumIsFold, SumIsInt, SumAdds
<1>2. /\ SumFunctionOnSet(Worth, A) \in Int
      /\ SumFunctionOnSet(Worth, A \cup {m}) = Worth[m] + SumFunctionOnSet(Worth, A)
  BY GainsAreInt, SumIsFold, SumIsInt, SumAdds
<1>3. /\ SumFunctionOnSet(Delta, A) \in Int
      /\ SumFunctionOnSet(Delta, A \cup {m}) = Delta[m] + SumFunctionOnSet(Delta, A)
  BY GainsAreInt, SumIsFold, SumIsInt, SumAdds
<1>4. Worth[m] = m.total /\ Delta[m] = m.delta
  BY DEF Worth, Delta
<1> QED
  BY <1>1, <1>2, <1>3, <1>4

LEMMA EmptySum == ASSUME NEW f PROVE SumFunctionOnSet(f, {}) = 0
<1>1. {} \in FiniteSubsetsOf({})
  BY FS_EmptySet DEF FiniteSubsetsOf
<1> QED
  BY <1>1, SumIsFold, SumUnfolds

LEMMA AtMoved ==
  ASSUME TypeOK, IsFiniteSet(moved), NEW w \in Warehouses
  PROVE  At(w) \in FiniteSubsetsOf(Movements)
<1>1. At(w) \subseteq moved /\ moved \subseteq Movements
  BY DEF At, TypeOK
<1> QED
  BY <1>1, FS_Subset DEF FiniteSubsetsOf

\* A warehouse nothing happened to.
LEMMA Untouched ==
  ASSUME Inv, NEW w \in Warehouses, At(w)' = At(w), balance'[w] = balance[w]
  PROVE  balance'[w].qty = SumFunctionOnSet(Delta, At(w)') /\ Valued(w)'
<1>1. balance[w].qty = SumFunctionOnSet(Delta, At(w)) /\ Valued(w)
  BY DEF Inv, StockIsMoved
<1>2. Bought(w)' = Bought(w) /\ Off(w)' = Off(w) /\ Lost(w)' = Lost(w) /\ Pieces(w)' = Pieces(w)
  BY DEF Bought, MayBeOwed, Off, Booked, Lost, Receipt, Pieces
<1> QED
  BY <1>1, <1>2 DEF Valued

\* The value of a warehouse may be off by half a unit per piece more after a receipt.
LEMMA BoundGrows ==
  ASSUME NEW r \in Nat, NEW p \in Int, NEW q \in Int, NEW k \in Int, NEW off \in Int,
         NEW e \in Int, NEW new \in Int, q > 0, 0 <= new, new <= p + q,
         2 * Magnitude(off) <= r * p + k, 2 * Magnitude(e) <= new
  PROVE  2 * Magnitude(off + e) <= (r + 1) * (p + q) + k
<1>1. r * p \in Int /\ r * q \in Int /\ r * q >= 0
  OBVIOUS
<1>2. (r + 1) * (p + q) = r * p + r * q + p + q
  OBVIOUS
<1>3. 2 * Magnitude(off + e) <= 2 * Magnitude(off) + 2 * Magnitude(e)
  BY DEF Magnitude
<1>4. 2 * Magnitude(off + e) \in Int /\ 2 * Magnitude(off) \in Int /\ 2 * Magnitude(e) \in Int
  BY DEF Magnitude
<1> QED
  BY <1>1, <1>2, <1>3, <1>4

\* And by half a unit more after another movement, that may bring pieces as well.
LEMMA BoundSteps ==
  ASSUME NEW r \in Nat, NEW p \in Int, NEW g \in Nat, NEW k \in Nat, NEW s \in Nat,
         NEW off \in Int, NEW e \in Int,
         2 * Magnitude(off) <= r * p + s * k, 2 * Magnitude(e) <= s
  PROVE  2 * Magnitude(off + e) <= r * (g + p) + s * (k + 1)
<1>1. r * p \in Int /\ r * g \in Int /\ r * g >= 0 /\ s * k \in Int
  OBVIOUS
<1>2. r * (g + p) = r * g + r * p /\ s * (k + 1) = s * k + s
  OBVIOUS
<1>3. 2 * Magnitude(off + e) <= 2 * Magnitude(off) + 2 * Magnitude(e)
  BY DEF Magnitude
<1>4. 2 * Magnitude(off + e) \in Int /\ 2 * Magnitude(off) \in Int /\ 2 * Magnitude(e) \in Int
  BY DEF Magnitude
<1> QED
  BY <1>1, <1>2, <1>3, <1>4

\* How far the movement m may put the value of a stock of qty off, in warehouses that
\* were never owed to.
Rounds(m, qty, e) ==
  \/ m.type # "RECEIVE" /\ 2 * Magnitude(e) <= Scale
  \/ m.type = "RECEIVE" /\ m.delta > 0 /\ 2 * Magnitude(e) <= qty

\* A warehouse one movement was made at.
LEMMA OneMovement ==
  ASSUME Inv, NEW w \in Warehouses, NEW m \in Movements \ moved, At(w)' = At(w) \cup {m},
         balance'[w] \in [qty : Int, avg : Int],
         balance'[w].qty = balance[w].qty + m.delta,
         NEW e \in Int,
         balance'[w].qty * balance'[w].avg = balance[w].qty * balance[w].avg + Scale * m.total + e,
         Bought(w) /\ balance[w].qty >= 0 /\ m.type # "TRANSFER_IN" /\ ~m.debt =>
           balance'[w].qty >= 0 /\ Rounds(m, balance'[w].qty, e)
  PROVE  balance'[w].qty = SumFunctionOnSet(Delta, At(w)') /\ Valued(w)'
<1>1. /\ At(w) \in FiniteSubsetsOf(Movements) /\ m \in Movements \ At(w)
      /\ IsFiniteSet(At(w))
  BY AtMoved DEF Inv, At, FiniteSubsetsOf
<1>2. /\ balance[w] \in [qty : Int, avg : Int] /\ m.delta \in Int /\ m.total \in Int
      /\ Gain[m] = IF m.delta > 0 THEN m.delta ELSE 0
      /\ Scale \in Nat
  BY InventoryAssumption DEF Inv, TypeOK, Movements, Gain
<1>3. /\ SumFunctionOnSet(Delta, At(w)') = m.delta + SumFunctionOnSet(Delta, At(w))
      /\ Pieces(w)' = Gain[m] + Pieces(w) /\ Pieces(w) \in Int
      /\ Booked(w)' = m.total + Booked(w) /\ Booked(w) \in Int
  BY <1>1, OneMore DEF Pieces, Booked
<1>4. balance'[w].qty = SumFunctionOnSet(Delta, At(w)')
  <2>1. balance[w].qty = SumFunctionOnSet(Delta, At(w))
    BY DEF Inv, StockIsMoved
  <2> QED
    BY <1>2, <1>3, <2>1
<1>5. ASSUME Bought(w)' PROVE /\ balance'[w].qty >= 0 /\ balance'[w].qty <= Pieces(w)'
                              /\ 2 * Magnitude(Off(w)') <= Lost(w)'
  <2>1. Bought(w) /\ m.type # "TRANSFER_IN" /\ ~m.debt
    BY <1>5 DEF Bought, MayBeOwed
  <2>2. /\ balance[w].qty >= 0 /\ balance[w].qty <= Pieces(w)
        /\ 2 * Magnitude(Off(w)) <= Lost(w)
    BY <2>1 DEF Inv, Valued
  <2>3. Off(w) \in Int /\ Off(w)' = Off(w) + e
    <3>1. /\ balance'[w].qty * balance'[w].avg \in Int
          /\ balance[w].qty * balance[w].avg \in Int
          /\ Scale * m.total \in Int /\ Scale * Booked(w) \in Int
      BY <1>2, <1>3
    <3>2. Scale * Booked(w)' = Scale * m.total + Scale * Booked(w)
      BY <1>2, <1>3
    <3> QED
      BY <1>2, <1>3, <3>1, <3>2 DEF Off
  <2>4. /\ balance'[w].qty >= 0 /\ balance'[w].qty <= Pieces(w)'
        /\ Rounds(m, balance'[w].qty, e)
    BY <1>2, <1>3, <2>1, <2>2
  <2> DEFINE others == At(w) \ Receipt(w)
  <2>5. /\ IsFiniteSet(Receipt(w)) /\ Cardinality(Receipt(w)) \in Nat
        /\ IsFiniteSet(others) /\ Cardinality(others) \in Nat
    BY <1>1, FS_Subset, FS_CardinalityType DEF Receipt
  <2>6. CASE m.type # "RECEIVE"
    <3>1. /\ Receipt(w)' = Receipt(w)
          /\ At(w)' \ Receipt(w)' = others \cup {m} /\ m \notin others
      BY <1>1, <2>6 DEF Receipt
    <3>2. Cardinality(At(w)' \ Receipt(w)') = Cardinality(others) + 1
      BY <2>5, <3>1, FS_AddElement
    <3>3. 2 * Magnitude(e) <= Scale /\ Gain[m] \in Nat
      BY <1>2, <2>4, <2>6 DEF Rounds
    <3>4. 2 * Magnitude(Off(w)) <= Cardinality(Receipt(w)) * Pieces(w) + Scale * Cardinality(others)
      BY <2>2 DEF Lost
    <3> HIDE DEF others
    <3>5. 2 * Magnitude(Off(w) + e)
            <= Cardinality(Receipt(w)) * (Gain[m] + Pieces(w)) + Scale * (Cardinality(others) + 1)
      BY <1>2, <1>3, <2>3, <2>5, <3>3, <3>4, BoundSteps
    <3> QED
      BY <1>3, <2>3, <2>4, <3>1, <3>2, <3>5 DEF Lost
  <2>7. CASE m.type = "RECEIVE"
    <3>1. /\ Receipt(w)' = Receipt(w) \cup {m} /\ m \notin Receipt(w)
          /\ At(w)' \ Receipt(w)' = others
      BY <1>1, <2>7 DEF Receipt
    <3>2. Cardinality(Receipt(w)') = Cardinality(Receipt(w)) + 1
      BY <2>5, <3>1, FS_AddElement
    <3>3. m.delta > 0 /\ 2 * Magnitude(e) <= balance'[w].qty /\ Pieces(w)' = Pieces(w) + m.delta
      BY <1>2, <1>3, <2>4, <2>7 DEF Rounds
    <3>4. 2 * Magnitude(Off(w)) <= Cardinality(Receipt(w)) * Pieces(w) + Scale * Cardinality(others)
      BY <2>2 DEF Lost
    <3> HIDE DEF others
    <3>5. Scale * Cardinality(others) \in Int
      BY <1>2, <2>5
    <3>6. 2 * Magnitude(Off(w) + e)
            <= (Cardinality(Receipt(w)) + 1) * (Pieces(w) + m.delta) + Scale * Cardinality(others)
      BY <1>2, <1>3, <2>3, <2>4, <2>5, <3>3, <3>4, <3>5, BoundGrows
    <3> QED
      BY <2>3, <2>4, <3>1, <3>2, <3>3, <3>6 DEF Lost
  <2> QED
    BY <2>6, <2>7
<1> QED
  BY <1>4, <1>5 DEF Valued

\* The two movements of a transfer.
BothEnds(x, y) ==
  {x.type, y.type} = {"TRANSFER_OUT", "TRANSFER_IN"} /\ x.delta + y.delta = 0 /\ x.at # y.at

LEMMA KeyOnce ==
  /\ OncePerKey <=> \A x, y \in moved : x.key = y.key => x = y \/ BothEnds(x, y)
  /\ OncePerKey' <=> \A x, y \in moved' : x.key = y.key => x = y \/ BothEnds(x, y)
  BY Zenon DEF OncePerKey, BothEnds

\* An operation that makes one movement.
LEMMA OneMoved ==
  ASSUME Inv, NEW m \in Movements, Unused(m.key), moved' = moved \cup {m},
         NEW b \in [qty : Int, avg : Int], balance' = [balance EXCEPT ![m.at] = b],
         b.qty = balance[m.at].qty + m.delta,
         NEW e \in Int,
         b.qty * b.avg = balance[m.at].qty * balance[m.at].avg + Scale * m.total + e,
         balance[m.at].qty >= 0 /\ m.type # "TRANSFER_IN" /\ ~m.debt =>
           b.qty >= 0 /\ Rounds(m, b.qty, e),
         request' \in [Requests -> Serving \cup {Idle}]
  PROVE  Inv'
<1>1. /\ balance \in [Warehouses -> [qty : Int, avg : Int]] /\ moved \subseteq Movements
      /\ IsFiniteSet(moved) /\ OncePerKey
  BY DEF Inv, TypeOK
<1>2. m \notin moved /\ m.at \in Warehouses
  BY DEF Unused, Movements
<1>3. TypeOK' /\ IsFiniteSet(moved)'
  BY <1>1, <1>2, FS_AddElement DEF TypeOK, Serving
<1>4. OncePerKey'
  <2> SUFFICES ASSUME NEW x \in moved', NEW y \in moved', x.key = y.key, x # y
               PROVE  BothEnds(x, y)
    BY KeyOnce
  <2>1. x \in moved /\ y \in moved
    BY DEF Unused
  <2> QED
    BY <1>1, <2>1, KeyOnce
<1>5. ASSUME NEW w \in Warehouses
      PROVE  balance'[w].qty = SumFunctionOnSet(Delta, At(w)') /\ Valued(w)'
  <2>1. CASE w = m.at
    <3>1. At(w)' = At(w) \cup {m} /\ balance'[w] = b
      BY <1>1, <1>2, <2>1 DEF At
    <3>2. m \in Movements \ moved
      BY <1>2
    <3>3. /\ balance'[w] \in [qty : Int, avg : Int]
          /\ balance'[w].qty = balance[w].qty + m.delta
          /\ balance'[w].qty * balance'[w].avg = balance[w].qty * balance[w].avg + Scale * m.total + e
      BY <2>1, <3>1
    <3>4. balance[w].qty >= 0 /\ m.type # "TRANSFER_IN" /\ ~m.debt =>
            balance'[w].qty >= 0 /\ Rounds(m, balance'[w].qty, e)
      BY <2>1, <3>1
    <3> QED
      BY <3>1, <3>2, <3>3, <3>4, OneMovement
  <2>2. CASE w # m.at
    <3>1. At(w)' = At(w) /\ balance'[w] = balance[w]
      BY <1>1, <1>2, <2>2 DEF At
    <3> QED
      BY <3>1, Untouched
  <2> QED
    BY <2>1, <2>2
<1> QED
  BY <1>3, <1>4, <1>5 DEF Inv, StockIsMoved

LEMMA MovementType ==
  ASSUME NEW o \in Operations, NEW w \in Warehouses, NEW delta \in Int, NEW cost \in Int,
         NEW type \in {"RECEIVE", "ISSUE", "ADJUST", "TRANSFER_OUT", "TRANSFER_IN"}
  PROVE  Movement(o, type, w, delta, cost) \in Movements
<1>1. o.key \in Keys /\ Total(delta, cost) \in Int
  BY TotalBounds DEF Operations, Receipts, Issues, Adjustments, Transfers
<1> QED
  BY <1>1 DEF Movement, Movements, MayOwe

LEMMA ReceivedKeeps ==
  ASSUME Inv, NEW o \in Receipts, Unused(o.key), Received(o), request' \in [Requests -> Serving \cup {Idle}]
  PROVE  Inv'
<1> DEFINE b == balance[o.at]
           m == Movement(o, "RECEIVE", o.at, o.qty, o.cost)
           avg == Average(b, o.qty, o.cost)
           c == [qty |-> b.qty + o.qty, avg |-> avg]
           d == b.qty + o.qty
           n == b.qty * b.avg + Scale * Total(o.qty, o.cost)
           e == d * avg - n
<1>1. /\ o \in Operations /\ o.at \in Warehouses /\ o.qty \in Nat \ {0} /\ o.cost \in Nat
      /\ b \in [qty : Int, avg : Int]
  BY InventoryAssumption DEF Operations, Receipts, Inv, TypeOK
<1>2. /\ m \in Movements /\ m.key = o.key /\ m.at = o.at /\ m.delta = o.qty
      /\ m.total = Total(o.qty, o.cost) /\ m.type = "RECEIVE"
  <2>1. m \in Movements
    BY <1>1, MovementType
  <2> QED
    BY <2>1 DEF Movement
<1>3. /\ d \in Int /\ n \in Int /\ b.qty * b.avg \in Int /\ Scale * Total(o.qty, o.cost) \in Int
  <2>1. Total(o.qty, o.cost) \in Int /\ Scale \in Int
    <3>1. o.qty \in Int /\ o.cost \in Int
      BY <1>1
    <3>2. Total(o.qty, o.cost) \in Int
      BY <3>1, TotalBounds
    <3> QED
      BY <3>2, InventoryAssumption
  <2>2. Scale * Total(o.qty, o.cost) \in Int /\ b.qty * b.avg \in Int
    BY <1>1, <2>1
  <2> QED
    BY <1>1, <2>2
<1>4. avg = IF d = 0 THEN 0 ELSE Rounded(n, d)
  BY DEF Average
<1>5. avg \in Int /\ (d > 0 => 2 * Magnitude(e) <= d)
  <2> HIDE DEF d, n, avg
  <2>1. CASE d = 0
    BY <1>4, <2>1
  <2>2. CASE d # 0
    BY <1>3, <1>4, <2>2, RoundedBounds
  <2> QED
    BY <2>1, <2>2
<1>6. e \in Int /\ c \in [qty : Int, avg : Int] /\ c.qty = d /\ c.avg = avg
  BY <1>3, <1>5
<1>7. c.qty * c.avg = b.qty * b.avg + Scale * m.total + e
  <2>1. d * avg \in Int
    BY <1>3, <1>5
  <2> HIDE DEF d, avg, m
  <2> QED
    BY <1>2, <1>3, <1>6, <2>1
<1>8. b.qty >= 0 => d > 0
  BY <1>1
<1>9. moved' = moved \cup {m} /\ balance' = [balance EXCEPT ![m.at] = c]
  BY <1>2 DEF Received
<1> HIDE DEF m, c, e, avg, d, n
<1>10. b.qty >= 0 => c.qty >= 0 /\ m.delta > 0 /\ 2 * Magnitude(e) <= c.qty
  BY <1>1, <1>2, <1>3, <1>5, <1>6, <1>8
<1>11. /\ c.qty = balance[m.at].qty + m.delta
       /\ c.qty * c.avg = balance[m.at].qty * balance[m.at].avg + Scale * m.total + e
       /\ Unused(m.key)
  BY <1>2, <1>6, <1>7 DEF d
<1>12. balance[m.at].qty >= 0 /\ m.type # "TRANSFER_IN" /\ ~m.debt =>
         c.qty >= 0 /\ Rounds(m, c.qty, e)
  BY <1>2, <1>10 DEF Rounds
<1> HIDE DEF b
<1> QED
  BY <1>2, <1>6, <1>9, <1>11, <1>12, OneMoved

LEMMA IssuedKeeps ==
  ASSUME Inv, NEW o \in Issues, Unused(o.key), Enough(o), Issued(o), request' \in [Requests -> Serving \cup {Idle}]
  PROVE  Inv'
<1> DEFINE b == balance[o.at]
           m == Movement(o, "ISSUE", o.at, -o.qty, b.avg)
           c == Lowered(b, o.qty)
           e == (-o.qty) * b.avg - Scale * m.total
<1>1. /\ o \in Operations /\ o.at \in Warehouses /\ o.qty \in Nat \ {0}
      /\ b \in [qty : Int, avg : Int] /\ o.kind = "ISSUE"
  BY InventoryAssumption DEF Operations, Issues, Inv, TypeOK
<1>2. /\ m \in Movements /\ m.key = o.key /\ m.at = o.at /\ m.delta = -o.qty
      /\ m.total = Total(-o.qty, b.avg) /\ m.type = "ISSUE" /\ m.debt = MayOwe(o)
  <2>1. m \in Movements
    BY <1>1, MovementType
  <2> QED
    BY <2>1 DEF Movement
<1>3. c \in [qty : Int, avg : Int] /\ c.qty = b.qty + m.delta
  BY <1>1, <1>2 DEF Lowered
<1>4. c.qty * c.avg = b.qty * b.avg + Scale * m.total + e
  <2>1. c.qty * c.avg = b.qty * b.avg + (-o.qty) * b.avg
    <3>1. b.qty * b.avg + (-o.qty) * b.avg = (b.qty - o.qty) * b.avg
      BY <1>1
    <3> QED
      BY <1>1, <3>1 DEF Lowered
  <2>2. b.qty * b.avg \in Int /\ (-o.qty) * b.avg \in Int /\ Scale * m.total \in Int
    BY <1>1, <1>2, InventoryAssumption DEF Movements
  <2> HIDE DEF m, c, b
  <2> QED
    BY <2>1, <2>2
<1>5. ~m.debt => c.qty >= 0
  <2> SUFFICES ASSUME ~m.debt PROVE c.qty >= 0
    OBVIOUS
  <2>1. ~MayOwe(o)
    BY <1>2
  <2>2. b.qty >= o.qty
    BY <1>1, <2>1 DEF MayOwe, Enough
  <2> QED
    BY <1>1, <1>2, <1>3, <2>2
<1>6. moved' = moved \cup {m} /\ balance' = [balance EXCEPT ![m.at] = c]
  BY <1>2 DEF Issued
<1>9. e \in Int /\ 2 * Magnitude(e) <= Scale
  <2>1. /\ -o.qty \in Int /\ b.avg \in Int /\ (-o.qty) * b.avg \in Int
        /\ Scale * m.total \in Int
    BY <1>1, <1>2, InventoryAssumption DEF Movements
  <2>2. 2 * Magnitude((-o.qty) * b.avg - Scale * Total(-o.qty, b.avg)) <= Scale
    <3> HIDE DEF b
    <3> QED
      BY <2>1, TotalBounds
  <2>3. m.total = Total(-o.qty, b.avg)
    BY <1>2
  <2> QED
    BY <2>1, <2>2, <2>3
<1> HIDE DEF m, c, e
<1>7. /\ c.qty = balance[m.at].qty + m.delta
      /\ c.qty * c.avg = balance[m.at].qty * balance[m.at].avg + Scale * m.total + e
      /\ Unused(m.key)
  BY <1>2, <1>3, <1>4
<1>8. balance[m.at].qty >= 0 /\ m.type # "TRANSFER_IN" /\ ~m.debt =>
        c.qty >= 0 /\ Rounds(m, c.qty, e)
  BY <1>2, <1>5, <1>9 DEF Rounds
<1> HIDE DEF b
<1> QED
  BY <1>2, <1>3, <1>6, <1>7, <1>8, <1>9, OneMoved

LEMMA AdjustedKeeps ==
  ASSUME Inv, NEW o \in Adjustments, Unused(o.key), Adjusted(o), request' \in [Requests -> Serving \cup {Idle}]
  PROVE  Inv'
<1> DEFINE b == balance[o.at]
           m == Movement(o, "ADJUST", o.at, o.count - b.qty, b.avg)
           c == [qty |-> o.count, avg |-> b.avg]
           e == (o.count - b.qty) * b.avg - Scale * m.total
<1>1. /\ o \in Operations /\ o.at \in Warehouses /\ o.count \in Int
      /\ b \in [qty : Int, avg : Int] /\ o.kind = "ADJUST"
  BY InventoryAssumption DEF Operations, Adjustments, Inv, TypeOK
<1>2. /\ m \in Movements /\ m.key = o.key /\ m.at = o.at /\ m.delta = o.count - b.qty
      /\ m.total = Total(o.count - b.qty, b.avg) /\ m.type = "ADJUST" /\ m.debt = MayOwe(o)
  <2>1. m \in Movements
    BY <1>1, MovementType
  <2> QED
    BY <2>1 DEF Movement
<1>3. c \in [qty : Int, avg : Int] /\ c.qty = b.qty + m.delta
  BY <1>1, <1>2
<1>4. c.qty * c.avg = b.qty * b.avg + Scale * m.total + e
  <2>1. c.qty * c.avg = b.qty * b.avg + (o.count - b.qty) * b.avg
    BY <1>1
  <2>2. /\ b.qty * b.avg \in Int /\ (o.count - b.qty) * b.avg \in Int
        /\ Scale * m.total \in Int
    BY <1>1, <1>2, InventoryAssumption DEF Movements
  <2> HIDE DEF m, c, b
  <2> QED
    BY <2>1, <2>2
<1>5. ~m.debt => c.qty >= 0
  <2> SUFFICES ASSUME ~m.debt PROVE c.qty >= 0
    OBVIOUS
  <2>1. ~MayOwe(o)
    BY <1>2
  <2> QED
    BY <1>1, <2>1 DEF MayOwe
<1>6. moved' = moved \cup {m} /\ balance' = [balance EXCEPT ![m.at] = c]
  <2>1. balance' = [balance EXCEPT ![o.at] = [@ EXCEPT !.qty = o.count]]
    BY DEF Adjusted
  <2>2. [b EXCEPT !.qty = o.count] = c
    BY <1>1
  <2> QED
    BY <1>2, <2>1, <2>2 DEF Adjusted
<1>9. e \in Int /\ 2 * Magnitude(e) <= Scale
  <2>1. /\ o.count - b.qty \in Int /\ b.avg \in Int /\ (o.count - b.qty) * b.avg \in Int
        /\ Scale * m.total \in Int
    BY <1>1, <1>2, InventoryAssumption DEF Movements
  <2>2. 2 * Magnitude((o.count - b.qty) * b.avg - Scale * Total(o.count - b.qty, b.avg)) <= Scale
    <3> HIDE DEF b
    <3> QED
      BY <2>1, TotalBounds
  <2>3. m.total = Total(o.count - b.qty, b.avg)
    BY <1>2
  <2> QED
    BY <2>1, <2>2, <2>3
<1> HIDE DEF m, c, e
<1>7. /\ c.qty = balance[m.at].qty + m.delta
      /\ c.qty * c.avg = balance[m.at].qty * balance[m.at].avg + Scale * m.total + e
      /\ Unused(m.key)
  BY <1>2, <1>3, <1>4
<1>8. balance[m.at].qty >= 0 /\ m.type # "TRANSFER_IN" /\ ~m.debt =>
        c.qty >= 0 /\ Rounds(m, c.qty, e)
  BY <1>2, <1>5, <1>9 DEF Rounds
<1> HIDE DEF b
<1> QED
  BY <1>2, <1>3, <1>6, <1>7, <1>8, <1>9, OneMoved

\* A transfer moves the same quantity out of one warehouse and into the other.
LEMMA TransferredKeeps ==
  ASSUME Inv, NEW o \in Transfers, Unused(o.key), Enough(o), Transferred(o),
         request' \in [Requests -> Serving \cup {Idle}]
  PROVE  Inv'
<1> DEFINE b == balance[o.at]
           m == Movement(o, "TRANSFER_OUT", o.at, -o.qty, b.avg)
           n == Movement(o, "TRANSFER_IN", o.to, o.qty, b.avg)
           c == Lowered(b, o.qty)
           d == Raised(balance[o.to], o.qty, b.avg)
           e == (-o.qty) * b.avg - Scale * m.total
           f == d.qty * d.avg - balance[o.to].qty * balance[o.to].avg - Scale * n.total
<1>1. /\ o \in Operations /\ o.at \in Warehouses /\ o.to \in Warehouses /\ o.at # o.to
      /\ o.qty \in Nat \ {0} /\ o.kind = "TRANSFER"
      /\ b \in [qty : Int, avg : Int] /\ balance[o.to] \in [qty : Int, avg : Int]
  BY InventoryAssumption DEF Operations, Transfers, Inv, TypeOK
<1>2. /\ m \in Movements /\ m.key = o.key /\ m.at = o.at /\ m.delta = -o.qty
      /\ m.total = Total(-o.qty, b.avg) /\ m.type = "TRANSFER_OUT"
  <2>1. m \in Movements
    BY <1>1, MovementType
  <2> QED
    BY <2>1 DEF Movement
<1>3. /\ n \in Movements /\ n.key = o.key /\ n.at = o.to /\ n.delta = o.qty
      /\ n.type = "TRANSFER_IN"
  <2>1. n \in Movements
    BY <1>1, MovementType
  <2> QED
    BY <2>1 DEF Movement
<1>4. /\ c \in [qty : Int, avg : Int] /\ c.qty = b.qty + m.delta
      /\ d \in [qty : Int, avg : Int] /\ d.qty = balance[o.to].qty + n.delta
  BY <1>1, <1>2, <1>3 DEF Lowered, Raised
<1>5. c.qty * c.avg = b.qty * b.avg + Scale * m.total + e
  <2>1. c.qty * c.avg = b.qty * b.avg + (-o.qty) * b.avg
    <3>1. b.qty * b.avg + (-o.qty) * b.avg = (b.qty - o.qty) * b.avg
      BY <1>1
    <3> QED
      BY <1>1, <3>1 DEF Lowered
  <2>2. b.qty * b.avg \in Int /\ (-o.qty) * b.avg \in Int /\ Scale * m.total \in Int
    BY <1>1, <1>2, InventoryAssumption DEF Movements
  <2> HIDE DEF m, c, b
  <2> QED
    BY <2>1, <2>2
<1>6. f \in Int /\ d.qty * d.avg = balance[o.to].qty * balance[o.to].avg + Scale * n.total + f
  <2>1. Scale * n.total \in Int
    BY <1>3, InventoryAssumption DEF Movements
  <2>2. d.qty * d.avg \in Int /\ balance[o.to].qty * balance[o.to].avg \in Int
    BY <1>1, <1>4
  <2> HIDE DEF d, n
  <2> QED
    BY <2>1, <2>2
<1>7. c.qty >= 0
  BY <1>1, <1>2, <1>4 DEF Enough
<1>8. /\ balance \in [Warehouses -> [qty : Int, avg : Int]] /\ moved \subseteq Movements
      /\ IsFiniteSet(moved) /\ OncePerKey
  BY DEF Inv, TypeOK
<1>9. /\ moved' = moved \cup {m, n}
      /\ balance' = [balance EXCEPT ![o.at] = c, ![o.to] = d]
  BY <1>1, <1>8 DEF Transferred
<1>10. e \in Int /\ 2 * Magnitude(e) <= Scale
  <2>1. /\ -o.qty \in Int /\ b.avg \in Int /\ (-o.qty) * b.avg \in Int
        /\ Scale * m.total \in Int
    BY <1>1, <1>2, InventoryAssumption DEF Movements
  <2>2. 2 * Magnitude((-o.qty) * b.avg - Scale * Total(-o.qty, b.avg)) <= Scale
    <3> HIDE DEF b
    <3> QED
      BY <2>1, TotalBounds
  <2>3. m.total = Total(-o.qty, b.avg)
    BY <1>2
  <2> QED
    BY <2>1, <2>2, <2>3
<1> HIDE DEF m, n, c, d, e, f
<1>12. m \notin moved /\ n \notin moved
  BY <1>2, <1>3 DEF Unused
<1>13. TypeOK' /\ IsFiniteSet(moved)'
  <2>1. balance' \in [Warehouses -> [qty : Int, avg : Int]]
    BY <1>1, <1>4, <1>8, <1>9
  <2>2. moved' = (moved \cup {m}) \cup {n}
    BY <1>9
  <2> QED
    BY <1>2, <1>3, <1>8, <2>1, <2>2, FS_AddElement DEF TypeOK, Serving
<1>14. OncePerKey'
  <2> SUFFICES ASSUME NEW x \in moved', NEW y \in moved', x.key = y.key, x # y
               PROVE  BothEnds(x, y)
    BY KeyOnce
  <2>1. CASE x \in moved /\ y \in moved
    BY <1>8, <2>1, KeyOnce
  <2>2. CASE x = m /\ y = n
    <3>1. x.delta + y.delta = 0 /\ x.at # y.at
      BY <1>1, <1>2, <1>3, <2>2
    <3> QED
      BY <1>2, <1>3, <2>2, <3>1 DEF BothEnds
  <2>3. CASE x = n /\ y = m
    <3>1. x.delta + y.delta = 0 /\ x.at # y.at
      BY <1>1, <1>2, <1>3, <2>3
    <3> QED
      BY <1>2, <1>3, <2>3, <3>1 DEF BothEnds
  <2>5. (x = m /\ y = n) \/ (x = n /\ y = m) \/ x \in moved \/ y \in moved
    BY <1>9
  <2>4. x \in moved <=> y \in moved
    BY <1>2, <1>3, <1>9 DEF Unused
  <2> QED
    BY <2>1, <2>2, <2>3, <2>4, <2>5
<1>15. ASSUME NEW w \in Warehouses
       PROVE  balance'[w].qty = SumFunctionOnSet(Delta, At(w)') /\ Valued(w)'
  <2>1. CASE w = o.at
    <3>1. At(w)' = At(w) \cup {m} /\ balance'[w] = c
      BY <1>1, <1>2, <1>3, <1>8, <1>9, <2>1 DEF At
    <3>2. /\ balance'[w] \in [qty : Int, avg : Int]
          /\ balance'[w].qty = balance[w].qty + m.delta
          /\ balance'[w].qty * balance'[w].avg = balance[w].qty * balance[w].avg + Scale * m.total + e
      BY <1>4, <1>5, <2>1, <3>1
    <3>3. balance'[w].qty >= 0 /\ Rounds(m, balance'[w].qty, e)
      BY <1>2, <1>7, <1>10, <3>1 DEF Rounds
    <3>4. m \in Movements \ moved /\ m.at = w
      BY <1>2, <1>12, <2>1
    <3> QED
      BY <1>10, <3>1, <3>2, <3>3, <3>4, OneMovement
  <2>2. CASE w = o.to
    <3>1. At(w)' = At(w) \cup {n} /\ balance'[w] = d
      BY <1>1, <1>2, <1>3, <1>8, <1>9, <2>2 DEF At
    <3>2. /\ balance'[w] \in [qty : Int, avg : Int]
          /\ balance'[w].qty = balance[w].qty + n.delta
          /\ balance'[w].qty * balance'[w].avg = balance[w].qty * balance[w].avg + Scale * n.total + f
      BY <1>4, <1>6, <2>2, <3>1
    <3>3. n \in Movements \ moved /\ n.at = w /\ ~(n.type # "TRANSFER_IN")
      BY <1>3, <1>12, <2>2
    <3> QED
      BY <1>6, <3>1, <3>2, <3>3, OneMovement
  <2>3. CASE w # o.at /\ w # o.to
    <3>1. At(w)' = At(w) /\ balance'[w] = balance[w]
      BY <1>1, <1>2, <1>3, <1>8, <1>9, <2>3 DEF At
    <3> QED
      BY <3>1, Untouched
  <2> QED
    BY <2>1, <2>2, <2>3
<1> QED
  BY <1>13, <1>14, <1>15 DEF Inv, StockIsMoved

-----------------------------------------------------------------------------
LEMMA InitInv == Init => Inv
<1> SUFFICES ASSUME Init PROVE Inv
  OBVIOUS
<1>1. moved = {} /\ \A w \in Warehouses : balance[w] = [qty |-> 0, avg |-> 0] /\ At(w) = {}
  BY DEF Init, At
<1>2. TypeOK /\ OncePerKey /\ IsFiniteSet(moved)
  BY <1>1, FS_EmptySet DEF Init, TypeOK, OncePerKey
<1>3. \A w \in Warehouses : /\ balance[w].qty = SumFunctionOnSet(Delta, At(w))
                            /\ Pieces(w) = 0 /\ Booked(w) = 0 /\ Lost(w) = 0
  <2>1. Cardinality({}) = 0 /\ Scale \in Nat
    BY FS_EmptySet, InventoryAssumption
  <2>2. ASSUME NEW w \in Warehouses
        PROVE /\ balance[w].qty = SumFunctionOnSet(Delta, At(w))
              /\ Pieces(w) = 0 /\ Booked(w) = 0 /\ Receipt(w) = {} /\ At(w) \ Receipt(w) = {}
    BY <1>1, EmptySum DEF Pieces, Booked, Receipt
  <2> QED
    BY <2>1, <2>2 DEF Lost
<1>4. \A w \in Warehouses : Valued(w)
  BY <1>1, <1>3, InventoryAssumption DEF Valued, Off, Magnitude
<1> QED
  BY <1>2, <1>3, <1>4 DEF Inv, StockIsMoved

\* Balances and movements change only by an operation that is committed.
LEMMA SameStock ==
  ASSUME Inv, UNCHANGED <<balance, moved>>,
         request' \in [Requests -> Serving \cup {Idle}]
  PROVE  Inv'
<1>1. \A w \in Warehouses : At(w)' = At(w) /\ balance'[w] = balance[w]
  BY DEF At
<1>2. \A w \in Warehouses : balance'[w].qty = SumFunctionOnSet(Delta, At(w)') /\ Valued(w)'
  BY <1>1, Untouched
<1>3. TypeOK' /\ IsFiniteSet(moved)' /\ OncePerKey'
  BY DEF Inv, TypeOK, OncePerKey, Serving
<1> QED
  BY <1>2, <1>3 DEF Inv, StockIsMoved

LEMMA NextInv == Inv /\ [Next]_vars => Inv'
<1> SUFFICES ASSUME Inv, [Next]_vars PROVE Inv'
  OBVIOUS
<1>1. request \in [Requests -> Serving \cup {Idle}]
  BY DEF Inv, TypeOK, Serving
<1>2. \A r \in Requests : Ends(r) => request' \in [Requests -> Serving \cup {Idle}]
  BY <1>1 DEF Ends
<1>3. ASSUME NEW r \in Requests, NEW o \in Operations, Start(r, o.key, Needs(o)) PROVE Inv'
  <2>1. o.key \in Keys /\ Needs(o) \in SUBSET Warehouses
    BY DEF Operations, Receipts, Issues, Adjustments, Transfers, Needs
  <2>2. [busy |-> TRUE, key |-> o.key, needs |-> Needs(o), locks |-> {}] \in Serving
    BY <2>1 DEF Serving
  <2>3. request' \in [Requests -> Serving \cup {Idle}]
    BY <1>1, <1>3, <2>2 DEF Start
  <2> QED
    BY <1>3, <2>3, SameStock DEF Start
<1>4. ASSUME NEW r \in Requests, NEW w \in Warehouses, Lock(r, w) PROVE Inv'
  <2>1. request[r] \in Serving
    BY <1>1, <1>4 DEF Lock, LacksLock
  <2>2. [request[r] EXCEPT !.locks = @ \cup {w}] \in Serving
    BY <2>1 DEF Serving
  <2>3. request' \in [Requests -> Serving \cup {Idle}]
    BY <1>1, <1>4, <2>2 DEF Lock
  <2> QED
    BY <1>4, <2>3, SameStock DEF Lock
<1>5. ASSUME NEW r \in Requests, NEW o \in Operations, Commit(r, o) PROVE Inv'
  <2>1. Unused(o.key) /\ Enough(o) /\ request' \in [Requests -> Serving \cup {Idle}]
    BY <1>2, <1>5 DEF Commit, Insertable
  <2>2. \/ o \in Receipts /\ Received(o)
        \/ o \in Issues /\ Issued(o)
        \/ o \in Adjustments /\ Adjusted(o)
        \/ o \in Transfers /\ Transferred(o)
    BY <1>5 DEF Commit, Operations, Receipts, Issues, Adjustments, Transfers
  <2> QED
    BY <2>1, <2>2, ReceivedKeeps, IssuedKeeps, AdjustedKeeps, TransferredKeeps
<1>6. ASSUME NEW r \in Requests, NEW o \in Operations, Refuse(r, o) PROVE Inv'
  BY <1>2, <1>6, SameStock DEF Refuse
<1>7. ASSUME NEW r \in Requests, Victim(r) PROVE Inv'
  BY <1>2, <1>7, SameStock DEF Victim
<1>8. CASE UNCHANGED vars
  BY <1>1, <1>8, SameStock DEF vars
<1> QED
  BY <1>3, <1>4, <1>5, <1>6, <1>7, <1>8 DEF Next, Serve

LEMMA InvHolds == Spec => []Inv
<1> QED
  BY InitInv, NextInv, PTL DEF Spec

\* Balances, movements and requests keep their types: a quantity and an average cost stay
\* whole numbers of their units whatever is divided and rounded.
THEOREM StockType == Spec => []TypeOK
<1>1. Inv => TypeOK
  BY DEF Inv
<1> QED
  BY <1>1, InvHolds, PTL

\* However requests with one key interleave between looking it up and inserting the
\* movement, the key moves stock once (_idempotent_movement_existing, the unique key).
THEOREM KeysMoveOnce == Spec => []OncePerKey
<1>1. Inv => OncePerKey
  BY DEF Inv
<1> QED
  BY <1>1, InvHolds, PTL

\* The balance a warehouse shows is the sum of the movements recorded for it.
THEOREM BalanceIsSum == Spec => []StockIsMoved
<1>1. Inv => StockIsMoved
  BY DEF Inv
<1> QED
  BY <1>1, InvHolds, PTL

\* Rounded averages and totals lose half a unit of cost per piece and receipt and per other
\* movement at most: the stock of a warehouse is worth what its movements booked.
THEOREM StockIsWorth == Spec => []ValueIsBooked
<1>1. Inv => ValueIsBooked
  BY DEF Inv, ValueIsBooked, Valued, Bought, Off
<1> QED
  BY <1>1, InvHolds, PTL
=============================================================================
