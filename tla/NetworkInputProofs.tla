------------------------- MODULE NetworkInputProofs -------------------------
(***************************************************************************)
(* What the kernels of BatchApp compute, for frames and inputs of any      *)
(* size, batches of any length and blocks of any size: the network gets    *)
(* every frame of a batch letterboxed, and the host the objects of its     *)
(* answer to that frame.                                                   *)
(*                                                                         *)
(* The order is that of the code: sums and divisions first, then the       *)
(* resize kernel, the launch and the other kernels, the slots of a buffer, *)
(* copy() and preprocess(), and at last the kernels behind the network.    *)
(* Both recursive definitions, the sum over the pixels and the loop over   *)
(* the classes, are settled by the least set or class that were wrong.     *)
(***************************************************************************)
EXTENDS BatchAppProofs, NaturalsInduction

\* Every nonempty set of natural numbers has a least element.
LEMMA LeastOfNaturals ==
  ASSUME NEW T \in SUBSET Nat, T # {}
  PROVE  \E x \in T : \A y \in T : x <= y
<1>1. IsWellFoundedOn(OpToRel(<, Nat), Nat)
  BY NatLessThanWellFounded
<1>2. PICK x \in T : \A y \in T : ~ (<<y, x>> \in OpToRel(<, Nat))
  BY <1>1, WFMin
<1>3. ASSUME NEW y \in T
      PROVE  x <= y
  <2>1. ~ (y < x)
    BY <1>2 DEF OpToRel
  <2>2. x \in Nat /\ y \in Nat
    OBVIOUS
  <2> QED
    BY <2>1, <2>2
<1> QED
  BY <1>3

\* The element of a set that a fold takes first.
First(S) == CHOOSE x \in S : TRUE

\* g sums up v over the sets in D, an element after the other.
SumsUp(g, v, D) ==
  g = [S \in D |-> IF S = {} THEN 0 ELSE v[First(S)] + g[S \ {First(S)}]]

\* The sums exist: those of a set of n + 1 elements from those of n.
LEMMA SumsExist ==
  ASSUME NEW S, IsFiniteSet(S), NEW v
  PROVE  \E g : SumsUp(g, v, SUBSET S)
<1> DEFINE Small(n) == {u \in SUBSET S : Cardinality(u) <= n}
           T == {n \in Nat : ~\E g : SumsUp(g, v, Small(n))}
<1>1. ASSUME NEW u \in SUBSET S
      PROVE  /\ Cardinality(u) \in Nat /\ Cardinality(u) <= Cardinality(S)
             /\ Cardinality(u) = 0 <=> u = {}
             /\ u # {} => /\ First(u) \in u
                          /\ Cardinality(u \ {First(u)}) = Cardinality(u) - 1
  <2>1. IsFiniteSet(u) /\ Cardinality(u) <= Cardinality(S)
    BY FS_Subset
  <2>2. Cardinality(u) \in Nat /\ (Cardinality(u) = 0 <=> u = {})
    BY <2>1, FS_CardinalityType, FS_EmptySet
  <2>3. u # {} => First(u) \in u
    BY DEF First
  <2>4. u # {} => Cardinality(u \ {First(u)}) = Cardinality(u) - 1
    BY <2>1, <2>3, FS_RemoveElement
  <2> QED
    BY <2>1, <2>2, <2>3, <2>4
<1>2. T = {}
  <2> SUFFICES ASSUME T # {} PROVE FALSE
    OBVIOUS
  <2>1. PICK n \in T : \A m \in T : n <= m
    BY LeastOfNaturals
  <2>2. n # 0
    <3> SUFFICES ASSUME n = 0 PROVE FALSE
      OBVIOUS
    <3>1. ASSUME NEW u \in Small(0) PROVE u = {}
      <4>1. Cardinality(u) \in Nat /\ Cardinality(u) <= 0
        BY <1>1
      <4>2. Cardinality(u) = 0
        BY <4>1
      <4> QED
        BY <1>1, <4>2
    <3> DEFINE g == [u \in Small(0) |-> 0]
    <3>2. SumsUp(g, v, Small(0))
      BY <3>1 DEF SumsUp
    <3> QED
      BY <3>2
  <2>3. n \in Nat /\ n - 1 \in Nat /\ n - 1 \notin T
    <3>1. n \in Nat
      OBVIOUS
    <3> HIDE DEF T
    <3> QED
      BY <2>1, <2>2, <3>1
  <2>4. PICK g : SumsUp(g, v, Small(n - 1))
    BY <2>3
  <2> DEFINE h == [u \in Small(n) |->
                     IF u = {} THEN 0 ELSE v[First(u)] + g[u \ {First(u)}]]
  <2>5. ASSUME NEW u \in Small(n), u # {}
        PROVE  u \ {First(u)} \in Small(n - 1)
    BY <1>1, <2>3, <2>5
  <2>6. ASSUME NEW u \in Small(n - 1)
        PROVE  h[u] = g[u]
    <3>1. u \in Small(n)
      <4>1. Cardinality(u) \in Nat /\ Cardinality(u) <= n - 1
        BY <1>1
      <4>2. Cardinality(u) <= n
        BY <2>3, <4>1
      <4> QED
        BY <4>2
    <3> QED
      BY <2>4, <3>1 DEF SumsUp
  <2>7. SumsUp(h, v, Small(n))
    BY <2>5, <2>6 DEF SumsUp
  <2> QED
    BY <2>7
<1>3. SUBSET S = Small(Cardinality(S))
  BY <1>1
<1>4. Cardinality(S) \in Nat
  BY FS_CardinalityType
<1>5. \E g : SumsUp(g, v, Small(Cardinality(S)))
  BY <1>2, <1>4
<1> QED
  BY <1>3, <1>5

Part(v, S, x) == IF x \in S THEN v[x] ELSE 0

\* Elements that count for nothing may be left out of a sum: here all but four.
LEMMA SumOfFour ==
  ASSUME NEW S, IsFiniteSet(S), NEW v \in [S -> Int], NEW g,
         SumsUp(g, v, SUBSET S),
         NEW a, NEW b, NEW c, NEW e,
         a # b, a # c, a # e, b # c, b # e, c # e,
         \A x \in S \ {a, b, c, e} : v[x] = 0
  PROVE  g[S] = Part(v, S, a) + Part(v, S, b) + Part(v, S, c) + Part(v, S, e)
<1> DEFINE Four(u) == Part(v, u, a) + Part(v, u, b) + Part(v, u, c) + Part(v, u, e)
           T == {Cardinality(u) : u \in {u \in SUBSET S : g[u] # Four(u)}}
<1>1. ASSUME NEW u \in SUBSET S
      PROVE  /\ IsFiniteSet(u) /\ Cardinality(u) \in Nat
             /\ Four(u) \in Int
    BY FS_Subset, FS_CardinalityType DEF Part
<1>2. T = {}
  <2> SUFFICES ASSUME T # {} PROVE FALSE
    OBVIOUS
  <2>0. T \in SUBSET Nat
    BY <1>1
  <2>1. PICK n \in T : \A m \in T : n <= m
    BY <2>0, LeastOfNaturals
  <2>2. PICK u \in SUBSET S : g[u] # Four(u) /\ n = Cardinality(u)
    OBVIOUS
  <2>3. u # {}
    BY <2>2 DEF SumsUp, Part
  <2> DEFINE x == First(u)
             t == u \ {x}
  <2>4. x \in u
    BY <2>3 DEF First
  <2> HIDE DEF x
  <2>5. Cardinality(t) = n - 1 /\ n \in Nat
    BY <1>1, <2>2, <2>4, FS_RemoveElement
  <2>6. n - 1 \notin T
    BY <2>1, <2>5
  <2>7. g[t] = Four(t)
    BY <2>5, <2>6
  <2>8. g[u] = v[x] + g[t]
    BY <2>3 DEF SumsUp, x
  <2>9. Four(u) = v[x] + Four(t)
    <3> DEFINE P(y) == Part(v, u, y)
               Q(y) == Part(v, t, y)
    <3>1. /\ a # x => P(a) = Q(a)
          /\ b # x => P(b) = Q(b)
          /\ c # x => P(c) = Q(c)
          /\ e # x => P(e) = Q(e)
      BY DEF Part
    <3>2. P(x) = v[x] /\ Q(x) = 0 /\ v[x] \in Int
      BY <2>4 DEF Part
    <3>3. Q(a) \in Int /\ Q(b) \in Int /\ Q(c) \in Int /\ Q(e) \in Int
      BY DEF Part
    <3>4. Four(u) = P(a) + P(b) + P(c) + P(e) /\ Four(t) = Q(a) + Q(b) + Q(c) + Q(e)
      OBVIOUS
    <3>5. CASE x \notin {a, b, c, e}
      <4>1. v[x] = 0
        BY <2>4, <3>5
      <4>2. Four(u) = Four(t)
        BY <3>1, <3>4, <3>5
      <4>3. Four(t) \in Int
        BY <3>3
      <4> HIDE DEF Four
      <4> QED
        BY <4>1, <4>2, <4>3
    <3> HIDE DEF P, Q, Four
    <3>6. CASE x = a
      BY <3>1, <3>2, <3>3, <3>4, <3>6
    <3>7. CASE x = b
      BY <3>1, <3>2, <3>3, <3>4, <3>7
    <3>8. CASE x = c
      BY <3>1, <3>2, <3>3, <3>4, <3>8
    <3>9. CASE x = e
      BY <3>1, <3>2, <3>3, <3>4, <3>9
    <3> QED
      BY <3>5, <3>6, <3>7, <3>8, <3>9
  <2> QED
    BY <2>2, <2>7, <2>8, <2>9
<1> QED
  BY <1>2

\* The quotient and the remainder are the only ones.
LEMMA DivisionUnique ==
  ASSUME NEW a \in Int, NEW m \in Nat, m > 0, NEW q \in Int, NEW r \in 0 .. m - 1,
         a = q * m + r
  PROVE  q = a \div m /\ r = a % m
<1>1. q = a \div m
  BY Z3
<1>2. a = (a \div m) * m + (a % m) /\ a % m \in Int
  BY Z3
<1> DEFINE n == (a \div m) * m
<1>3. n = q * m /\ n \in Int
  BY <1>1
<1> HIDE DEF n
<1>4. a = n + r /\ a = n + (a % m)
  BY <1>2, <1>3 DEF n
<1>5. r = a % m
  BY <1>2, <1>3, <1>4
<1> QED
  BY <1>1, <1>5

\* Quotient and remainder of an integer by a positive number.
LEMMA IntDivision ==
  ASSUME NEW a \in Int, NEW m \in Nat, m > 0
  PROVE  a \div m \in Int /\ a % m \in 0 .. m - 1 /\ a = (a \div m) * m + (a % m)
<1>1. a \div m \in Int
  OBVIOUS
<1>2. a % m \in 0 .. m - 1
  OBVIOUS
<1>3. a = (a \div m) * m + (a % m)
  OBVIOUS
<1> QED
  BY <1>1, <1>2, <1>3

\* Whole multiples pass through a division.
LEMMA DivisionOfSum ==
  ASSUME NEW a \in Int, NEW m \in Nat, m > 0, NEW k \in Int
  PROVE  (a + k * m) \div m = (a \div m) + k
<1> DEFINE q == a \div m
           r == a % m
<1>1. q \in Int /\ r \in 0 .. m - 1 /\ a = q * m + r
  BY IntDivision
<1> HIDE DEF q, r
<1>2. (q + k) * m = q * m + k * m /\ q * m \in Int /\ k * m \in Int
  BY <1>1
<1>3. a + k * m = (q + k) * m + r
  BY <1>1, <1>2
<1>4. q + k \in Int /\ a + k * m \in Int
  BY <1>1, <1>2
<1>5. q + k = (a + k * m) \div m
  BY <1>1, <1>3, <1>4, DivisionUnique
<1> QED
  BY <1>5 DEF q

\* Along an axis a point counts for the source pixels on its two sides only.
LEMMA TwoTents ==
  ASSUME NEW z \in Int, NEW unit \in Nat, unit > 0
  PROVE  /\ Tent(z, z \div unit, unit) = unit - (z % unit)
         /\ Tent(z, (z \div unit) + 1, unit) = z % unit
         /\ \A i \in Int : i \notin {z \div unit, (z \div unit) + 1} =>
              Tent(z, i, unit) = 0
         /\ \A i \in Int : Tent(z, i, unit) \in Nat
<1> DEFINE low == z \div unit
           l == z % unit
<1>1. low \in Int /\ l \in 0 .. unit - 1 /\ z = low * unit + l
  BY IntDivision
<1> HIDE DEF low, l
<1>2. low * unit \in Int
  BY <1>1
<1>3. z - low * unit = l
  BY <1>1, <1>2
<1>4. Tent(z, low, unit) = unit - l
  BY <1>1, <1>3 DEF Tent, Abs
<1>5. (low + 1) * unit = low * unit + unit
  BY <1>1
<1>6. z - (low + 1) * unit = l - unit
  BY <1>1, <1>2, <1>5
<1>7. Tent(z, low + 1, unit) = l
  BY <1>1, <1>6 DEF Tent, Abs
<1>8. ASSUME NEW i \in Int, i \notin {low, low + 1}
      PROVE  Tent(z, i, unit) = 0
  <2> DEFINE m == i * unit
             n == low * unit
  <2>1. m \in Int /\ n \in Int /\ z = n + l
    BY <1>1
  <2>2. CASE i <= low - 1
    <3>1. m <= n - unit
      BY <1>1, <2>2
    <3> HIDE DEF m, n
    <3>2. z - m >= unit
      BY <1>1, <2>1, <3>1
    <3>3. Abs(z - m) = z - m /\ z - m \in Int
      BY <2>1, <3>2 DEF Abs
    <3>4. ~(Abs(z - m) < unit)
      BY <3>2, <3>3
    <3> QED
      BY <3>4 DEF Tent, m
  <2>3. CASE i >= low + 2
    <3>1. m >= n + 2 * unit
      BY <1>1, <2>3
    <3> HIDE DEF m, n
    <3>2. z - m <= -unit /\ z - m \in Int
      BY <1>1, <2>1, <3>1
    <3>3. ~(Abs(z - m) < unit)
      BY <3>2 DEF Abs
    <3> QED
      BY <3>3 DEF Tent, m
  <2> QED
    BY <1>1, <1>8, <2>2, <2>3
<1>9. ASSUME NEW i \in Int PROVE Tent(z, i, unit) \in Nat
  <2> DEFINE m == z - i * unit
  <2>1. m \in Int
    OBVIOUS
  <2> HIDE DEF m
  <2>2. Abs(m) \in Nat
    BY <2>1 DEF Abs
  <2>3. Abs(m) < unit => unit - Abs(m) \in Nat
    BY <2>2
  <2> QED
    BY <2>3 DEF Tent, m
<1> QED
  BY <1>4, <1>7, <1>8, <1>9 DEF low, l

-----------------------------------------------------------------------------
(* Letterboxing. *)

UnitOf(sz, dz) == 2 * Scale(sz, dz)[1]
RowOf(sz, dz, y) == DstToSrc(y, dz.h, sz.h, Scale(sz, dz))
ColOf(sz, dz, x) == DstToSrc(x, dz.w, sz.w, Scale(sz, dz))

\* How far the source pixel at row r and column c differs from the padding, which
\* surrounds the picture.
Differs(f, sz, r, c, k) ==
  IF r \in 0 .. sz.h - 1 /\ c \in 0 .. sz.w - 1 THEN Pixel(f, r, c, k) - Padding ELSE 0

\* The weighted differences of four pixels around a point.
FourDiffer(f, sz, unit, r, c, a, b, k) ==
    (unit - a) * (unit - b) * Differs(f, sz, r, c, k)
  + (unit - a) * b * Differs(f, sz, r, c + 1, k)
  + a * (unit - b) * Differs(f, sz, r + 1, c, k)
  + a * b * Differs(f, sz, r + 1, c + 1, k)

\* The sum of Letterboxed for channel k of the point at row y and column x.
Moved(f, sz, dz, y, x, k) ==
  MapThenSumSet(
    LAMBDA q : Tent(RowOf(sz, dz, y), q[1], UnitOf(sz, dz))
                 * Tent(ColOf(sz, dz, x), q[2], UnitOf(sz, dz))
                 * (Pixel(f, q[1], q[2], 2 - k) - Padding),
    (0 .. sz.h - 1) \X (0 .. sz.w - 1))

\* The unit and the coordinates of the resize kernel are integers.
LEMMA Scales ==
  ASSUME NEW sz \in Sizes, NEW dz \in Sizes
  PROVE  /\ Scale(sz, dz)[1] \in Lengths /\ Scale(sz, dz)[2] \in Lengths
         /\ UnitOf(sz, dz) \in Nat /\ UnitOf(sz, dz) > 0
         /\ \A i \in Int : RowOf(sz, dz, i) \in Int /\ ColOf(sz, dz, i) \in Int
<1>1. sz.h \in Lengths /\ sz.w \in Lengths /\ dz.h \in Lengths /\ dz.w \in Lengths
  BY DEF Sizes
<1>2. Scale(sz, dz)[1] \in Lengths /\ Scale(sz, dz)[2] \in Lengths
  BY <1>1 DEF Scale
<1> QED
  BY <1>1, <1>2 DEF Lengths, UnitOf, RowOf, ColOf, DstToSrc

\* Of all the pixels of the picture only the four around the point count.
LEMMA FourCount ==
  ASSUME NEW f, NEW sz \in Sizes, NEW dz \in Sizes, NEW y \in Int, NEW x \in Int,
         NEW k \in Int,
         \A r \in 0 .. sz.h - 1, c \in 0 .. sz.w - 1 : Pixel(f, r, c, 2 - k) \in Int,
         NEW r, r = RowOf(sz, dz, y) \div UnitOf(sz, dz),
         NEW c, c = ColOf(sz, dz, x) \div UnitOf(sz, dz),
         NEW a, a = RowOf(sz, dz, y) % UnitOf(sz, dz),
         NEW b, b = ColOf(sz, dz, x) % UnitOf(sz, dz)
  PROVE  Moved(f, sz, dz, y, x, k)
           = FourDiffer(f, sz, UnitOf(sz, dz), r, c, a, b, 2 - k)
<1> DEFINE unit == UnitOf(sz, dz)
           sy == RowOf(sz, dz, y)
           sx == ColOf(sz, dz, x)
           S == (0 .. sz.h - 1) \X (0 .. sz.w - 1)
           val(q) == Tent(sy, q[1], unit) * Tent(sx, q[2], unit)
                       * (Pixel(f, q[1], q[2], 2 - k) - Padding)
           v == [q \in S |-> val(q)]
<1>1. unit \in Nat /\ unit > 0 /\ sy \in Int /\ sx \in Int /\ Padding \in Int
  BY Scales, KernelAssumption DEF KernelAssumption
<1>2. sz.h \in Nat /\ sz.w \in Nat
  BY DEF Sizes, Lengths
<1>3. IsFiniteSet(S)
  <2>1. IsFiniteSet(0 .. sz.h - 1) /\ IsFiniteSet(0 .. sz.w - 1)
    <3>1. 0 \in Int /\ sz.h - 1 \in Int /\ sz.w - 1 \in Int
      BY <1>2
    <3> QED
      BY <3>1, FS_Interval
  <2> QED
    BY <2>1, FS_Product
<1>4. PICK g : SumsUp(g, v, SUBSET S)
  <2> HIDE DEF S, v
  <2> QED
    BY <1>3, SumsExist
<1>5. PICK t : /\ t = [u \in SUBSET S |->
                         IF u = {} THEN 0
                         ELSE val(CHOOSE q \in u : TRUE) + t[u \ {CHOOSE q \in u : TRUE}]]
               /\ MapThenSumSet(val, S) = t[S]
  <2>1. g = [u \in SUBSET S |->
               IF u = {} THEN 0
               ELSE val(CHOOSE q \in u : TRUE) + g[u \ {CHOOSE q \in u : TRUE}]]
    <3> HIDE DEF val, S
    <3>1. \A u \in SUBSET S : u # {} => v[First(u)] = val(First(u))
      BY DEF First
    <3> HIDE DEF v
    <3> QED
      BY <1>4, <3>1 DEF SumsUp, First
  <2> HIDE DEF S, v, val
  <2> QED
    BY <2>1 DEF MapThenSumSet, MapThenFoldSet
<1> HIDE DEF val, S
<1>6. SumsUp(t, v, SUBSET S) /\ MapThenSumSet(val, S) = t[S]
  <2>1. \A u \in SUBSET S : u # {} => v[First(u)] = val(First(u))
    BY DEF First
  <2> HIDE DEF v
  <2> QED
    BY <1>5, <2>1 DEF SumsUp, First
<1> USE DEF val, S
<1>7. r \in Int /\ c \in Int /\ a \in 0 .. unit - 1 /\ b \in 0 .. unit - 1
  BY <1>1, IntDivision
<1>8. /\ Tent(sy, r, unit) = unit - a /\ Tent(sy, r + 1, unit) = a
      /\ \A i \in Int : i \notin {r, r + 1} => Tent(sy, i, unit) = 0
      /\ \A i \in Int : Tent(sy, i, unit) \in Nat
  BY <1>1, TwoTents
<1>9. /\ Tent(sx, c, unit) = unit - b /\ Tent(sx, c + 1, unit) = b
      /\ \A i \in Int : i \notin {c, c + 1} => Tent(sx, i, unit) = 0
      /\ \A i \in Int : Tent(sx, i, unit) \in Nat
  BY <1>1, TwoTents
<1> HIDE DEF unit, sy, sx
<1>10. ASSUME NEW i \in 0 .. sz.h - 1, NEW j \in 0 .. sz.w - 1
       PROVE  /\ <<i, j>> \in S /\ v[<<i, j>>] \in Int
              /\ v[<<i, j>>] = Tent(sy, i, unit) * Tent(sx, j, unit)
                                 * (Pixel(f, i, j, 2 - k) - Padding)
              /\ <<i, j>> \notin {<<r, c>>, <<r, c + 1>>, <<r + 1, c>>, <<r + 1, c + 1>>}
                   => v[<<i, j>>] = 0
  <2>1. /\ <<i, j>> \in S
        /\ v[<<i, j>>] = Tent(sy, i, unit) * Tent(sx, j, unit)
                           * (Pixel(f, i, j, 2 - k) - Padding)
    OBVIOUS
  <2> DEFINE p == Pixel(f, i, j, 2 - k) - Padding
             ty == Tent(sy, i, unit)
             tx == Tent(sx, j, unit)
  <2>2. p \in Int
    BY <1>1
  <2>3. ty \in Int /\ tx \in Int
    BY <1>2, <1>8, <1>9
  <2>4. <<i, j>> \notin {<<r, c>>, <<r, c + 1>>, <<r + 1, c>>, <<r + 1, c + 1>>}
          => ty = 0 \/ tx = 0
    BY <1>2, <1>8, <1>9
  <2>5. v[<<i, j>>] = ty * tx * p
    BY <2>1
  <2> HIDE DEF p, ty, tx, v
  <2>6. ty * tx * p \in Int /\ (ty = 0 \/ tx = 0 => ty * tx * p = 0)
    BY <2>2, <2>3
  <2> QED
    BY <2>1, <2>4, <2>5, <2>6
<1>11. t[S] = Part(v, S, <<r, c>>) + Part(v, S, <<r, c + 1>>)
                + Part(v, S, <<r + 1, c>>) + Part(v, S, <<r + 1, c + 1>>)
  <2>1. \A q \in S : \E i \in 0 .. sz.h - 1, j \in 0 .. sz.w - 1 : q = <<i, j>>
    OBVIOUS
  <2>2. v \in [S -> Int]
    BY <1>10, <2>1
  <2>3. \A q \in S \ {<<r, c>>, <<r, c + 1>>, <<r + 1, c>>, <<r + 1, c + 1>>} : v[q] = 0
    <3> HIDE DEF S, v
    <3> QED
      BY <1>10, <2>1
  <2>4. /\ <<r, c>> # <<r, c + 1>> /\ <<r, c>> # <<r + 1, c>>
        /\ <<r, c>> # <<r + 1, c + 1>> /\ <<r, c + 1>> # <<r + 1, c>>
        /\ <<r, c + 1>> # <<r + 1, c + 1>> /\ <<r + 1, c>> # <<r + 1, c + 1>>
    BY <1>7
  <2> DEFINE p1 == <<r, c>>
             p2 == <<r, c + 1>>
             p3 == <<r + 1, c>>
             p4 == <<r + 1, c + 1>>
  <2>5. SumsUp(t, v, SUBSET S)
    BY <1>6
  <2>6. /\ p1 # p2 /\ p1 # p3 /\ p1 # p4 /\ p2 # p3 /\ p2 # p4 /\ p3 # p4
        /\ \A q \in S \ {p1, p2, p3, p4} : v[q] = 0
    BY <2>3, <2>4
  <2>7. t[S] = Part(v, S, p1) + Part(v, S, p2) + Part(v, S, p3) + Part(v, S, p4)
    <3> HIDE DEF S, v, p1, p2, p3, p4
    <3> QED
      BY <1>3, <2>2, <2>5, <2>6, SumOfFour
  <2> QED
    BY <2>7
<1>12. ASSUME NEW i \in Int, NEW j \in Int
       PROVE  Part(v, S, <<i, j>>) = Tent(sy, i, unit) * Tent(sx, j, unit)
                                       * Differs(f, sz, i, j, 2 - k)
  <2>1. <<i, j>> \in S <=> i \in 0 .. sz.h - 1 /\ j \in 0 .. sz.w - 1
    OBVIOUS
  <2>2. CASE <<i, j>> \in S
    <3> HIDE DEF S, v
    <3> QED
      BY <1>10, <2>1, <2>2 DEF Part, Differs
  <2>3. CASE <<i, j>> \notin S
    <3> HIDE DEF S, v
    <3>1. Part(v, S, <<i, j>>) = 0 /\ Differs(f, sz, i, j, 2 - k) = 0
      BY <2>1, <2>3 DEF Part, Differs
    <3> DEFINE m == Tent(sy, i, unit) * Tent(sx, j, unit)
    <3>2. m \in Int
      BY <1>8, <1>9
    <3> HIDE DEF m
    <3>3. m * 0 = 0
      BY <3>2
    <3> QED
      BY <3>1, <3>3 DEF m
  <2> QED
    BY <2>2, <2>3
<1>13. t[S] = FourDiffer(f, sz, unit, r, c, a, b, 2 - k)
  <2> HIDE DEF S, v
  <2> QED
    BY <1>7, <1>8, <1>9, <1>11, <1>12 DEF FourDiffer
<1>14. Moved(f, sz, dz, y, x, k) = MapThenSumSet(val, S)
  BY DEF Moved, unit, sy, sx
<1> HIDE DEF S, v, val
<1> QED
  BY <1>6, <1>13, <1>14 DEF unit

\* (2 * sum + n) \div (2 * n), which rounds sum / n, when sum is that many more.
LEMMA RoundedSum ==
  ASSUME NEW n \in Nat, n > 0, NEW moved \in Int
  PROVE  (2 * (n * Padding + moved) + n) \div (2 * n)
           = Padding + ((2 * moved + n) \div (2 * n))
<1>1. Padding \in Int
  BY KernelAssumption DEF KernelAssumption
<1> DEFINE m == 2 * n
           a == 2 * moved + n
<1>2. m \in Nat /\ m > 0 /\ a \in Int
  OBVIOUS
<1>3. 2 * (n * Padding + moved) + n = a + Padding * m
  BY <1>1
<1> HIDE DEF m, a
<1>4. (a + Padding * m) \div m = (a \div m) + Padding /\ a \div m \in Int
  BY <1>1, <1>2, DivisionOfSum, IntDivision
<1> QED
  BY <1>1, <1>3, <1>4 DEF m, a

\* A row of pixels of three bytes: the factor three may be taken out.
LEMMA ThreeTimes ==
  ASSUME NEW x \in Int, NEW y \in Int
  PROVE  x * (y * 3) = 3 * (x * y) /\ x * y \in Int
  OBVIOUS

\* A product keeps the order of its first factors.
LEMMA IntMultiplesInOrder ==
  ASSUME NEW n \in Int, NEW k \in Int, NEW m \in Nat, n <= k
  PROVE  n * m <= k * m /\ n * m \in Int /\ k * m \in Int
  BY Z3

\* Where a point lies is told by its quotient.
LEMMA QuotientTells ==
  ASSUME NEW z \in Int, NEW m \in Nat, m > 0, NEW q \in Int, NEW l \in 0 .. m - 1,
         z = q * m + l, NEW n \in Nat
  PROVE  (z < -m <=> q < -1) /\ (z >= n * m <=> q >= n)
<1>1. q * m \in Int /\ n * m \in Int
  OBVIOUS
<1>2. q <= -2 => q * m <= (-2) * m
  BY IntMultiplesInOrder
<1>3. q >= -1 => q * m >= (-1) * m
  BY IntMultiplesInOrder
<1>4. q >= n => q * m >= n * m
  BY IntMultiplesInOrder
<1>5. q + 1 <= n => (q + 1) * m <= n * m
  BY IntMultiplesInOrder
<1>6. (q + 1) * m = q * m + m
  OBVIOUS
<1> DEFINE a == q * m
           b == n * m
<1>7. /\ a \in Int /\ b \in Int /\ z = a + l
      /\ q <= -2 => a <= -2 * m
      /\ q >= -1 => a >= -m
      /\ q >= n => a >= b
      /\ q + 1 <= n => a + m <= b
  BY <1>1, <1>2, <1>3, <1>4, <1>5, <1>6
<1> HIDE DEF a, b
<1>8. z < -m <=> q < -1
  BY <1>7
<1>9. z >= b <=> q >= n
  BY <1>7
<1> QED
  BY <1>8, <1>9 DEF b

\* Channel k of frame f is in the slot.
SlotHolds(src, slot, f, sz, k) ==
  \A i \in 0 .. sz.h - 1, j \in 0 .. sz.w - 1 :
    /\ src[((slot * sz.h + i) * sz.w + j) * 3 + k] = Pixel(f, i, j, k)
    /\ Pixel(f, i, j, k) \in Int

\* The letterboxed picture of frame f.
LetterboxedFrame(f, sz, dz, y, x, ch) ==
  Letterboxed(LAMBDA i, j, c : Pixel(f, i, j, c), sz, dz, y, x, ch)

\* Its pixel p, in opencv's order of channels.
FramePixel(f, sz, dz, p, k) ==
  LetterboxedFrame(f, sz, dz, p \div dz.w, p % dz.w, 2 - k)

Channels == 0 .. 2

\* What the thread of a pixel computes is the pixel of the letterboxed picture.
LEMMA ResizeIsLetterboxed ==
  ASSUME NEW f, NEW sz \in Sizes, NEW dz \in Sizes, NEW src, NEW slot \in Nat,
         NEW p \in Nat, NEW k \in Channels,
         SlotHolds(src, slot, f, sz, k)
  PROVE  Resize(src, sz, dz, p, slot, k) = FramePixel(f, sz, dz, p, k)
<1> k \in 0 .. 2
  BY DEF Channels
<1> SUFFICES Resize(src, sz, dz, p, slot, k)
               = LetterboxedFrame(f, sz, dz, p \div dz.w, p % dz.w, 2 - k)
  BY DEF FramePixel
<1> DEFINE unit == UnitOf(sz, dz)
           y == RowOf(sz, dz, p \div dz.w)
           x == ColOf(sz, dz, p % dz.w)
           r == y \div unit
           c == x \div unit
           a == y % unit
           b == x % unit
           n == unit * unit
           moved == FourDiffer(f, sz, unit, r, c, a, b, k)
           D(i, j) == Differs(f, sz, i, j, k)
           V(i, j) == src[((slot * sz.h + i) * sz.w + j) * 3 + k]
<1>1. /\ sz.h \in Nat /\ sz.w \in Nat /\ dz.h \in Nat /\ dz.w \in Nat
      /\ sz.h > 0 /\ sz.w > 0 /\ dz.h > 0 /\ dz.w > 0
  BY DEF Sizes, Lengths
<1>2. p \div dz.w \in Int /\ p % dz.w \in Int /\ Padding \in Int
  BY <1>1, IntDivision, KernelAssumption DEF KernelAssumption
<1>3. unit \in Nat /\ unit > 0 /\ y \in Int /\ x \in Int
  BY <1>2, Scales
<1>4. /\ r \in Int /\ a \in 0 .. unit - 1 /\ y = r * unit + a
      /\ c \in Int /\ b \in 0 .. unit - 1 /\ x = c * unit + b
  BY <1>3, IntDivision
<1>5. n \in Nat /\ n > 0
  BY <1>3
<1>6. LetterboxedFrame(f, sz, dz, p \div dz.w, p % dz.w, 2 - k)
        = Padding + ((2 * moved + n) \div (2 * n))
  <2> DEFINE all == Moved(f, sz, dz, p \div dz.w, p % dz.w, 2 - k)
  <2>1. LetterboxedFrame(f, sz, dz, p \div dz.w, p % dz.w, 2 - k)
          = Padding + ((2 * all + unit * unit) \div (2 * unit * unit))
    BY DEF LetterboxedFrame, Letterboxed, Moved, UnitOf, RowOf, ColOf
  <2>2. 2 - (2 - k) = k /\ 2 - k \in Int
    OBVIOUS
  <2>3. \A i \in 0 .. sz.h - 1, j \in 0 .. sz.w - 1 : Pixel(f, i, j, 2 - (2 - k)) \in Int
    BY <2>2 DEF SlotHolds
  <2>4. all = FourDiffer(f, sz, unit, r, c, a, b, 2 - (2 - k))
    BY <1>2, <2>2, <2>3, FourCount
  <2>5. all = moved
    BY <2>2, <2>4
  <2> HIDE DEF all, moved
  <2>6. 2 * unit * unit = 2 * n
    BY <1>3
  <2> QED
    BY <2>1, <2>5, <2>6
<1>7. /\ DstToSrc(p \div dz.w, dz.h, sz.h, Scale(sz, dz)) = y
      /\ DstToSrc(p % dz.w, dz.w, sz.w, Scale(sz, dz)) = x
      /\ 2 * Scale(sz, dz)[1] = unit
  BY DEF RowOf, ColOf, UnitOf
<1> DEFINE v1 == IF r >= 0 /\ c >= 0 THEN V(r, c) ELSE Padding
           v2 == IF r >= 0 /\ c + 1 < sz.w THEN V(r, c + 1) ELSE Padding
           v3 == IF r + 1 < sz.h /\ c >= 0 THEN V(r + 1, c) ELSE Padding
           v4 == IF r + 1 < sz.h /\ c + 1 < sz.w THEN V(r + 1, c + 1) ELSE Padding
           sum == (unit - a) * (unit - b) * v1 + (unit - a) * b * v2
                    + a * (unit - b) * v3 + a * b * v4
           outside == x < -unit \/ x >= sz.w * unit \/ y < -unit \/ y >= sz.h * unit
<1>8. Resize(src, sz, dz, p, slot, k)
        = IF outside THEN Padding ELSE (2 * sum + unit * unit) \div (2 * unit * unit)
  BY <1>7 DEF Resize
<1> HIDE DEF y, x, unit, V
<1>16. \A i \in 0 .. sz.h - 1, j \in 0 .. sz.w - 1 :
         V(i, j) = Pixel(f, i, j, k) /\ Pixel(f, i, j, k) \in Int
  BY DEF SlotHolds, V
<1>9. \A i, j \in Int :
        /\ D(i, j) \in Int
        /\ i \in 0 .. sz.h - 1 /\ j \in 0 .. sz.w - 1 => V(i, j) = Padding + D(i, j)
        /\ ~(i \in 0 .. sz.h - 1 /\ j \in 0 .. sz.w - 1) => D(i, j) = 0
  BY <1>2, <1>16 DEF Differs
<1> HIDE DEF r, c, a, b, D
<1>12. /\ x < -unit <=> c < -1
       /\ x >= sz.w * unit <=> c >= sz.w
       /\ y < -unit <=> r < -1
       /\ y >= sz.h * unit <=> r >= sz.h
  BY <1>1, <1>3, <1>4, QuotientTells
<1>13. r \in Int /\ c \in Int /\ r + 1 \in Int /\ c + 1 \in Int
  BY <1>4
<1>14. D(r, c) \in Int /\ D(r, c + 1) \in Int /\ D(r + 1, c) \in Int
       /\ D(r + 1, c + 1) \in Int
  BY <1>9, <1>13
<1> DEFINE D1 == D(r, c)
           D2 == D(r, c + 1)
           D3 == D(r + 1, c)
           D4 == D(r + 1, c + 1)
<1>15. moved = (unit - a) * (unit - b) * D1 + (unit - a) * b * D2
                 + a * (unit - b) * D3 + a * b * D4
  BY DEF FourDiffer, D
<1>10. CASE outside
  <2>1. c < -1 \/ c >= sz.w \/ r < -1 \/ r >= sz.h
    BY <1>10, <1>12
  <2>2. D1 = 0 /\ D2 = 0 /\ D3 = 0 /\ D4 = 0
    <3>1. \/ c + 1 < 0 /\ c < 0
          \/ c >= sz.w /\ c + 1 >= sz.w
          \/ r + 1 < 0 /\ r < 0
          \/ r >= sz.h /\ r + 1 >= sz.h
      BY <1>1, <1>13, <2>1
    <3>2. /\ ~(r \in 0 .. sz.h - 1 /\ c \in 0 .. sz.w - 1)
          /\ ~(r \in 0 .. sz.h - 1 /\ c + 1 \in 0 .. sz.w - 1)
          /\ ~(r + 1 \in 0 .. sz.h - 1 /\ c \in 0 .. sz.w - 1)
          /\ ~(r + 1 \in 0 .. sz.h - 1 /\ c + 1 \in 0 .. sz.w - 1)
      BY <1>1, <1>13, <3>1
    <3> QED
      BY <1>9, <1>13, <3>2
  <2> HIDE DEF D1, D2, D3, D4, moved
  <2>3. moved = 0
    BY <1>3, <1>4, <1>15, <2>2
  <2>4. (2 * moved + n) \div (2 * n) = 0
    <3>1. 2 * n \in Nat /\ 2 * n > 0 /\ n \in 0 .. 2 * n - 1 /\ n = 0 * (2 * n) + n
      BY <1>5
    <3> HIDE DEF n
    <3>2. n \div (2 * n) = 0
      BY <3>1, DivisionUnique
    <3>3. 2 * moved + n = n
      BY <1>5, <2>3
    <3> QED
      BY <3>2, <3>3
  <2>5. Resize(src, sz, dz, p, slot, k) = Padding
    BY <1>8, <1>10
  <2> HIDE DEF n
  <2>6. Padding + ((2 * moved + n) \div (2 * n)) = Padding
    BY <1>2, <2>4
  <2> QED
    BY <1>6, <2>5, <2>6, <2>5
<1>11. CASE ~outside
  <2>1. c >= -1 /\ c < sz.w /\ r >= -1 /\ r < sz.h
    BY <1>1, <1>11, <1>12, <1>13
  <2>2. /\ r >= 0 => r \in 0 .. sz.h - 1
        /\ r + 1 < sz.h => r + 1 \in 0 .. sz.h - 1
        /\ c >= 0 => c \in 0 .. sz.w - 1
        /\ c + 1 < sz.w => c + 1 \in 0 .. sz.w - 1
    BY <1>1, <1>13, <2>1
  <2>3. v1 = Padding + D1
    <3>1. CASE r >= 0 /\ c >= 0
      BY <1>9, <1>13, <2>2, <3>1
    <3>2. CASE ~(r >= 0 /\ c >= 0)
      <4>1. ~(r \in 0 .. sz.h - 1 /\ c \in 0 .. sz.w - 1)
        BY <3>2
      <4>2. D1 = 0
        BY <1>9, <1>13, <4>1
      <4>3. v1 = Padding
        BY <3>2
      <4> HIDE DEF D1, v1
      <4> QED
        BY <1>2, <4>2, <4>3
    <3> QED
      BY <3>1, <3>2
  <2>4. v2 = Padding + D2
    <3>1. CASE r >= 0 /\ c + 1 < sz.w
      BY <1>9, <1>13, <2>2, <3>1
    <3>2. CASE ~(r >= 0 /\ c + 1 < sz.w)
      <4>1. ~(r \in 0 .. sz.h - 1 /\ c + 1 \in 0 .. sz.w - 1)
        BY <1>1, <1>13, <3>2
      <4>2. D2 = 0
        BY <1>9, <1>13, <4>1
      <4>3. v2 = Padding
        BY <3>2
      <4> HIDE DEF D2, v2
      <4> QED
        BY <1>2, <4>2, <4>3
    <3> QED
      BY <3>1, <3>2
  <2>5. v3 = Padding + D3
    <3>1. CASE r + 1 < sz.h /\ c >= 0
      BY <1>9, <1>13, <2>2, <3>1
    <3>2. CASE ~(r + 1 < sz.h /\ c >= 0)
      <4>1. ~(r + 1 \in 0 .. sz.h - 1 /\ c \in 0 .. sz.w - 1)
        BY <1>1, <1>13, <3>2
      <4>2. D3 = 0
        BY <1>9, <1>13, <4>1
      <4>3. v3 = Padding
        BY <3>2
      <4> HIDE DEF D3, v3
      <4> QED
        BY <1>2, <4>2, <4>3
    <3> QED
      BY <3>1, <3>2
  <2>6. v4 = Padding + D4
    <3>1. CASE r + 1 < sz.h /\ c + 1 < sz.w
      BY <1>9, <1>13, <2>2, <3>1
    <3>2. CASE ~(r + 1 < sz.h /\ c + 1 < sz.w)
      <4>1. ~(r + 1 \in 0 .. sz.h - 1 /\ c + 1 \in 0 .. sz.w - 1)
        BY <1>1, <1>13, <3>2
      <4>2. D4 = 0
        BY <1>9, <1>13, <4>1
      <4>3. v4 = Padding
        BY <3>2
      <4> HIDE DEF D4, v4
      <4> QED
        BY <1>2, <4>2, <4>3
    <3> QED
      BY <3>1, <3>2
  <2> HIDE DEF D1, D2, D3, D4, v1, v2, v3, v4, moved
  <2>7. sum = n * Padding + moved
    <3> DEFINE w1 == (unit - a) * (unit - b)
               w2 == (unit - a) * b
               w3 == a * (unit - b)
               w4 == a * b
    <3>1. w1 \in Int /\ w2 \in Int /\ w3 \in Int /\ w4 \in Int
      BY <1>3, <1>4
    <3>2. w1 + w2 + w3 + w4 = n
      BY <1>3, <1>4
    <3>3. sum = w1 * (Padding + D1) + w2 * (Padding + D2) + w3 * (Padding + D3)
                  + w4 * (Padding + D4)
      BY <2>3, <2>4, <2>5, <2>6
    <3>4. moved = w1 * D1 + w2 * D2 + w3 * D3 + w4 * D4
      BY <1>15
    <3>5. D1 \in Int /\ D2 \in Int /\ D3 \in Int /\ D4 \in Int
      BY <1>14 DEF D1, D2, D3, D4
    <3> HIDE DEF w1, w2, w3, w4, n, sum
    <3>6. n * Padding = w1 * Padding + w2 * Padding + w3 * Padding + w4 * Padding
      BY <1>2, <3>1, <3>2
    <3> QED
      BY <1>2, <3>1, <3>3, <3>4, <3>5, <3>6
  <2>8. moved \in Int
    BY <1>3, <1>4, <1>14, <1>15 DEF D1, D2, D3, D4
  <2>9. Resize(src, sz, dz, p, slot, k) = (2 * (n * Padding + moved) + n) \div (2 * n)
    <3>1. 2 * unit * unit = 2 * n
      BY <1>3
    <3> HIDE DEF sum
    <3> QED
      BY <1>8, <1>11, <2>7, <3>1
  <2> HIDE DEF n
  <2> QED
    BY <1>5, <1>6, <2>8, <2>9, RoundedSum
<1> QED
  BY <1>10, <1>11

-----------------------------------------------------------------------------
(* Kernels. *)

\* The grid, rounded up to whole blocks, has a thread for all of the work and the
\* guard stops the others.
LEMMA LaunchIsWork ==
  ASSUME NEW n \in Nat PROVE Launch(n) = 0 .. n - 1
<1>1. BLOCK_SIZE \in Nat /\ BLOCK_SIZE > 0
  BY KernelAssumption DEF KernelAssumption
<1> DEFINE a == n + BLOCK_SIZE - 1
           all == Blocks(n) * BLOCK_SIZE
<1>2. all \in Int /\ n <= all
  <2>1. a \in Int
    BY <1>1
  <2>2. /\ a \div BLOCK_SIZE \in Int /\ a % BLOCK_SIZE \in 0 .. BLOCK_SIZE - 1
        /\ a = (a \div BLOCK_SIZE) * BLOCK_SIZE + (a % BLOCK_SIZE)
    BY <1>1, <2>1, IntDivision
  <2>3. all = (a \div BLOCK_SIZE) * BLOCK_SIZE
    BY DEF Blocks
  <2> HIDE DEF all
  <2>4. all \in Int /\ a = all + (a % BLOCK_SIZE)
    BY <1>1, <2>2, <2>3
  <2> QED
    BY <1>1, <2>2, <2>4
<1>3. Launch(n) = {t \in 0 .. all - 1 : t < n}
  BY DEF Launch
<1> HIDE DEF all
<1> QED
  BY <1>2, <1>3

\* The k-th element of thread t of picture b, and which element it is.
LEMMA ElementOfThread ==
  ASSUME NEW n \in Lengths, NEW per \in Lengths, NEW b \in Nat, NEW t \in 0 .. n - 1,
         NEW k \in 0 .. per - 1, NEW i, i = (b * n + t) * per + k
  PROVE  (i \div per) % n = t /\ i \div (per * n) = b /\ i % per = k
<1>1. n \in Nat /\ n > 0 /\ per \in Nat /\ per > 0
  BY DEF Lengths
<1> DEFINE q == b * n + t
<1>2. q \in Nat
  BY <1>1
<1>3. i \in Int /\ i = q * per + k
  BY <1>1, <1>2
<1>4. q = i \div per /\ k = i % per
  <2> HIDE DEF q
  <2> QED
    BY <1>1, <1>2, <1>3, DivisionUnique
<1>5. t = q % n
  BY <1>1, <1>2, DivisionUnique
<1> DEFINE m == per * n
           r == t * per + k
<1>6. m \in Nat /\ m > 0
  BY <1>1
<1>7. r \in 0 .. m - 1
  <2>1. (t + 1) * per <= n * per
    BY <1>1, IntMultiplesInOrder
  <2>2. (t + 1) * per = t * per + per /\ n * per = m /\ t * per \in Nat
    BY <1>1
  <2> HIDE DEF m
  <2> QED
    BY <1>1, <1>6, <2>1, <2>2
<1>8. i = b * m + r
  BY <1>1
<1>9. b = i \div m
  <2> HIDE DEF m, r
  <2> QED
    BY <1>3, <1>6, <1>7, <1>8, DivisionUnique
<1> QED
  BY <1>4, <1>5, <1>9

\* It is an element of the buffer.
LEMMA ElementOfBuffer ==
  ASSUME NEW n \in Lengths, NEW per \in Lengths, NEW batch \in Nat,
         NEW b \in 0 .. batch - 1, NEW t \in 0 .. n - 1, NEW k \in 0 .. per - 1
  PROVE  (b * n + t) * per + k \in 0 .. batch * (per * n) - 1
<1>1. n \in Nat /\ n > 0 /\ per \in Nat /\ per > 0 /\ b \in Nat /\ t \in Nat
  BY DEF Lengths
<1> DEFINE q == b * n + t
<1>2. q \in Nat /\ q + 1 <= batch * n
  <2>1. (b + 1) * n <= batch * n /\ (b + 1) * n = b * n + n /\ b * n \in Nat
    BY <1>1, IntMultiplesInOrder
  <2> QED
    BY <1>1, <2>1
<1>3. (q + 1) * per <= (batch * n) * per
  <2> HIDE DEF q
  <2> QED
    BY <1>1, <1>2, IntMultiplesInOrder
<1>4. (batch * n) * per = batch * (per * n)
  BY <1>1
<1>5. (q + 1) * per = q * per + per /\ q * per \in Nat
  <2> HIDE DEF q
  <2> QED
    BY <1>1, <1>2
<1> DEFINE m == batch * (per * n)
           a == q * per
<1>6. a \in Nat /\ a + per <= m /\ m \in Int
  BY <1>1, <1>3, <1>4, <1>5
<1> HIDE DEF m, a
<1>7. a + k \in 0 .. m - 1
  BY <1>1, <1>6
<1> QED
  BY <1>7 DEF a, m

\* The thread writes it.
LEMMA ThreadExists ==
  ASSUME NEW n \in Lengths, NEW batch \in Nat, NEW b \in 0 .. batch - 1,
         NEW t \in 0 .. n - 1
  PROVE  <<t, b>> \in Launch(n) \X Launch(batch)
<1>1. Launch(n) = 0 .. n - 1 /\ Launch(batch) = 0 .. batch - 1
  BY LaunchIsWork DEF Lengths
<1> QED
  BY <1>1
\* The place of element t of slot b in a buffer whose slots have n elements, and
\* the element that is channel k of pixel p.
Place(b, n, t) == b * n + t
Channel(p, k) == 3 * p + k

\* The pixels of a picture of size dz.
Area(dz) == dz.h * dz.w

\* The sizes of a picture, of a plane and of a slot are positive numbers.
LEMMA Volumes ==
  ASSUME NEW dz \in Sizes
  PROVE  /\ dz.h \in Lengths /\ dz.w \in Lengths
         /\ Area(dz) \in Lengths /\ dz.w * dz.h = Area(dz)
         /\ Volume(dz) \in Lengths /\ Volume(dz) = 3 * Area(dz)
<1>1. dz.h \in Lengths /\ dz.w \in Lengths
  BY DEF Sizes
<1> QED
  BY <1>1 DEF Volume, Area, Lengths

\* The kernels with a thread per element.
LEMMA OneEach ==
  ASSUME NEW n \in Lengths, NEW b \in Nat, NEW t \in 0 .. n - 1
  PROVE  /\ (Place(b, n, t) \div 1) % n = t /\ Place(b, n, t) \div (1 * n) = b
         /\ Place(b, n, t) = b * n + t
<1> DEFINE i == b * n + t
<1>1. n \in Nat /\ n > 0 /\ i \in Nat
  BY DEF Lengths
<1>2. i \div 1 = i /\ 1 * n = n
  BY <1>1
<1>3. t = i % n /\ b = i \div n
  BY <1>1, DivisionUnique
<1> HIDE DEF i
<1>4. (i \div 1) % n = t /\ i \div (1 * n) = b
  BY <1>1, <1>2, <1>3
<1> QED
  BY <1>4 DEF i, Place

\* The element of such a thread is an element of the buffer.
LEMMA OneInBuffer ==
  ASSUME NEW n \in Lengths, NEW batch \in Nat, NEW b \in 0 .. batch - 1,
         NEW t \in 0 .. n - 1
  PROVE  Place(b, n, t) \in 0 .. batch * n - 1
<1>1. n \in Nat /\ b \in Nat
  BY DEF Lengths
<1>2. (b + 1) * n <= batch * n /\ (b + 1) * n = b * n + n /\ b * n \in Nat
  BY <1>1, IntMultiplesInOrder
<1> QED
  BY <1>1, <1>2 DEF Place

\* bgr2rgbDevice: channel k of a pixel is channel 2 - k of the pixel before.
LEMMA ColoursSwapped ==
  ASSUME NEW dz \in Sizes, NEW batch \in Nat, NEW src, NEW dst,
         DOMAIN dst = 0 .. batch * Volume(dz) - 1,
         NEW b \in 0 .. batch - 1, NEW p \in 0 .. Area(dz) - 1, NEW k \in 0 .. 2
  PROVE  bgr2rgbDevice(batch, src, dst, dz)[Place(b, Volume(dz), Channel(p, k))]
           = src[Place(b, Volume(dz), Channel(p, 2 - k))]
<1> DEFINE n == Volume(dz)
           t == Channel(p, k)
           at == Place(b, n, t)
<1>1. n \in Lengths /\ n = 3 * Area(dz) /\ Area(dz) \in Nat /\ n \in Nat
  BY Volumes DEF Lengths
<1>2. t \in 0 .. n - 1 /\ t % 3 = k
  <2>1. t \in 0 .. n - 1
    BY <1>1 DEF Channel
  <2>2. t = p * 3 + k /\ t \in Int /\ p \in Int /\ k \in 0 .. 3 - 1
    BY DEF Channel
  <2> HIDE DEF t
  <2> QED
    BY <2>1, <2>2, DivisionUnique
<1>3. /\ (at \div 1) % n = t /\ at \div (1 * n) = b /\ at \in DOMAIN dst
      /\ <<t, b>> \in Launch(n) \X Launch(batch)
  <2>1. DOMAIN dst = 0 .. batch * n - 1
    OBVIOUS
  <2> HIDE DEF n, t
  <2>2. b \in Nat
    OBVIOUS
  <2>3. (at \div 1) % n = t /\ at \div (1 * n) = b
    BY <1>1, <1>2, <2>2, OneEach
  <2>4. at \in DOMAIN dst
    BY <1>1, <1>2, <2>1, OneInBuffer
  <2>5. <<t, b>> \in Launch(n) \X Launch(batch)
    BY <1>1, <1>2, ThreadExists
  <2> QED
    BY <2>3, <2>4, <2>5
<1>4. b * n \in Int /\ t \in Int /\ at = b * n + t /\ t = 3 * p + k
  BY <1>1, <1>2 DEF Place, Channel
<1>5. CASE k = 0
  <2>1. bgr2rgbDevice(batch, src, dst, dz)[at] = src[b * n + t + 2]
    <3> HIDE DEF at, t
    <3> QED
      BY <1>2, <1>3, <1>5 DEF bgr2rgbDevice, Kernel, n
  <2>2. b * n + t + 2 = Place(b, n, Channel(p, 2 - k))
    BY <1>4, <1>5 DEF Place, Channel
  <2> QED
    BY <2>1, <2>2
<1>6. CASE k = 1
  <2>1. bgr2rgbDevice(batch, src, dst, dz)[at] = src[b * n + t]
    <3> HIDE DEF at, t
    <3> QED
      BY <1>2, <1>3, <1>6 DEF bgr2rgbDevice, Kernel, n
  <2>2. b * n + t = Place(b, n, Channel(p, 2 - k))
    BY <1>4, <1>6 DEF Place, Channel
  <2> QED
    BY <2>1, <2>2
<1>7. CASE k = 2
  <2>1. bgr2rgbDevice(batch, src, dst, dz)[at] = src[at - 2]
    <3> DEFINE m == b * n + t
    <3>1. m = at /\ t % 3 # 0 /\ t % 3 # 1 /\ t % 3 = 2
      BY <1>2, <1>4, <1>7
    <3>2. bgr2rgbDevice(batch, src, dst, dz)[at]
            = CASE t % 3 = 0 -> src[m + 2]
                [] t % 3 = 1 -> src[m]
                [] t % 3 = 2 -> src[m - 2]
      <4> HIDE DEF at, t
      <4> QED
        BY <1>3 DEF bgr2rgbDevice, Kernel, n
    <3> HIDE DEF at, t, m
    <3> QED
      BY <3>1, <3>2
  <2>2. at - 2 = Place(b, n, Channel(p, 2 - k))
    BY <1>4, <1>7 DEF Place, Channel
  <2> QED
    BY <2>1, <2>2
<1> QED
  BY <1>5, <1>6, <1>7

\* normDevice: every element is normalised as one of its own channel.
LEMMA Normalised ==
  ASSUME NEW dz \in Sizes, NEW batch \in Nat, NEW src, NEW dst,
         DOMAIN dst = 0 .. batch * Volume(dz) - 1,
         NEW b \in 0 .. batch - 1, NEW p \in 0 .. Area(dz) - 1, NEW k \in 0 .. 2
  PROVE  normDevice(batch, src, dst, dz)[Place(b, Volume(dz), Channel(p, k))]
           = Norm(src[Place(b, Volume(dz), Channel(p, k))], k)
<1> DEFINE n == Volume(dz)
           t == Channel(p, k)
           at == Place(b, n, t)
<1>1. n \in Lengths /\ n = 3 * Area(dz) /\ Area(dz) \in Nat /\ n \in Nat
  BY Volumes DEF Lengths
<1>2. t \in 0 .. n - 1 /\ t % 3 = k
  <2>1. t \in 0 .. n - 1
    BY <1>1 DEF Channel
  <2>2. t = p * 3 + k /\ t \in Int /\ p \in Int /\ k \in 0 .. 3 - 1
    BY DEF Channel
  <2> HIDE DEF t
  <2> QED
    BY <2>1, <2>2, DivisionUnique
<1>3. /\ (at \div 1) % n = t /\ at \div (1 * n) = b /\ at \in DOMAIN dst
      /\ <<t, b>> \in Launch(n) \X Launch(batch)
  <2>1. DOMAIN dst = 0 .. batch * n - 1
    OBVIOUS
  <2> HIDE DEF n, t
  <2>2. b \in Nat
    OBVIOUS
  <2>3. (at \div 1) % n = t /\ at \div (1 * n) = b
    BY <1>1, <1>2, <2>2, OneEach
  <2>4. at \in DOMAIN dst
    BY <1>1, <1>2, <2>1, OneInBuffer
  <2>5. <<t, b>> \in Launch(n) \X Launch(batch)
    BY <1>1, <1>2, ThreadExists
  <2> QED
    BY <2>3, <2>4, <2>5
<1>4. normDevice(batch, src, dst, dz)[at] = Norm(src[b * n + t], t % 3)
  <2> HIDE DEF at, t
  <2> QED
    BY <1>3 DEF normDevice, Kernel
<1>5. b * n + t = at
  BY DEF Place
<1> QED
  BY <1>2, <1>4, <1>5

\* hwc2chwDevice: element p of plane k is channel k of pixel p.
LEMMA Transposed ==
  ASSUME NEW dz \in Sizes, NEW batch \in Nat, NEW src, NEW dst,
         DOMAIN dst = 0 .. batch * Volume(dz) - 1,
         NEW b \in 0 .. batch - 1, NEW t \in 0 .. Volume(dz) - 1
  PROVE  /\ t % Area(dz) \in 0 .. Area(dz) - 1
         /\ t \div Area(dz) \in 0 .. 2
         /\ hwc2chwDevice(batch, src, dst, dz)[Place(b, Volume(dz), t)]
              = src[Place(b, Volume(dz), Channel(t % Area(dz), t \div Area(dz)))]
<1> DEFINE n == Volume(dz)
           area == Area(dz)
           at == Place(b, n, t)
           p == t % area
           row == p \div dz.w
           col == p % dz.w
           k == t \div area
<1>1. /\ n \in Lengths /\ n = 3 * area /\ area \in Nat /\ area > 0 /\ n \in Nat
      /\ dz.w \in Nat /\ dz.w > 0 /\ b \in Nat
  BY Volumes DEF Lengths
<1>2. /\ p \in 0 .. area - 1 /\ k \in Int /\ t = k * area + p
  <2>1. t \in Int
    OBVIOUS
  <2> QED
    BY <1>1, <2>1, IntDivision
<1>3. k \in 0 .. 2
  <2> HIDE DEF k, p, area, n
  <2>1. k < 0 => k * area <= (-1) * area
    BY <1>1, <1>2, IntMultiplesInOrder
  <2>2. k >= 3 => k * area >= 3 * area
    BY <1>1, <1>2, IntMultiplesInOrder
  <2> DEFINE m == k * area
  <2>3. (k < 0 => m <= -area) /\ (k >= 3 => m >= n) /\ m \in Int /\ t = m + p
    BY <1>1, <1>2, <2>1, <2>2
  <2>4. t \in 0 .. n - 1
    BY DEF n
  <2> HIDE DEF m
  <2> QED
    BY <1>1, <1>2, <2>3, <2>4
<1>4. row \in Int /\ col \in 0 .. dz.w - 1 /\ p = row * dz.w + col
  <2>1. p \in Int
    BY <1>1, <1>2
  <2> HIDE DEF p
  <2> QED
    BY <1>1, <2>1, IntDivision
<1>5. /\ (at \div 1) % n = t /\ at \div (1 * n) = b /\ at \in DOMAIN dst
      /\ <<t, b>> \in Launch(n) \X Launch(batch)
  <2>1. DOMAIN dst = 0 .. batch * n - 1 /\ t \in 0 .. n - 1
    OBVIOUS
  <2> HIDE DEF n
  <2>2. b \in Nat
    OBVIOUS
  <2>3. (at \div 1) % n = t /\ at \div (1 * n) = b
    BY <1>1, <2>1, <2>2, OneEach
  <2>4. at \in DOMAIN dst
    BY <1>1, <2>1, OneInBuffer
  <2>5. <<t, b>> \in Launch(n) \X Launch(batch)
    BY <1>1, <2>1, ThreadExists
  <2> QED
    BY <2>3, <2>4, <2>5
<1>6. hwc2chwDevice(batch, src, dst, dz)[at]
        = src[b * n + row * (dz.w * 3) + col * 3 + k]
  <2> HIDE DEF at
  <2> QED
    BY <1>5 DEF hwc2chwDevice, Kernel, Area
<1>7. b * n + row * (dz.w * 3) + col * 3 + k = Place(b, n, Channel(p, k))
  <2> HIDE DEF row, col, p, k, n, area
  <2>1. row * (dz.w * 3) = 3 * (row * dz.w) /\ row * dz.w \in Int /\ b * n \in Int
    <3>1. row \in Int /\ dz.w \in Int /\ b \in Int /\ n \in Int
      BY <1>1, <1>4
    <3>2. row * (dz.w * 3) = 3 * (row * dz.w) /\ row * dz.w \in Int
      BY <3>1, ThreeTimes, Zenon
    <3>3. b * n \in Int
      BY <3>1, ThreeTimes, Zenon
    <3> QED
      BY <3>2, <3>3
  <2> DEFINE m == row * dz.w
             first == b * n
  <2>2. m \in Int /\ first \in Int /\ row * (dz.w * 3) = 3 * m /\ p = m + col
    BY <1>4, <2>1
  <2> HIDE DEF m, first
  <2>3. first + 3 * m + col * 3 + k = first + (3 * p + k)
    BY <1>3, <1>4, <2>2
  <2> QED
    BY <2>2, <2>3 DEF first, Place, Channel
<1> HIDE DEF row, col
<1> QED
  BY <1>2, <1>3, <1>6, <1>7

\* The four kernels together, wherever their buffers start from.
LEMMA Preprocessed ==
  ASSUME NEW sz, NEW dz \in Sizes, NEW batch \in Nat, NEW src,
         NEW A, NEW B, NEW C, NEW D,
         DOMAIN A = 0 .. batch * Volume(dz) - 1, DOMAIN B = 0 .. batch * Volume(dz) - 1,
         DOMAIN C = 0 .. batch * Volume(dz) - 1, DOMAIN D = 0 .. batch * Volume(dz) - 1,
         NEW b \in 0 .. batch - 1, NEW t \in 0 .. Volume(dz) - 1
  PROVE  hwc2chwDevice(batch, normDevice(batch,
            bgr2rgbDevice(batch, resizeDevice(batch, src, sz, A, dz), B, dz),
            C, dz), D, dz)[Place(b, Volume(dz), t)]
           = Norm(Resize(src, sz, dz, t % Area(dz), b, 2 - (t \div Area(dz))),
                  t \div Area(dz))
<1> DEFINE resized == resizeDevice(batch, src, sz, A, dz)
           rgb == bgr2rgbDevice(batch, resized, B, dz)
           norm == normDevice(batch, rgb, C, dz)
           hwc == hwc2chwDevice(batch, norm, D, dz)
           area == Area(dz)
           p == t % area
           k == t \div area
<1>1. /\ p \in 0 .. area - 1 /\ k \in 0 .. 2
      /\ hwc[Place(b, Volume(dz), t)] = norm[Place(b, Volume(dz), Channel(p, k))]
  <2> HIDE DEF norm
  <2> QED
    BY Transposed
<1>2. norm[Place(b, Volume(dz), Channel(p, k))]
        = Norm(rgb[Place(b, Volume(dz), Channel(p, k))], k)
  <2> HIDE DEF rgb, p, k
  <2> QED
    BY <1>1, Normalised
<1>3. rgb[Place(b, Volume(dz), Channel(p, k))]
        = resized[Place(b, Volume(dz), Channel(p, 2 - k))]
  <2> HIDE DEF resized, p, k
  <2> QED
    BY <1>1, ColoursSwapped
<1>4. resized[Place(b, Volume(dz), Channel(p, 2 - k))] = Resize(src, sz, dz, p, b, 2 - k)
  <2> DEFINE c == 2 - k
  <2>1. c \in 0 .. 2 /\ p \in 0 .. Area(dz) - 1 /\ p \in Int /\ c \in Int
    <3>1. Area(dz) \in Nat
      BY Volumes DEF Lengths
    <3> HIDE DEF p, k
    <3> QED
      BY <1>1, <3>1
  <2>2. DOMAIN A = 0 .. batch * Volume(dz) - 1
    OBVIOUS
  <2> HIDE DEF resized, p, c, k, area
  <2> DEFINE n == dz.w * dz.h
             i == (b * n + p) * 3 + c
  <2>3. n \in Lengths /\ 3 \in Lengths /\ n = Area(dz) /\ Volume(dz) = 3 * n
    BY Volumes DEF Lengths
  <2>4. b \in Nat /\ p \in 0 .. n - 1 /\ c \in 0 .. 3 - 1
    BY <2>1, <2>3
  <2>5. (i \div 3) % n = p /\ i \div (3 * n) = b /\ i % 3 = c
    <3> DEFINE per == 3
    <3>1. i = (b * n + p) * per + c /\ per \in Lengths /\ c \in 0 .. per - 1
      BY <2>3, <2>4
    <3> HIDE DEF i, per, n
    <3>2. (i \div per) % n = p /\ i \div (per * n) = b /\ i % per = c
      BY <2>3, <2>4, <3>1, ElementOfThread
    <3> QED
      BY <3>2 DEF per
  <2> HIDE DEF n
  <2>6. i \in DOMAIN A
    <3>1. i \in 0 .. batch * (3 * n) - 1
      BY <2>3, <2>4, ElementOfBuffer
    <3> QED
      BY <2>2, <2>3, <3>1
  <2>7. <<p, b>> \in Launch(n) \X Launch(batch)
    BY <2>3, <2>4, ThreadExists
  <2>8. i = Place(b, Volume(dz), Channel(p, c))
    <3>1. n \in Int /\ b \in Int
      BY <2>3, <2>4 DEF Lengths
    <3>2. (b * n + p) * 3 + c = b * (3 * n) + (3 * p + c)
      BY <2>1, <3>1
    <3> QED
      BY <2>3, <3>2 DEF Place, Channel
  <2> HIDE DEF i
  <2>9. resized[i] = Resize(src, sz, dz, p, b, c)
    BY <2>5, <2>6, <2>7 DEF resized, resizeDevice, Kernel, n
  <2> QED
    BY <2>8, <2>9 DEF c
<1> QED
  BY <1>1, <1>2, <1>3, <1>4

-----------------------------------------------------------------------------
(* The buffers of a batch. *)

\* Byte c of the pixel at <<row, col>> of slot b, and how copy() finds them again.
LEMMA PlaceOfByte ==
  ASSUME NEW sz \in Sizes, NEW b \in Nat, NEW row \in 0 .. sz.h - 1,
         NEW col \in 0 .. sz.w - 1, NEW c \in 0 .. 2,
         NEW i, i = ((b * sz.h + row) * sz.w + col) * 3 + c
  PROVE  /\ i \div Volume(sz) = b
         /\ (i % Volume(sz)) \div (3 * sz.w) = row
         /\ ((i % Volume(sz)) \div 3) % sz.w = col
         /\ (i % Volume(sz)) % 3 = c
         /\ \A batch \in Nat : b < batch => i \in 0 .. batch * Volume(sz) - 1
<1> DEFINE h == sz.h
           w == sz.w
           n == Volume(sz)
           o == (row * w + col) * 3 + c
<1>1. h \in Lengths /\ w \in Lengths /\ 3 \in Lengths /\ n \in Lengths /\ n = h * (3 * w)
  BY Volumes DEF Lengths, Volume
<1>2. h \in Int /\ w \in Int /\ h \in Nat /\ n \in Nat /\ n > 0
  BY <1>1 DEF Lengths
<1>3. o \in 0 .. n - 1
  <2>1. o \in 0 .. h * (3 * w) - 1
    <3> DEFINE per == 3
    <3>1. row \in 0 .. h - 1 /\ col \in 0 .. w - 1 /\ c \in 0 .. per - 1
      OBVIOUS
    <3>2. per \in Lengths
      BY <1>1
    <3> HIDE DEF h, w, per
    <3>3. (row * w + col) * per + c \in 0 .. h * (per * w) - 1
      BY <1>1, <1>2, <3>1, <3>2, ElementOfBuffer
    <3> QED
      BY <3>3 DEF per
  <2> QED
    BY <1>1, <2>1
<1>4. i = b * n + o
  <2> HIDE DEF h, w, n
  <2>1. i = ((b * h + row) * w + col) * 3 + c
    BY DEF h, w
  <2> QED
    BY <1>1, <1>2, <2>1
<1>5. b = i \div n /\ o = i % n
  <2> HIDE DEF o, n
  <2>1. i \in Int /\ n \in Nat /\ n > 0 /\ b \in Int /\ o \in 0 .. n - 1
    BY <1>2, <1>3, <1>4
  <2>2. i = b * n + o
    BY <1>4
  <2> QED
    BY <2>1, <2>2, DivisionUnique
<1>6. (o \div 3) % w = col /\ o \div (3 * w) = row /\ o % 3 = c
  <2> DEFINE per == 3
  <2>1. o = (row * w + col) * per + c /\ c \in 0 .. per - 1 /\ col \in 0 .. w - 1
    OBVIOUS
  <2>2. per \in Lengths /\ row \in Nat
    BY <1>1
  <2> HIDE DEF o, per, w
  <2>3. (o \div per) % w = col /\ o \div (per * w) = row /\ o % per = c
    BY <1>1, <2>1, <2>2, ElementOfThread
  <2> QED
    BY <2>3 DEF per
<1>7. ASSUME NEW batch \in Nat, b < batch
      PROVE  i \in 0 .. batch * n - 1
  <2> HIDE DEF n, o
  <2>1. b \in 0 .. batch - 1
    BY <1>7
  <2>2. Place(b, n, o) \in 0 .. batch * n - 1
    BY <1>1, <1>3, <2>1, OneInBuffer
  <2> QED
    BY <1>4, <2>2 DEF Place
<1> HIDE DEF o, n
<1>8. /\ (i % n) \div (3 * sz.w) = row
      /\ ((i % n) \div 3) % sz.w = col
      /\ (i % n) % 3 = c
  BY <1>5, <1>6
<1> QED
  BY <1>5, <1>7, <1>8 DEF n

\* Every element of the source buffer is a byte of a pixel.
LEMMA ByteOfPlace ==
  ASSUME NEW sz \in Sizes, NEW i \in Nat
  PROVE  /\ i \div Volume(sz) \in Nat
         /\ (i % Volume(sz)) \div (3 * sz.w) \in 0 .. sz.h - 1
         /\ ((i % Volume(sz)) \div 3) % sz.w \in 0 .. sz.w - 1
         /\ (i % Volume(sz)) % 3 \in 0 .. 2
<1> DEFINE n == Volume(sz)
           m == 3 * sz.w
           o == i % n
           row == o \div m
<1>1. /\ sz.h \in Nat /\ sz.w \in Nat /\ sz.w > 0 /\ n \in Nat /\ n > 0
      /\ m \in Nat /\ m > 0 /\ n = sz.h * m
  BY Volumes DEF Lengths, Volume
<1>2. i \div n \in Nat /\ o \in 0 .. n - 1
  <2>1. i \in Int
    OBVIOUS
  <2> HIDE DEF n
  <2>2. i \div n \in Int /\ o \in 0 .. n - 1 /\ i = (i \div n) * n + o
    BY <1>1, <2>1, IntDivision
  <2>3. i >= 0 * n <=> i \div n >= 0
    BY <1>1, <2>1, <2>2, QuotientTells
  <2> QED
    BY <1>1, <2>2, <2>3
<1> HIDE DEF n, o, m
<1>3. o \in Int
  BY <1>1, <1>2
<1>4. row \in Int /\ o % m \in 0 .. m - 1 /\ o = row * m + (o % m)
  BY <1>1, <1>3, IntDivision
<1>5. (o >= 0 * m <=> row >= 0) /\ (o >= sz.h * m <=> row >= sz.h)
  <2> HIDE DEF row
  <2>1. o >= 0 * m <=> row >= 0
    BY <1>1, <1>3, <1>4, QuotientTells
  <2>2. o >= sz.h * m <=> row >= sz.h
    BY <1>1, <1>3, <1>4, QuotientTells
  <2> QED
    BY <2>1, <2>2
<1>6. row \in 0 .. sz.h - 1
  <2> HIDE DEF row
  <2> QED
    BY <1>1, <1>2, <1>3, <1>4, <1>5
<1>7. o \div 3 \in Int /\ o % 3 \in 0 .. 2
  BY <1>3
<1>8. (o \div 3) % sz.w \in 0 .. sz.w - 1
  BY <1>1, <1>7, IntDivision
<1> QED
  BY <1>2, <1>6, <1>7, <1>8 DEF n, o, m

-----------------------------------------------------------------------------
(* The network's input *)

\* The buffers keep the sizes they were allocated with.
BufferSizes ==
  /\ DOMAIN device = {"src", "resize", "rgb", "norm", "hwc"}
  /\ device.src \in [0 .. batch_size * Volume(s) - 1 -> 0 .. 255]
  /\ \A buffer \in {device.resize, device.rgb, device.norm, device.hwc} :
       DOMAIN buffer = 0 .. batch_size * Volume(d) - 1

\* After copy() each frame of the batch is in its slot.
SourceHeld ==
  pc = "preprocess" =>
    \A b \in 0 .. Len(imgs_batch) - 1, row \in 0 .. s.h - 1, col \in 0 .. s.w - 1,
       c \in 0 .. 2 :
      device.src[((b * s.h + row) * s.w + col) * 3 + c] = Pixel(imgs_batch[b + 1], row, col, c)

InputInv == BufferSizes /\ SourceHeld /\ NetworkInput

\* What the counters say of the batch and its geometry.
LEMMA SizesAndBatch ==
  ASSUME CountInv
  PROVE  /\ geometry \in Geometries /\ s \in Sizes /\ d \in Sizes
         /\ batch_size \in Nat /\ batch_size > 0
         /\ imgs_batch \in Seq(Frames) /\ Len(imgs_batch) \in 0 .. batch_size
         /\ DOMAIN imgs_batch = 1 .. Len(imgs_batch)
         /\ \A b \in 0 .. Len(imgs_batch) - 1 : imgs_batch[b + 1] \in Frames
<1>1. /\ geometry \in Geometries /\ batch_size \in Nat /\ batch_size > 0
      /\ imgs_batch \in Seq(Frames) /\ Len(imgs_batch) <= batch_size
  BY DEF CountInv, Options, Counters, Lengths
<1>2. s \in Sizes /\ d \in Sizes
  BY <1>1, AppAssumption DEF AppAssumption, s, d
<1> QED
  BY <1>1, <1>2

\* The pixels of a frame are bytes.
LEMMA PixelIsByte ==
  ASSUME NEW g \in Geometries, NEW f \in Frames, NEW row \in 0 .. g.src.h - 1,
         NEW col \in 0 .. g.src.w - 1, NEW c \in 0 .. 2
  PROVE  Pixel(f, row, col, c) \in 0 .. 255
BY AppAssumption DEF AppAssumption

\* copy() puts every frame of the batch into its slot and keeps the buffer's size.
LEMMA CopyFills ==
  ASSUME CountInv, BufferSizes, Copy
  PROVE  BufferSizes' /\ SourceHeld'
<1> DEFINE n == Volume(s)
           size == batch_size * n
           len == Len(imgs_batch)
<1>1. /\ s \in Sizes /\ batch_size \in Nat /\ len \in 0 .. batch_size
      /\ \A b \in 0 .. len - 1 : imgs_batch[b + 1] \in Frames
      /\ geometry \in Geometries
  BY SizesAndBatch
<1>2. /\ device' = [device EXCEPT !.src = Copied]
      /\ UNCHANGED <<geometry, batch_size, imgs_batch>> /\ pc' = "preprocess"
  BY DEF Copy, optionVars, loopVars, Goto
<1>3. /\ DOMAIN device' = DOMAIN device /\ device'.src = Copied
      /\ device'.resize = device.resize /\ device'.rgb = device.rgb
      /\ device'.norm = device.norm /\ device'.hwc = device.hwc
  BY <1>2 DEF BufferSizes
<1>4. /\ DOMAIN Copied = 0 .. size - 1
      /\ \A i \in 0 .. size - 1 :
           Copied[i] = IF i \div n < len
                       THEN Pixel(imgs_batch[(i \div n) + 1], (i % n) \div (3 * s.w),
                                  ((i % n) \div 3) % s.w, (i % n) % 3)
                       ELSE device.src[i]
  <2>1. DOMAIN device.src = 0 .. size - 1
    BY DEF BufferSizes
  <2> HIDE DEF size
  <2> QED
    BY <2>1 DEF Copied
<1>5. Copied \in [0 .. size - 1 -> 0 .. 255]
  <2> SUFFICES ASSUME NEW i \in 0 .. size - 1
               PROVE  Copied[i] \in 0 .. 255
    <3> HIDE DEF size
    <3>1. Copied = [i \in 0 .. size - 1 |-> Copied[i]]
      BY <1>4 DEF Copied
    <3> QED
      BY <3>1
  <2>1. i \in Nat
    OBVIOUS
  <2>2. device.src[i] \in 0 .. 255
    BY DEF BufferSizes
  <2> DEFINE b == i \div n
             row == (i % n) \div (3 * s.w)
             col == ((i % n) \div 3) % s.w
             c == (i % n) % 3
  <2>3. b \in Nat /\ row \in 0 .. s.h - 1 /\ col \in 0 .. s.w - 1 /\ c \in 0 .. 2
    BY <1>1, <2>1, ByteOfPlace
  <2>4. Copied[i] = IF b < len THEN Pixel(imgs_batch[b + 1], row, col, c) ELSE device.src[i]
    BY <1>4
  <2> HIDE DEF b, row, col, c, len
  <2>5. ASSUME b < len
        PROVE  Pixel(imgs_batch[b + 1], row, col, c) \in 0 .. 255
    <3>1. imgs_batch[b + 1] \in Frames
      BY <1>1, <2>3, <2>5
    <3> QED
      BY <1>1, <2>3, <3>1, PixelIsByte DEF s
  <2> QED
    BY <2>2, <2>4, <2>5
<1>6. BufferSizes'
  <2>1. s' = s /\ d' = d /\ batch_size' = batch_size
    BY <1>2 DEF s, d
  <2> QED
    BY <1>3, <1>5, <2>1 DEF BufferSizes
<1>7. SourceHeld'
  <2>1. s' = s /\ imgs_batch' = imgs_batch
    BY <1>2 DEF s
  <2> SUFFICES ASSUME NEW b \in 0 .. len - 1, NEW row \in 0 .. s.h - 1,
                      NEW col \in 0 .. s.w - 1, NEW c \in 0 .. 2
               PROVE  Copied[((b * s.h + row) * s.w + col) * 3 + c]
                        = Pixel(imgs_batch[b + 1], row, col, c)
    BY <1>3, <2>1 DEF SourceHeld
  <2> DEFINE i == ((b * s.h + row) * s.w + col) * 3 + c
  <2>2. b \in Nat /\ b < batch_size /\ b < len
    BY <1>1
  <2>3. /\ i \div n = b /\ (i % n) \div (3 * s.w) = row
        /\ ((i % n) \div 3) % s.w = col /\ (i % n) % 3 = c
        /\ i \in 0 .. size - 1
    <3> HIDE DEF i, len
    <3>1. i = ((b * s.h + row) * s.w + col) * 3 + c
      BY DEF i
    <3> QED
      BY <1>1, <2>2, <3>1, PlaceOfByte
  <2> HIDE DEF i, n, size
  <2>4. Copied[i] = Pixel(imgs_batch[b + 1], row, col, c)
    BY <1>4, <2>2, <2>3
  <2> QED
    BY <2>4 DEF i
<1> QED
  BY <1>6, <1>7

\* The reference input of a frame, an element at a time.
LEMMA InputElements ==
  ASSUME NEW g \in Geometries, NEW f \in Frames
  PROVE  /\ DOMAIN Inputs[g][f] = 0 .. Volume(g.dst) - 1
         /\ Inputs[g][f] = [t \in 0 .. Volume(g.dst) - 1 |-> Inputs[g][f][t]]
         /\ \A t \in 0 .. Volume(g.dst) - 1 :
              Inputs[g][f][t]
                = Norm(LetterboxedFrame(f, g.src, g.dst, (t % Area(g.dst)) \div g.dst.w,
                                        t % g.dst.w, t \div Area(g.dst)),
                       t \div Area(g.dst))
<1>1. Inputs[g][f]
        = [t \in 0 .. Volume(g.dst) - 1 |->
             Norm(LetterboxedFrame(f, g.src, g.dst, (t % Area(g.dst)) \div g.dst.w,
                                   t % g.dst.w, t \div Area(g.dst)),
                  t \div Area(g.dst))]
  BY DEF Inputs, LetterboxedFrame, Letterboxed, Area
<1> QED
  BY <1>1

\* The column of an element is the same in its plane and in the whole slot.
LEMMA ColumnOfElement ==
  ASSUME NEW dz \in Sizes, NEW t \in Nat
  PROVE  (t % Area(dz)) % dz.w = t % dz.w
<1> DEFINE area == Area(dz)
           k == t \div area
           p == t % area
           row == p \div dz.w
           col == p % dz.w
<1>1. /\ dz.h \in Nat /\ dz.w \in Nat /\ dz.w > 0 /\ area \in Nat /\ area > 0
      /\ area = dz.h * dz.w
  BY Volumes DEF Lengths, Area
<1>2. t \in Int /\ k \in Int /\ p \in 0 .. area - 1 /\ t = k * area + p
  <2> HIDE DEF area
  <2>1. t \in Int
    OBVIOUS
  <2> QED
    BY <1>1, <2>1, IntDivision
<1>3. row \in Int /\ col \in 0 .. dz.w - 1 /\ p = row * dz.w + col
  <2>1. p \in Int
    BY <1>1, <1>2
  <2> HIDE DEF p
  <2> QED
    BY <1>1, <2>1, IntDivision
<1> HIDE DEF k, p, row, col, area
<1>4. t = (k * dz.h + row) * dz.w + col /\ k * dz.h + row \in Int
  BY <1>1, <1>2, <1>3
<1> DEFINE above == k * dz.h + row
           n == dz.w
<1>5. above \in Int /\ n \in Nat /\ n > 0 /\ col \in 0 .. n - 1 /\ t = above * n + col
  BY <1>1, <1>3, <1>4
<1> HIDE DEF above, n
<1>6. col = t % n
  BY <1>2, <1>5, DivisionUnique
<1> QED
  BY <1>6 DEF col, p, area, n

\* The resize kernel letterboxes the frame its slot holds.
LEMMA SlotResized ==
  ASSUME CountInv, SourceHeld, pc = "preprocess",
         NEW b \in 0 .. Len(imgs_batch) - 1, NEW p \in Nat, NEW c \in 0 .. 2
  PROVE  Resize(device.src, s, d, p, b, c)
           = LetterboxedFrame(imgs_batch[b + 1], s, d, p \div d.w, p % d.w, 2 - c)
<1>1. ASSUME NEW i \in 0 .. s.h - 1, NEW j \in 0 .. s.w - 1
      PROVE  /\ device.src[((b * s.h + i) * s.w + j) * 3 + c]
                  = Pixel(imgs_batch[b + 1], i, j, c)
             /\ Pixel(imgs_batch[b + 1], i, j, c) \in Int
  <2>1. device.src[((b * s.h + i) * s.w + j) * 3 + c] = Pixel(imgs_batch[b + 1], i, j, c)
    BY DEF SourceHeld
  <2>2. /\ geometry \in Geometries /\ imgs_batch[b + 1] \in Frames
        /\ i \in 0 .. geometry.src.h - 1 /\ j \in 0 .. geometry.src.w - 1
    BY SizesAndBatch DEF s
  <2>3. Pixel(imgs_batch[b + 1], i, j, c) \in 0 .. 255
    BY <2>2, PixelIsByte
  <2>4. \A x : x \in 0 .. 255 => x \in Int
    OBVIOUS
  <2>5. Pixel(imgs_batch[b + 1], i, j, c) \in Int
    BY <2>3, <2>4, Zenon
  <2> QED
    BY <2>1, <2>5, Zenon
<1>2. SlotHolds(device.src, b, imgs_batch[b + 1], s, c)
  BY <1>1 DEF SlotHolds
<1>3. s \in Sizes /\ d \in Sizes /\ b \in Nat /\ c \in Channels
  BY SizesAndBatch DEF Channels
<1> DEFINE f == imgs_batch[b + 1]
           src == device.src
<1>4. SlotHolds(src, b, f, s, c)
  BY <1>2
<1> HIDE DEF f, src
<1>5. Resize(src, s, d, p, b, c) = FramePixel(f, s, d, p, c)
  BY <1>3, <1>4, ResizeIsLetterboxed
<1> QED
  BY <1>5 DEF FramePixel, f, src

\* The four kernels make the reference input of every frame of the batch.
LEMMA PreprocessMakesInput ==
  ASSUME CountInv, BufferSizes, SourceHeld, Preprocess
  PROVE  BufferSizes' /\ NetworkInput'
<1> DEFINE resize == resizeDevice(batch_size, device.src, s, device.resize, d)
           rgb == bgr2rgbDevice(batch_size, resize, device.rgb, d)
           norm == normDevice(batch_size, rgb, device.norm, d)
           hwc == hwc2chwDevice(batch_size, norm, device.hwc, d)
           len == Len(imgs_batch)
<1>1. /\ s \in Sizes /\ d \in Sizes /\ batch_size \in Nat /\ len \in 0 .. batch_size
      /\ \A b \in 0 .. len - 1 : imgs_batch[b + 1] \in Frames
      /\ geometry \in Geometries /\ DOMAIN imgs_batch = 1 .. len
  BY SizesAndBatch
<1>2. /\ device' = [src |-> device.src, resize |-> resize, rgb |-> rgb, norm |-> norm,
                    hwc |-> hwc]
      /\ UNCHANGED <<geometry, batch_size, imgs_batch>> /\ pc = "preprocess"
  BY DEF Preprocess, optionVars, loopVars, Goto
<1>3. s' = s /\ d' = d
  BY <1>2 DEF s, d
<1>4. /\ DOMAIN device.resize = 0 .. batch_size * Volume(d) - 1
      /\ DOMAIN device.rgb = 0 .. batch_size * Volume(d) - 1
      /\ DOMAIN device.norm = 0 .. batch_size * Volume(d) - 1
      /\ DOMAIN device.hwc = 0 .. batch_size * Volume(d) - 1
  BY DEF BufferSizes
<1>5. BufferSizes'
  <2>1. /\ DOMAIN resize = DOMAIN device.resize /\ DOMAIN rgb = DOMAIN device.rgb
        /\ DOMAIN norm = DOMAIN device.norm /\ DOMAIN hwc = DOMAIN device.hwc
    BY DEF resizeDevice, bgr2rgbDevice, normDevice, hwc2chwDevice, Kernel
  <2> HIDE DEF resize, rgb, norm, hwc
  <2>2. device.src \in [0 .. batch_size * Volume(s) - 1 -> 0 .. 255]
    BY DEF BufferSizes
  <2> QED
    BY <1>2, <1>3, <1>4, <2>1, <2>2 DEF BufferSizes
<1>6. ASSUME NEW b \in 0 .. len - 1, NEW t \in 0 .. Volume(d) - 1
      PROVE  hwc[b * Volume(d) + t] = Inputs[geometry][imgs_batch[b + 1]][t]
  <2> DEFINE p == t % Area(d)
             k == t \div Area(d)
             c == 2 - k
             f == imgs_batch[b + 1]
  <2>1. b \in 0 .. batch_size - 1 /\ b \in Nat /\ t \in Nat /\ f \in Frames
    BY <1>1
  <2>2. hwc[Place(b, Volume(d), t)] = Norm(Resize(device.src, s, d, p, b, c), k)
    <3> HIDE DEF f, len
    <3> QED
      BY <1>1, <1>4, <2>1, Preprocessed
  <2>3. p \in Nat /\ k \in 0 .. 2 /\ c \in 0 .. 2
    <3>1. p \in 0 .. Area(d) - 1 /\ k \in 0 .. 2
      <4>1. \E any : DOMAIN any = 0 .. batch_size * Volume(d) - 1
        BY <1>4
      <4> HIDE DEF len, f
      <4> QED
        BY <1>1, <2>1, <4>1, Transposed
    <3>2. Area(d) \in Nat
      BY <1>1, Volumes DEF Lengths
    <3> HIDE DEF p, k
    <3> QED
      BY <3>1, <3>2
  <2>4. Resize(device.src, s, d, p, b, c)
          = LetterboxedFrame(f, s, d, p \div d.w, p % d.w, 2 - c)
    <3>1. b \in 0 .. Len(imgs_batch) - 1 /\ p \in Nat /\ c \in 0 .. 2
      BY <2>3
    <3> HIDE DEF p, c
    <3>2. Resize(device.src, s, d, p, b, c)
            = LetterboxedFrame(imgs_batch[b + 1], s, d, p \div d.w, p % d.w, 2 - c)
      BY <1>2, <3>1, SlotResized
    <3> QED
      BY <3>2
  <2>5. 2 - c = k
    <3> HIDE DEF k
    <3> QED
      BY <2>3
  <2>6. p % d.w = t % d.w
    BY <1>1, <2>1, ColumnOfElement
  <2>7. Inputs[geometry][f][t]
          = Norm(LetterboxedFrame(f, s, d, p \div d.w, t % d.w, k), k)
    <3> HIDE DEF f
    <3> QED
      BY <1>1, <2>1, InputElements DEF s, d
  <2>8. b * Volume(d) + t = Place(b, Volume(d), t)
    BY DEF Place
  <2> HIDE DEF hwc, p, k, c
  <2> QED
    BY <2>2, <2>4, <2>5, <2>6, <2>7, <2>8
<1>7. NetworkInput'
  <2> HIDE DEF hwc
  <2> SUFFICES ASSUME NEW i \in 1 .. len
               PROVE  [t \in 0 .. Volume(d) - 1 |-> hwc[(i - 1) * Volume(d) + t]]
                        = Inputs[geometry][imgs_batch[i]]
    BY <1>1, <1>2, <1>3 DEF NetworkInput, Input, InputOf
  <2>1. i - 1 \in 0 .. len - 1 /\ (i - 1) + 1 = i
    BY <1>1
  <2>2. \A t \in 0 .. Volume(d) - 1 :
          hwc[(i - 1) * Volume(d) + t] = Inputs[geometry][imgs_batch[i]][t]
    <3> DEFINE b == i - 1
    <3>1. b \in 0 .. len - 1 /\ b + 1 = i
      BY <2>1
    <3> HIDE DEF b, len
    <3>2. \A t \in 0 .. Volume(d) - 1 :
            hwc[b * Volume(d) + t] = Inputs[geometry][imgs_batch[b + 1]][t]
      BY <1>6, <3>1
    <3> QED
      BY <3>1, <3>2 DEF b
  <2>3. imgs_batch[i] \in Frames
    BY <1>1, <2>1
  <2>4. Inputs[geometry][imgs_batch[i]]
          = [t \in 0 .. Volume(d) - 1 |-> Inputs[geometry][imgs_batch[i]][t]]
    BY <1>1, <2>3, InputElements DEF d
  <2> QED
    BY <2>2, <2>4
<1> QED
  BY <1>5, <1>7

\* Every step of main and task() keeps the inductive invariant of the inputs.
LEMMA InputStep ==
  ASSUME CountInv, InputInv, [Next]_vars
  PROVE  InputInv'
<1>1. CASE Copy
  <2>1. BufferSizes' /\ SourceHeld'
    BY <1>1, CopyFills DEF InputInv
  <2>2. pc' # "infer"
    BY <1>1 DEF Copy, Goto
  <2> QED
    BY <2>1, <2>2 DEF InputInv, NetworkInput
<1>2. CASE Preprocess
  <2>1. BufferSizes' /\ NetworkInput'
    BY <1>2, PreprocessMakesInput DEF InputInv
  <2>2. pc' # "preprocess"
    BY <1>2 DEF Preprocess, Goto
  <2> QED
    BY <2>1, <2>2 DEF InputInv, SourceHeld
<1>3. CASE UNCHANGED <<device, geometry, batch_size>> /\ pc' \notin {"preprocess", "infer"}
  <2>1. s' = s /\ d' = d
    BY <1>3 DEF s, d
  <2> QED
    BY <1>3, <2>1 DEF InputInv, BufferSizes, SourceHeld, NetworkInput
<1>4. CASE UNCHANGED vars
  <2>1. UNCHANGED <<device, geometry, batch_size, imgs_batch, pc>>
    BY <1>4 DEF vars, gpuVars, optionVars, loopVars
  <2>2. s' = s /\ d' = d
    BY <2>1 DEF s, d
  <2>3. BufferSizes' = BufferSizes
    BY <2>1, <2>2 DEF BufferSizes
  <2>4. SourceHeld' = SourceHeld
    BY <2>1, <2>2 DEF SourceHeld
  <2>5. NetworkInput' = NetworkInput
    <3>1. \A b : Input(b)' = Input(b)
      BY <2>1, <2>2 DEF Input
    <3>2. \A f : InputOf(f)' = InputOf(f)
      BY <2>1 DEF InputOf
    <3> QED
      BY <2>1, <3>1, <3>2 DEF NetworkInput
  <2> QED
    BY <2>3, <2>4, <2>5 DEF InputInv
<1>5. CASE Open \/ Break \/ Read \/ NoMore \/ Full
  BY <1>3, <1>5 DEF Open, Break, Read, NoMore, Full, Goto, gpuVars, optionVars
<1>6. CASE Infer \/ Postprocess \/ ShowEmpty \/ Show \/ Reset
  BY <1>3, <1>6 DEF Infer, Postprocess, ShowEmpty, Show, Reset, Goto, gpuVars, optionVars
<1> QED
  BY <1>1, <1>2, <1>4, <1>5, <1>6 DEF Next

\* It holds when the constructor has allocated the buffers.
LEMMA InitInput ==
  ASSUME Init
  PROVE  InputInv
<1>1. BufferSizes
  <2>1. Memory(batch_size * Volume(s)) \in [0 .. batch_size * Volume(s) - 1 -> 0 .. 255]
    BY AppAssumption DEF AppAssumption, Memory
  <2>2. DOMAIN Memory(batch_size * Volume(d)) = 0 .. batch_size * Volume(d) - 1
    BY DEF Memory
  <2> QED
    BY <2>1, <2>2 DEF Init, BufferSizes
<1> QED
  BY <1>1 DEF Init, InputInv, SourceHeld, NetworkInput

\* It holds throughout.
LEMMA InputInvariant == Spec => []InputInv
<1>1. Init => InputInv
  BY InitInput
<1>2. CountInv /\ InputInv /\ [Next]_vars => InputInv'
  BY InputStep
<1> QED
  BY <1>1, <1>2, CountInvariant, PTL DEF Spec

\* For frames, inputs, batches and blocks of any size, what the kernels make of a
\* frame in a slot is the frame letterboxed, and nothing the slot held before.
THEOREM InputIsLetterboxed == Spec => []NetworkInput
<1>1. InputInv => NetworkInput
  BY DEF InputInv
<1> QED
  BY <1>1, InputInvariant, PTL

-----------------------------------------------------------------------------
(* Types *)

\* The buffers behind the network keep their sizes too.
OutputSizes ==
  /\ context \in BOOLEAN /\ cleared \in BOOLEAN
  /\ DOMAIN output = 0 .. batch_size * answerSize - 1
  /\ DOMAIN objects = Slots /\ DOMAIN m_objectss = Slots
  /\ counts \in [Slots -> Nat]

\* No step changes a buffer's size.
LEMMA OutputSizesStep ==
  ASSUME OutputSizes, [Next]_vars
  PROVE  OutputSizes'
<1>1. batch_size' = batch_size /\ Slots' = Slots
  BY DEF Next, Open, Break, Read, NoMore, Full, Copy, Preprocess, Infer, Postprocess,
         ShowEmpty, Show, Reset, vars, optionVars, Slots
<1>2. CASE UNCHANGED <<context, cleared, output, objects, counts, m_objectss>>
  BY <1>1, <1>2 DEF OutputSizes
<1>3. CASE Open \/ Break \/ Read \/ NoMore \/ Full \/ Copy \/ Preprocess \/ ShowEmpty \/ Show
           \/ UNCHANGED vars
  BY <1>2, <1>3 DEF Open, Break, Read, NoMore, Full, Copy, Preprocess, ShowEmpty, Show,
                    gpuVars, vars
<1>4. CASE Infer
  BY <1>1, <1>4 DEF Infer, OutputSizes
<1>5. CASE Postprocess
  <2>1. DOMAIN objects' = Slots /\ DOMAIN m_objectss' = Slots
    BY <1>5 DEF Postprocess
  <2>2. UNCHANGED <<context, output, cleared>>
    BY <1>5 DEF Postprocess
  <2> DEFINE T == transposeDevice(batch_size, output, candidates, attributes,
                                  Memory(batch_size * answerSize))
             found == [b \in Slots |->
                         {c \in Candidates : Decoded(T, candidates, attributes, c, b).confidence
                                                >= conf_thresh}]
  <2>3. counts' = [b \in Slots |-> counts[b] + Cardinality(found[b])]
    BY <1>5 DEF Postprocess
  <2>4. ASSUME NEW b \in Slots
        PROVE  Cardinality(found[b]) \in Nat
    <3>1. candidates - 1 \in Int
      BY AppAssumption DEF AppAssumption, Lengths
    <3>2. IsFiniteSet(Candidates)
      BY <3>1, FS_Interval DEF Candidates
    <3>3. found[b] \in SUBSET Candidates
      OBVIOUS
    <3> HIDE DEF found
    <3>4. IsFiniteSet(found[b])
      BY <3>2, <3>3, FS_Subset
    <3> QED
      BY <3>4, FS_CardinalityType
  <2> HIDE DEF found
  <2>5. counts' \in [Slots -> Nat]
    BY <2>3, <2>4 DEF OutputSizes
  <2> QED
    BY <1>1, <2>1, <2>2, <2>5 DEF OutputSizes
<1>6. CASE Reset
  BY <1>1, <1>6 DEF Reset, OutputSizes
<1> QED
  BY <1>3, <1>4, <1>5, <1>6 DEF Next

\* The buffers behind the network have their sizes throughout.
LEMMA OutputSizesInvariant == Spec => []OutputSizes
<1>1. Init => OutputSizes
  <2> SUFFICES ASSUME Init PROVE OutputSizes
    OBVIOUS
  <2>1. objects \in {[b \in Slots |-> {}], [b \in Slots |-> {Stray}]}
    BY DEF Init
  <2>2. \A b \in Slots : objects[b] \in {{}, {Stray}}
    BY <2>1
  <2>3. Cardinality({}) = 0 /\ Cardinality({Stray}) = 1
    BY FS_EmptySet, FS_Singleton
  <2>4. \A b \in Slots : Cardinality(objects[b]) \in Nat
    BY <2>2, <2>3
  <2>5. DOMAIN objects = Slots /\ counts \in [Slots -> Nat]
    BY <2>1, <2>4 DEF Init
  <2> QED
    BY <2>5 DEF Init, OutputSizes, Memory
<1>2. OutputSizes /\ [Next]_vars => OutputSizes'
  BY OutputSizesStep
<1> QED
  BY <1>1, <1>2, PTL DEF Spec

\* Every variable keeps to its declared values; no kernel changes the size of a
\* buffer, and the batch never outgrows the slots.
THEOREM AppTypeCorrect == Spec => []TypeOK
<1>1. CountInv /\ InputInv /\ OutputSizes => TypeOK
  <2> SUFFICES ASSUME CountInv, InputInv, OutputSizes PROVE TypeOK
    OBVIOUS
  <2>1. /\ pc \in Steps /\ batchi \in Nat /\ read \in Nat
        /\ imgs_batch \in Seq(Frames) /\ Len(imgs_batch) <= batch_size
        /\ {last, context, cleared, is_show} \subseteq BOOLEAN
    BY DEF CountInv, Counters, Options, OutputSizes
  <2>2. /\ device.src \in [0 .. batch_size * Volume(s) - 1 -> 0 .. 255]
        /\ \A buffer \in {device.resize, device.rgb, device.norm, device.hwc} :
             DOMAIN buffer = 0 .. batch_size * Volume(d) - 1
    BY DEF InputInv, BufferSizes
  <2>3. /\ DOMAIN output = 0 .. batch_size * answerSize - 1
        /\ DOMAIN objects = Slots /\ DOMAIN m_objectss = Slots
        /\ counts \in [Slots -> Nat]
    BY DEF OutputSizes
  <2> QED
    BY <2>1, <2>2, <2>3 DEF TypeOK
<1> QED
  BY <1>1, CountInvariant, InputInvariant, OutputSizesInvariant, PTL

-----------------------------------------------------------------------------
(* What the decode kernel finds *)

\* k is the first of the best among src[first], ..., src[first + i].
IsBest(src, first, i, k) ==
  /\ k \in 0 .. i
  /\ \A j \in 0 .. i : \/ src[first + j] < src[first + k]
                       \/ src[first + j] = src[first + k] /\ j >= k

\* There is at most one first of the best.
LEMMA OneBest ==
  ASSUME NEW src, NEW first, NEW i \in Nat, \A j \in 0 .. i : src[first + j] \in Nat,
         NEW k, NEW m, IsBest(src, first, i, k), IsBest(src, first, i, m)
  PROVE  k = m
<1>1. k \in 0 .. i /\ m \in 0 .. i /\ src[first + k] \in Nat /\ src[first + m] \in Nat
  BY DEF IsBest
<1>2. src[first + m] < src[first + k] \/ (src[first + m] = src[first + k] /\ m >= k)
  BY <1>1 DEF IsBest
<1>3. src[first + k] < src[first + m] \/ (src[first + k] = src[first + m] /\ k >= m)
  BY <1>1 DEF IsBest
<1> QED
  BY <1>1, <1>2, <1>3

\* The loop body of the kernel: from the best of the first i to that of i + 1.
LEMMA NextBest ==
  ASSUME NEW src, NEW first, NEW i \in Nat, i > 0, \A j \in 0 .. i : src[first + j] \in Nat,
         NEW k, IsBest(src, first, i - 1, k)
  PROVE  IsBest(src, first, i, IF src[first + i] > src[first + k] THEN i ELSE k)
<1>1. /\ k \in 0 .. i - 1 /\ k \in 0 .. i /\ i \in 0 .. i
      /\ \A j \in 0 .. i - 1 : \/ src[first + j] < src[first + k]
                               \/ src[first + j] = src[first + k] /\ j >= k
  BY DEF IsBest
<1>2. \A j \in 0 .. i : j \in 0 .. i - 1 \/ j = i
  OBVIOUS
<1>3. src[first + i] \in Nat /\ src[first + k] \in Nat
  BY <1>1
<1>4. CASE src[first + i] > src[first + k]
  <2>1. ASSUME NEW j \in 0 .. i
        PROVE  \/ src[first + j] < src[first + i]
               \/ src[first + j] = src[first + i] /\ j >= i
    <3>1. CASE j = i
      BY <3>1
    <3>2. CASE j \in 0 .. i - 1
      <4>1. src[first + j] <= src[first + k] /\ src[first + j] \in Nat
        BY <1>1, <1>3, <3>2
      <4> QED
        BY <1>3, <1>4, <4>1
    <3> QED
      BY <1>2, <3>1, <3>2
  <2> QED
    BY <1>1, <1>4, <2>1 DEF IsBest
<1>5. CASE ~(src[first + i] > src[first + k])
  <2>1. ASSUME NEW j \in 0 .. i
        PROVE  \/ src[first + j] < src[first + k]
               \/ src[first + j] = src[first + k] /\ j >= k
    <3>1. CASE j = i
      BY <1>1, <1>3, <1>5, <3>1
    <3>2. CASE j \in 0 .. i - 1
      BY <1>1, <3>2
    <3> QED
      BY <1>2, <3>1, <3>2
  <2> QED
    BY <1>1, <1>5, <2>1 DEF IsBest
<1> QED
  BY <1>4, <1>5

\* There is one, however many there are.
LEMMA BestExists ==
  ASSUME NEW src, NEW first, NEW n \in Nat, \A j \in 0 .. n - 1 : src[first + j] \in Nat
  PROVE  \A i \in 0 .. n - 1 : \E k : IsBest(src, first, i, k)
<1> DEFINE T == {i \in 0 .. n - 1 : ~\E k : IsBest(src, first, i, k)}
<1>1. T = {}
  <2> SUFFICES ASSUME T # {} PROVE FALSE
    OBVIOUS
  <2>1. T \in SUBSET Nat
    OBVIOUS
  <2>2. PICK i \in T : \A j \in T : i <= j
    BY <2>1, LeastOfNaturals
  <2>3. i \in 0 .. n - 1 /\ ~\E k : IsBest(src, first, i, k)
    BY <2>2
  <2>4. i # 0
    <3> SUFFICES ASSUME i = 0 PROVE FALSE
      OBVIOUS
    <3>1. src[first + 0] \in Nat
      BY <2>3
    <3>2. \A j \in 0 .. 0 : j = 0
      OBVIOUS
    <3>3. IsBest(src, first, 0, 0)
      BY <3>1, <3>2 DEF IsBest
    <3> QED
      BY <2>3, <3>3
  <2>5. i - 1 \in 0 .. n - 1 /\ i \in Nat /\ i > 0 /\ ~(i <= i - 1)
    BY <2>3, <2>4
  <2>6. PICK k : IsBest(src, first, i - 1, k)
    BY <2>2, <2>5
  <2>7. \A j \in 0 .. i : src[first + j] \in Nat
    BY <2>3
  <2>8. \E m : IsBest(src, first, i, m)
    BY <2>5, <2>6, <2>7, NextBest
  <2> QED
    BY <2>3, <2>8
<1> QED
  BY <1>1

\* The loop finds the first of the best classes.
LEMMA BestClassIsBest ==
  ASSUME NEW src, NEW first, NEW n \in Nat, n > 0, \A j \in 0 .. n - 1 : src[first + j] \in Nat
  PROVE  IsBest(src, first, n - 1, BestClass(src, first, n))
<1> DEFINE Body(g) == [i \in 0 .. n - 1 |->
                         IF i = 0 THEN 0
                         ELSE IF src[first + i] > src[first + g[i - 1]] THEN i ELSE g[i - 1]]
           loop == CHOOSE g : g = Body(g)
           G == [i \in 0 .. n - 1 |-> CHOOSE k : IsBest(src, first, i, k)]
           T == {i \in 0 .. n - 1 : ~IsBest(src, first, i, loop[i])}
<1>1. \A i \in 0 .. n - 1 : IsBest(src, first, i, G[i])
  BY BestExists
<1>2. IsBest(src, first, 0, 0)
  <2>1. src[first + 0] \in Nat /\ \A j \in 0 .. 0 : j = 0
    OBVIOUS
  <2> QED
    BY <2>1 DEF IsBest
<1>3. G = Body(G)
  <2> SUFFICES ASSUME NEW i \in 0 .. n - 1
               PROVE  G[i] = Body(G)[i]
    OBVIOUS
  <2>1. IsBest(src, first, i, G[i]) /\ \A j \in 0 .. i : src[first + j] \in Nat
    BY <1>1
  <2>2. CASE i = 0
    <3>1. Body(G)[i] = 0
      BY <2>2
    <3> HIDE DEF G
    <3>2. G[i] = 0
      BY <1>2, <2>1, <2>2, OneBest
    <3> QED
      BY <3>1, <3>2
  <2>3. CASE i # 0
    <3>1. i - 1 \in 0 .. n - 1 /\ i \in Nat /\ i > 0
      BY <2>3
    <3>2. IsBest(src, first, i - 1, G[i - 1])
      BY <1>1, <3>1
    <3> HIDE DEF G
    <3>3. IsBest(src, first, i, Body(G)[i])
      BY <2>1, <2>3, <3>1, <3>2, NextBest
    <3> QED
      BY <2>1, <3>1, <3>3, OneBest
  <2> QED
    BY <2>2, <2>3
<1>4. loop = Body(loop)
  <2> HIDE DEF Body, G
  <2> QED
    BY <1>3
<1>5. T = {}
  <2> SUFFICES ASSUME T # {} PROVE FALSE
    OBVIOUS
  <2> HIDE DEF loop
  <2>1. T \in SUBSET Nat
    OBVIOUS
  <2>2. PICK i \in T : \A j \in T : i <= j
    BY <2>1, LeastOfNaturals
  <2>3. i \in 0 .. n - 1 /\ ~IsBest(src, first, i, loop[i])
    BY <2>2
  <2>4. i # 0
    BY <1>2, <1>4, <2>3
  <2>5. i - 1 \in 0 .. n - 1 /\ i \in Nat /\ i > 0 /\ ~(i <= i - 1)
    BY <2>3, <2>4
  <2>6. IsBest(src, first, i - 1, loop[i - 1])
    BY <2>2, <2>5
  <2>7. \A j \in 0 .. i : src[first + j] \in Nat
    BY <2>3
  <2>8. loop[i] = IF src[first + i] > src[first + loop[i - 1]] THEN i ELSE loop[i - 1]
    BY <1>4, <2>3, <2>4
  <2>9. IsBest(src, first, i, loop[i])
    BY <2>5, <2>6, <2>7, <2>8, NextBest
  <2> QED
    BY <2>3, <2>9
<1>6. BestClass(src, first, n) = loop[n - 1]
  BY DEF BestClass
<1>7. IsBest(src, first, n - 1, loop[n - 1])
  <2> HIDE DEF loop
  <2>1. n - 1 \in 0 .. n - 1
    OBVIOUS
  <2> QED
    BY <1>5, <2>1
<1> QED
  BY <1>6, <1>7

-----------------------------------------------------------------------------
(* The objects of a frame *)

\* The sizes of an answer are positive numbers.
LEMMA AnswerSize ==
  /\ candidates \in Lengths /\ num_class \in Nat /\ num_class > 0 /\ candidates \in Nat
  /\ attributes \in Lengths /\ attributes \in Nat /\ attributes = 4 + num_class
  /\ answerSize = candidates * attributes /\ answerSize \in Nat /\ answerSize > 0
<1>1. /\ candidates \in Lengths /\ num_class \in Lengths
  BY AppAssumption DEF AppAssumption
<1> QED
  BY <1>1 DEF Lengths, attributes, answerSize

\* The element of row a and column c of an answer.
LEMMA ElementOfAnswer ==
  ASSUME NEW a \in 0 .. attributes - 1, NEW c \in 0 .. candidates - 1
  PROVE  a * candidates + c \in 0 .. answerSize - 1
<1> DEFINE n == candidates
           q == a * n
<1>1. n \in Nat /\ a \in Nat /\ attributes \in Nat
  BY AnswerSize
<1>2. (a + 1) * n <= attributes * n /\ (a + 1) * n = a * n + n /\ a * n \in Nat
  BY <1>1, IntMultiplesInOrder
<1>3. q + n <= answerSize /\ q \in Nat
  BY <1>1, <1>2, AnswerSize
<1> HIDE DEF q
<1>4. answerSize \in Nat
  BY AnswerSize
<1>5. q + c \in 0 .. answerSize - 1
  BY <1>1, <1>3, <1>4
<1> QED
  BY <1>5 DEF q

\* Its values are numbers.
LEMMA AnswerValues ==
  ASSUME NEW f \in Frames, NEW a \in 0 .. attributes - 1, NEW c \in 0 .. candidates - 1
  PROVE  Value(f, a, c) \in Nat
<1>1. a * candidates + c \in 0 .. answerSize - 1
  BY ElementOfAnswer
<1>2. f \in 0 .. MaxFrames
  BY AppAssumption DEF AppAssumption, Frames, Lengths
<1>3. Answer[f] \in [0 .. answerSize - 1 -> Nat]
  BY <1>2, AppAssumption DEF AppAssumption
<1> DEFINE i == a * candidates + c
<1>4. i \in 0 .. answerSize - 1
  BY <1>1
<1> HIDE DEF i
<1>5. Answer[f][i] \in Nat
  BY <1>3, <1>4
<1> QED
  BY <1>5 DEF i, Value

\* Transposed, the answer has the attributes of a candidate side by side.
LEMMA AnswerTransposed ==
  ASSUME NEW batch \in Nat, NEW src, NEW dst,
         DOMAIN dst = 0 .. batch * answerSize - 1,
         NEW b \in 0 .. batch - 1, NEW c \in 0 .. candidates - 1,
         NEW a \in 0 .. attributes - 1
  PROVE  transposeDevice(batch, src, candidates, attributes, dst)
           [(b * candidates + c) * attributes + a]
           = src[b * answerSize + (a * candidates + c)]
<1> DEFINE n == candidates
           per == attributes
           i == (b * n + c) * per + a
<1>1. /\ n \in Lengths /\ per \in Lengths /\ n \in Nat /\ per \in Nat /\ b \in Nat
      /\ answerSize = per * n
  BY AnswerSize
<1>2. /\ (i \div per) % n = c /\ i \div (per * n) = b /\ i % per = a
      /\ i \in 0 .. batch * (per * n) - 1
  <2> HIDE DEF i
  <2>1. i = (b * n + c) * per + a
    BY DEF i
  <2> HIDE DEF n, per
  <2>2. (i \div per) % n = c /\ i \div (per * n) = b /\ i % per = a
    <3>1. c \in 0 .. n - 1 /\ a \in 0 .. per - 1
      BY DEF n, per
    <3>2. n \in Lengths /\ per \in Lengths /\ b \in Nat
      BY <1>1
    <3> QED
      BY <2>1, <3>1, <3>2, ElementOfThread
  <2>3. (b * n + c) * per + a \in 0 .. batch * (per * n) - 1
    <3>1. c \in 0 .. n - 1 /\ a \in 0 .. per - 1
      BY DEF n, per
    <3> QED
      BY <1>1, <3>1, ElementOfBuffer
  <2> QED
    BY <2>1, <2>2, <2>3
<1>3. i \in DOMAIN dst
  <2> HIDE DEF i, per, n
  <2> QED
    BY <1>1, <1>2
<1>4. <<c, b>> \in Launch(n) \X Launch(batch)
  <2>1. c \in 0 .. n - 1
    OBVIOUS
  <2> HIDE DEF n
  <2> QED
    BY <1>1, <2>1, ThreadExists
<1>5. transposeDevice(batch, src, n, per, dst)[i] = src[(b * per + a) * n + c]
  <2> HIDE DEF i, per, n
  <2> QED
    BY <1>2, <1>3, <1>4 DEF transposeDevice, Kernel
<1>6. (b * per + a) * n + c = b * answerSize + (a * n + c)
  <2>1. a \in Int /\ b \in Int /\ c \in Int
    OBVIOUS
  <2> HIDE DEF per, n
  <2>2. (b * per + a) * n + c = b * (per * n) + (a * n + c)
    BY <1>1, <2>1
  <2> QED
    BY <1>1, <2>2
<1> QED
  BY <1>5, <1>6

\* A thread of the decode kernel finds the object of its candidate.
LEMMA DecodedIsObject ==
  ASSUME NEW src, NEW f \in Frames, NEW b \in Nat, NEW c \in 0 .. candidates - 1,
         \A a \in 0 .. attributes - 1 :
           src[(b * candidates + c) * attributes + a] = Value(f, a, c)
  PROVE  Decoded(src, candidates, attributes, c, b) = ObjectAt(f, c)
<1> DEFINE first == (b * candidates + c) * attributes
           label == BestClass(src, first + 4, attributes - 4)
           n == num_class
<1>1. /\ first \in Int /\ n \in Nat /\ n > 0 /\ attributes - 4 = n /\ attributes = 4 + n
      /\ \A a \in 0 .. attributes - 1 : src[first + a] = Value(f, a, c)
  BY AnswerSize
<1> HIDE DEF first
<1>2. \A j \in 0 .. n - 1 :
        src[(first + 4) + j] = Value(f, 4 + j, c) /\ Value(f, 4 + j, c) \in Nat
  <2> SUFFICES ASSUME NEW j \in 0 .. n - 1
               PROVE  src[(first + 4) + j] = Value(f, 4 + j, c) /\ Value(f, 4 + j, c) \in Nat
    OBVIOUS
  <2> DEFINE a == 4 + j
  <2>1. a \in 0 .. attributes - 1 /\ (first + 4) + j = first + a
    BY <1>1
  <2> HIDE DEF a
  <2>2. src[first + a] = Value(f, a, c) /\ Value(f, a, c) \in Nat
    BY <1>1, <2>1, AnswerValues
  <2> QED
    BY <2>1, <2>2 DEF a
<1>3. label = BestClass(src, first + 4, n)
  BY <1>1
<1> HIDE DEF label, n
<1>4. IsBest(src, first + 4, n - 1, label)
  <2>1. \A j \in 0 .. n - 1 : src[(first + 4) + j] \in Nat
    BY <1>2
  <2> QED
    BY <1>1, <1>3, <2>1, BestClassIsBest
<1>5. label \in 0 .. n - 1
  BY <1>4 DEF IsBest
<1> DEFINE Best(k) == \A j \in 0 .. n - 1 :
                        \/ Value(f, 4 + j, c) < Value(f, 4 + k, c)
                        \/ Value(f, 4 + j, c) = Value(f, 4 + k, c) /\ j >= k
<1>6. \A k \in 0 .. n - 1 : Best(k) <=> IsBest(src, first + 4, n - 1, k)
  <2> SUFFICES ASSUME NEW k \in 0 .. n - 1
               PROVE  Best(k) <=> IsBest(src, first + 4, n - 1, k)
    OBVIOUS
  <2>1. src[(first + 4) + k] = Value(f, 4 + k, c)
    BY <1>2
  <2>2. \A j \in 0 .. n - 1 : src[(first + 4) + j] = Value(f, 4 + j, c)
    BY <1>2
  <2> QED
    BY <2>1, <2>2 DEF IsBest
<1>7. BestOf(f, c) = label
  <2>1. BestOf(f, c) = CHOOSE k \in 0 .. n - 1 : Best(k)
    BY DEF BestOf, n
  <2>2. Best(label)
    BY <1>4, <1>5, <1>6
  <2>3. ASSUME NEW k \in 0 .. n - 1, Best(k)
        PROVE  k = label
    <3>1. IsBest(src, first + 4, n - 1, k)
      BY <1>6, <2>3
    <3>2. \A j \in 0 .. n - 1 : src[(first + 4) + j] \in Nat
      BY <1>2
    <3>3. n - 1 \in Nat
      BY <1>1
    <3> HIDE DEF Best
    <3> QED
      BY <1>4, <3>1, <3>2, <3>3, OneBest
  <2> HIDE DEF Best
  <2> QED
    BY <1>5, <2>1, <2>2, <2>3
<1>8. src[first + 4 + label] = Value(f, 4 + BestOf(f, c), c)
  <2>1. first + 4 + label = (first + 4) + label
    OBVIOUS
  <2> QED
    BY <1>2, <1>5, <1>7, <2>1
<1>9. ASSUME NEW i \in 1 .. 4
      PROVE  src[first + i - 1] = Value(f, i - 1, c)
  <2> DEFINE a == i - 1
  <2>1. a \in 0 .. attributes - 1 /\ first + i - 1 = first + a
    BY <1>1
  <2> HIDE DEF a
  <2>2. src[first + a] = Value(f, a, c)
    BY <1>1, <2>1
  <2> QED
    BY <2>1, <2>2 DEF a
<1>10. Decoded(src, candidates, attributes, c, b)
         = [box |-> [i \in 1 .. 4 |-> src[first + i - 1]],
            confidence |-> src[first + 4 + label], label |-> label]
  BY DEF Decoded, first, label
<1> QED
  BY <1>7, <1>8, <1>9, <1>10 DEF ObjectAt

-----------------------------------------------------------------------------
(* The results of a batch *)

\* reset() has cleared every slot, on the device and on the host.
SlotsClear ==
  /\ pc = "open" => ~cleared
  /\ cleared /\ pc \in {"loop", "copy", "preprocess", "infer", "postprocess"} =>
       \A b \in Slots : objects[b] = {} /\ counts[b] = 0 /\ m_objectss[b] = {}

\* Each slot of the batch has the answer to its frame.
AnswerHeld ==
  pc = "postprocess" /\ context =>
    \A b \in 0 .. Len(imgs_batch) - 1, j \in 0 .. answerSize - 1 :
      output[b * answerSize + j] = Answer[imgs_batch[b + 1]][j]

ResultInv == SlotsClear /\ AnswerHeld /\ ResultOfFrame

\* The network answers to its input, whichever frame it came from.
LEMMA InferAnswers ==
  ASSUME CountInv, NetworkInput, OutputSizes, Infer
  PROVE  AnswerHeld'
<1> DEFINE len == Len(imgs_batch)
           seen == [b \in Slots |-> Seen(b)]
<1>1. /\ geometry \in Geometries /\ batch_size \in Nat /\ len \in 0 .. batch_size
      /\ DOMAIN imgs_batch = 1 .. len
      /\ \A b \in 0 .. len - 1 : imgs_batch[b + 1] \in Frames
  BY SizesAndBatch
<1>2. /\ pc = "infer" /\ imgs_batch' = imgs_batch
      /\ output' = IF context' THEN [i \in DOMAIN output |->
                                       Answer[seen[i \div answerSize]][i % answerSize]]
                   ELSE output
  BY DEF Infer, loopVars, Goto
<1> SUFFICES context' => \A b \in 0 .. len - 1, j \in 0 .. answerSize - 1 :
                           output'[b * answerSize + j] = Answer[imgs_batch[b + 1]][j]
  <2>1. imgs_batch' = imgs_batch
    BY <1>2
  <2> HIDE DEF seen
  <2> QED
    BY <2>1 DEF AnswerHeld
<1> SUFFICES ASSUME context', NEW b \in 0 .. len - 1, NEW j \in 0 .. answerSize - 1
             PROVE  output'[b * answerSize + j] = Answer[imgs_batch[b + 1]][j]
  OBVIOUS
<1> DEFINE i == b * answerSize + j
           f == imgs_batch[b + 1]
<1>3. i \in DOMAIN output /\ i \div answerSize = b /\ i % answerSize = j
  <2>1. answerSize \in Nat /\ answerSize > 0 /\ answerSize \in Lengths
    BY AnswerSize DEF Lengths
  <2>2. b \in 0 .. batch_size - 1 /\ b \in Int
    BY <1>1
  <2>3. Place(b, answerSize, j) \in 0 .. batch_size * answerSize - 1
    <3> HIDE DEF len
    <3> QED
      BY <1>1, <2>1, <2>2, OneInBuffer
  <2>4. i = b * answerSize + j /\ i \in Int
    BY <2>1, <2>2
  <2> HIDE DEF i
  <2>5. b = i \div answerSize /\ j = i % answerSize
    BY <2>1, <2>2, <2>4, DivisionUnique
  <2> QED
    BY <2>3, <2>4, <2>5 DEF OutputSizes, Place
<1>4. Seen(b) \in Frames /\ Answer[Seen(b)] = Answer[f]
  <2> DEFINE like == {h \in Frames : Input(b) = InputOf(h)}
  <2>1. f \in Frames
    BY <1>1
  <2>2. Input(b) = InputOf(f)
    <3>1. (b + 1) - 1 = b /\ b + 1 \in DOMAIN imgs_batch
      BY <1>1
    <3>2. Input((b + 1) - 1) = InputOf(imgs_batch[b + 1])
      BY <1>2, <3>1 DEF NetworkInput
    <3> QED
      BY <3>1, <3>2
  <2> HIDE DEF f
  <2>3. f \in like
    BY <2>1, <2>2
  <2>4. Seen(b) = CHOOSE h \in like : TRUE
    BY <2>3 DEF Seen
  <2>5. Seen(b) \in like
    <3> HIDE DEF like
    <3> QED
      BY <2>3, <2>4
  <2>6. Inputs[geometry][Seen(b)] = Inputs[geometry][f] /\ Seen(b) \in Frames
    BY <2>2, <2>5 DEF InputOf
  <2> QED
    BY <1>1, <2>1, <2>6, NetworkAssumption DEF NetworkAssumption
<1>5. b \in Slots /\ seen[b] = Seen(b)
  BY <1>1 DEF Slots
<1> HIDE DEF i, f, len, seen
<1>6. output'[i] = Answer[f][j]
  BY <1>2, <1>3, <1>4, <1>5
<1> QED
  BY <1>6 DEF i, f

\* The candidates good enough are finitely many.
LEMMA SureCounted ==
  ASSUME NEW f
  PROVE  /\ IsFiniteSet(Candidates)
         /\ Cardinality(Sure(f)) \in Nat
<1>1. candidates - 1 \in Int
  BY AnswerSize
<1>2. IsFiniteSet(Candidates)
  BY <1>1, FS_Interval DEF Candidates
<1>3. Sure(f) \in SUBSET Candidates
  BY DEF Sure
<1>4. IsFiniteSet(Sure(f))
  BY <1>2, <1>3, FS_Subset
<1> QED
  BY <1>2, <1>4, FS_CardinalityType

\* Those that get one of topK rows are all of them, or topK.
LEMMA RowsForSure ==
  ASSUME NEW f, NEW kept \in WithRow(Sure(f), topK)
  PROVE  /\ kept \in SUBSET Sure(f)
         /\ Cardinality(kept) = Min({Cardinality(Sure(f)), topK})
<1>1. Cardinality(Sure(f)) \in Nat /\ topK \in Nat
  BY SureCounted, AppAssumption DEF AppAssumption, Lengths
<1>2. Min({Cardinality(Sure(f)), topK})
        = IF Cardinality(Sure(f)) <= topK THEN Cardinality(Sure(f)) ELSE topK
  BY <1>1, MinOfTwo
<1>3. CASE Cardinality(Sure(f)) <= topK
  BY <1>2, <1>3 DEF WithRow
<1>4. CASE ~(Cardinality(Sure(f)) <= topK)
  BY <1>2, <1>4 DEF WithRow, kSubset
<1> QED
  BY <1>3, <1>4

\* The host gets the objects of its frame from every slot of the batch, as many as
\* there are rows.
LEMMA PostprocessFinds ==
  ASSUME CountInv, SlotsClear, AnswerHeld, OutputSizes, Postprocess
  PROVE  ResultOfFrame'
<1> DEFINE len == Len(imgs_batch)
           T == transposeDevice(batch_size, output, candidates, attributes,
                                Memory(batch_size * answerSize))
           object(b, c) == Decoded(T, candidates, attributes, c, b)
           found == [b \in Slots |-> {c \in Candidates :
                                         object(b, c).confidence >= conf_thresh}]
           room(b) == IF counts[b] < topK THEN topK - counts[b] ELSE 0
           taken == [b \in Slots |-> WithRow(found[b], room(b))]
<1>1. /\ batch_size \in Nat /\ len \in 0 .. batch_size /\ DOMAIN imgs_batch = 1 .. len
      /\ \A b \in 0 .. len - 1 : imgs_batch[b + 1] \in Frames
  BY SizesAndBatch
<1>2. /\ pc = "postprocess" /\ UNCHANGED <<imgs_batch, batch_size, context, cleared>>
      /\ m_objectss' = [b \in Slots |-> IF b < len THEN m_objectss[b] \cup objects'[b]
                                        ELSE m_objectss[b]]
  BY DEF Postprocess, optionVars, loopVars, Goto
<1>3. PICK kept : /\ \A b \in Slots : kept[b] \in taken[b]
                  /\ objects' = [b \in Slots |->
                                   objects[b] \cup {object(b, c) : c \in kept[b]}]
  BY DEF Postprocess
<1> SUFFICES ASSUME cleared, context, NEW b \in 0 .. len - 1
             PROVE  IsResultOf(imgs_batch[b + 1], m_objectss'[b])
  <2>1. \A i \in 1 .. len : i - 1 \in 0 .. len - 1 /\ (i - 1) + 1 = i
    BY <1>1
  <2> HIDE DEF taken, found, room, object, T
  <2> QED
    BY <1>1, <1>2, <2>1 DEF ResultOfFrame
<1> DEFINE f == imgs_batch[b + 1]
<1>4. b \in Slots /\ b < len /\ b \in 0 .. batch_size - 1 /\ b \in Nat /\ f \in Frames
  BY <1>1 DEF Slots
<1>5. objects[b] = {} /\ m_objectss[b] = {} /\ room(b) = topK
  <2>1. objects[b] = {} /\ m_objectss[b] = {} /\ counts[b] = 0
    BY <1>2, <1>4 DEF SlotsClear
  <2> QED
    BY <2>1, AppAssumption DEF AppAssumption, Lengths
<1>6. m_objectss'[b] = {object(b, c) : c \in kept[b]}
  <2> HIDE DEF taken, found, room, object, T, len
  <2> QED
    BY <1>2, <1>3, <1>4, <1>5
<1>7. ASSUME NEW c \in Candidates
      PROVE  object(b, c) = ObjectAt(f, c)
  <2>1. c \in 0 .. candidates - 1
    BY DEF Candidates
  <2>2. ASSUME NEW a \in 0 .. attributes - 1
        PROVE  T[(b * candidates + c) * attributes + a] = Value(f, a, c)
    <3> DEFINE j == a * candidates + c
    <3>1. j \in 0 .. answerSize - 1
      BY <2>1, ElementOfAnswer
    <3>2. DOMAIN Memory(batch_size * answerSize) = 0 .. batch_size * answerSize - 1
      BY DEF Memory
    <3>3. T[(b * candidates + c) * attributes + a] = output[b * answerSize + j]
      <4> HIDE DEF len
      <4> QED
        BY <1>1, <1>4, <2>1, <3>2, AnswerTransposed
    <3> HIDE DEF j, T
    <3>4. output[b * answerSize + j] = Answer[f][j]
      BY <1>2, <3>1 DEF AnswerHeld
    <3> HIDE DEF f
    <3> QED
      BY <3>3, <3>4 DEF j, Value
  <2> HIDE DEF T, f
  <2> QED
    BY <1>4, <2>1, <2>2, DecodedIsObject
<1>8. found[b] = Sure(f)
  <2>1. \A c \in Candidates : object(b, c).confidence = Value(f, 4 + BestOf(f, c), c)
    <3> HIDE DEF object, f
    <3> QED
      BY <1>7 DEF ObjectAt
  <2> HIDE DEF object, f
  <2> QED
    BY <1>4, <2>1 DEF Sure
<1>9. kept[b] \in WithRow(Sure(f), topK)
  <2>1. taken[b] = WithRow(found[b], room(b))
    BY <1>4
  <2> HIDE DEF taken, found, room, f
  <2> QED
    BY <1>3, <1>4, <1>5, <1>8, <2>1
<1>10. /\ kept[b] \in SUBSET Sure(f)
       /\ Cardinality(kept[b]) = Min({Cardinality(Sure(f)), topK})
  BY <1>9, RowsForSure
<1>11. m_objectss'[b] = {ObjectAt(f, c) : c \in kept[b]}
  <2>1. \A c \in kept[b] : c \in Candidates
    BY <1>10 DEF Sure
  <2> HIDE DEF object, f
  <2> QED
    BY <1>6, <1>7, <2>1
<1> HIDE DEF found, taken, room, object, T, len
<1> QED
  BY <1>10, <1>11 DEF f, IsResultOf

\* Every step of main and task() keeps the inductive invariant of the results.
LEMMA ResultStep ==
  ASSUME CountInv, InputInv, OutputSizes, ResultInv, [Next]_vars
  PROVE  ResultInv'
<1>1. CASE Infer
  <2>1. AnswerHeld'
    BY <1>1, InferAnswers DEF InputInv
  <2>2. /\ pc = "infer" /\ pc' = "postprocess"
        /\ UNCHANGED <<cleared, objects, counts, m_objectss, batch_size>>
    BY <1>1 DEF Infer, Goto, optionVars
  <2> QED
    BY <2>1, <2>2 DEF ResultInv, SlotsClear, ResultOfFrame, Slots
<1>2. CASE Postprocess
  <2>1. ResultOfFrame'
    BY <1>2, PostprocessFinds DEF ResultInv
  <2>2. pc' = "show"
    BY <1>2 DEF Postprocess, Goto
  <2> QED
    BY <2>1, <2>2 DEF ResultInv, SlotsClear, AnswerHeld
<1>3. CASE Reset
  <2>1. /\ pc' \in {"exit", "loop"} /\ UNCHANGED batch_size
        /\ objects' = [b \in Slots |-> {}] /\ counts' = [b \in Slots |-> 0]
        /\ m_objectss' = [b \in Slots |-> {}]
    BY <1>3 DEF Reset, Goto, optionVars
  <2> QED
    BY <2>1 DEF ResultInv, SlotsClear, AnswerHeld, ResultOfFrame, Slots
<1>4. CASE /\ UNCHANGED <<cleared, objects, counts, m_objectss, batch_size>>
           /\ pc \in {"loop", "copy", "preprocess"} \/ ~cleared
           /\ pc' \notin {"open", "postprocess", "show"}
  BY <1>4 DEF ResultInv, SlotsClear, AnswerHeld, ResultOfFrame, Slots
<1>5. CASE Open
  <2>1. ~cleared /\ UNCHANGED <<cleared, objects, counts, m_objectss, batch_size>>
    BY <1>5 DEF Open, gpuVars, optionVars, ResultInv, SlotsClear
  <2> QED
    BY <1>4, <1>5, <2>1 DEF Open
<1>6. CASE Break \/ Read \/ NoMore \/ Full \/ Copy \/ Preprocess
  BY <1>4, <1>6 DEF Break, Read, NoMore, Full, Copy, Preprocess, Goto, gpuVars, optionVars
<1>7. CASE ShowEmpty \/ Show
  <2>1. pc' \in {"crashed", "reset"}
    BY <1>7 DEF ShowEmpty, Show, Goto
  <2> QED
    BY <2>1 DEF ResultInv, SlotsClear, AnswerHeld, ResultOfFrame
<1>8. CASE UNCHANGED vars
  BY <1>8 DEF vars, gpuVars, loopVars, optionVars, ResultInv, SlotsClear, AnswerHeld,
              ResultOfFrame, Slots
<1> QED
  BY <1>1, <1>2, <1>3, <1>5, <1>6, <1>7, <1>8 DEF Next

\* It holds at first: reset() has not been called.
LEMMA InitResult ==
  ASSUME Init
  PROVE  ResultInv
BY DEF Init, ResultInv, SlotsClear, AnswerHeld, ResultOfFrame

\* Every frame of a batch is shown with the objects of the network's answer to it, all
\* of them or topK if they are more, whichever frames its slot held before and however
\* many the batch has, once reset() has been called and unless executeV2 failed.
THEOREM ResultsAreOwn == Spec => []ResultOfFrame
<1>1. Init => ResultInv
  BY InitResult
<1>2. CountInv /\ InputInv /\ OutputSizes /\ ResultInv /\ [Next]_vars => ResultInv'
  BY ResultStep
<1>3. ResultInv => ResultOfFrame
  BY DEF ResultInv
<1> QED
  BY <1>1, <1>2, <1>3, CountInvariant, InputInvariant, OutputSizesInvariant, PTL DEF Spec
=============================================================================
