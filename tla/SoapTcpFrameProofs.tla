------------------------- MODULE SoapTcpFrameProofs -------------------------
(***************************************************************************)
(* For any envelopes, any segmentation and any size of the buffer: sizes   *)
(* are read back as they were written, and what is handled is what was     *)
(* sent as long as no read ends inside a record.                           *)
(***************************************************************************)
EXTENDS SoapTcpFrame, FiniteSetTheorems, SequenceTheorems, TLAPS

-----------------------------------------------------------------------------
(* Induction and recursion over the numbers, as facts about sets and       *)
(* functions.                                                              *)

(* The numbers up to n that are not in T have each their predecessor among *)
(* them: a finite set would be mapped into itself without its largest.     *)
LEMMA NatSet ==
    ASSUME NEW T \in SUBSET Nat, 0 \in T, \A n \in T : n + 1 \in T
    PROVE  \A n \in Nat : n \in T
<1> SUFFICES ASSUME NEW n \in Nat, n \notin T PROVE FALSE
  OBVIOUS
<1> DEFINE S == (0..n) \ T
           f == [m \in S |-> m - 1]
<1>1. IsFiniteSet(S)
  <2>1. IsFiniteSet(0..n)
    BY FS_Interval
  <2>2. QED
    BY <2>1, FS_Subset
<1>2. \A m \in S : m - 1 \in S
  <2> SUFFICES ASSUME NEW m \in S PROVE m - 1 \in S
    OBVIOUS
  <2>1. m \in Nat /\ m <= n /\ m # 0
    OBVIOUS
  <2>2. m - 1 \in Nat /\ m - 1 <= n /\ (m - 1) + 1 = m
    BY <2>1
  <2>3. QED
    BY <2>2
<1>3. f \in Injection(S, S)
  <2>1. f \in [S -> S]
    BY <1>2
  <2>2. \A x, y \in S : f[x] = f[y] => x = y
    OBVIOUS
  <2>3. QED
    BY <2>1, <2>2 DEF Injection, IsInjective
<1>4. f \in Surjection(S, S)
  <2> HIDE DEF f, S
  <2>1. QED
    BY <1>1, <1>3, FS_Injection
<1>5. n \in S
  OBVIOUS
<1>6. PICK m \in S : f[m] = n
  <2> HIDE DEF f, S
  <2>1. QED
    BY <1>4, <1>5 DEF Surjection
<1>7. QED
  BY <1>6

Iterates(f, S, a, step) ==
    f \in [Nat -> S] /\ f[0] = a /\ \A n \in Nat : f[n + 1] = step[n][f[n]]

LEMMA NatRecursion ==
    ASSUME NEW S, NEW a \in S, NEW step \in [Nat -> [S -> S]]
    PROVE  \E f : Iterates(f, S, a, step)
<1> DEFINE Is(g, n) == /\ g \in [0..n -> S] /\ g[0] = a
                       /\ \A i \in Nat : i < n => g[i + 1] = step[i][g[i]]
           T == {n \in Nat : \E g : Is(g, n)}
<1>1. 0 \in T
  <2>1. Is([i \in 0..0 |-> a], 0)
    OBVIOUS
  <2>2. QED
    BY <2>1
<1>2. ASSUME NEW n \in T PROVE n + 1 \in T
  <2>1. PICK g : Is(g, n)
    OBVIOUS
  <2> DEFINE h == [i \in 0..n + 1 |-> IF i <= n THEN g[i] ELSE step[n][g[n]]]
  <2>2. n \in Nat /\ g[n] \in S /\ step[n][g[n]] \in S
    BY <2>1
  <2>3. h \in [0..n + 1 -> S] /\ h[0] = a
    BY <2>1, <2>2
  <2>4. h[n + 1] = step[n][g[n]] /\ \A i \in 0..n : h[i] = g[i]
    BY <2>2
  <2> HIDE DEF h
  <2>5. ASSUME NEW i \in Nat, i < n + 1 PROVE h[i + 1] = step[i][h[i]]
    <3>1. CASE i < n
      <4>1. i \in 0..n /\ i + 1 \in 0..n /\ g[i + 1] = step[i][g[i]]
        BY <2>1, <2>2, <3>1
      <4>2. QED
        BY <2>4, <4>1
    <3>2. CASE i = n
      BY <2>2, <2>4, <3>2
    <3>3. QED
      BY <2>2, <2>5, <3>1, <3>2
  <2>6. Is(h, n + 1)
    BY <2>3, <2>5
  <2>7. QED
    BY <2>2, <2>6
<1>3. \A n \in Nat : \E g : Is(g, n)
  <2>1. \A n \in Nat : n \in T
    <3> HIDE DEF T
    <3>1. T \in SUBSET Nat
      BY DEF T
    <3>2. QED
      BY <1>1, <1>2, <3>1, NatSet
  <2>2. QED
    BY <2>1
<1> DEFINE G == [n \in Nat |-> CHOOSE g : Is(g, n)]
           f == [n \in Nat |-> G[n][n]]
<1>4. \A n \in Nat : /\ G[n] \in [0..n -> S] /\ G[n][0] = a
                     /\ \A i \in Nat : i < n => G[n][i + 1] = step[i][G[n][i]]
  <2> SUFFICES ASSUME NEW n \in Nat PROVE Is(G[n], n)
    OBVIOUS
  <2>1. G[n] = CHOOSE g : Is(g, n)
    OBVIOUS
  <2>2. \E g : Is(g, n)
    BY <1>3
  <2> HIDE DEF Is, G
  <2>3. QED
    BY <2>1, <2>2
<1>5. f \in [Nat -> S] /\ f[0] = a /\ \A n \in Nat : f[n] = G[n][n]
  <2>1. \A n \in Nat : f[n] = G[n][n]
    OBVIOUS
  <2>2. f = [n \in Nat |-> f[n]]
    OBVIOUS
  <2> HIDE DEF f, G
  <2>3. \A n \in Nat : f[n] \in S
    BY <1>4, <2>1
  <2>4. f[0] = a
    BY <1>4, <2>1
  <2>5. QED
    BY <2>1, <2>2, <2>3, <2>4
<1> HIDE DEF f, G
<1>6. ASSUME NEW n \in Nat PROVE \A i \in Nat : i <= n => G[n + 1][i] = G[n][i]
  <2> DEFINE U == {i \in Nat : i <= n => G[n + 1][i] = G[n][i]}
  <2>1. n + 1 \in Nat
    OBVIOUS
  <2>2. 0 \in U
    BY <1>4, <2>1
  <2>3. ASSUME NEW i \in U PROVE i + 1 \in U
    <3> SUFFICES ASSUME i + 1 <= n PROVE G[n + 1][i + 1] = G[n][i + 1]
      OBVIOUS
    <3>1. i \in Nat /\ i < n /\ i < n + 1 /\ G[n + 1][i] = G[n][i]
      OBVIOUS
    <3>2. G[n][i + 1] = step[i][G[n][i]]
      BY <1>4, <3>1
    <3>3. G[n + 1][i + 1] = step[i][G[n + 1][i]]
      BY <1>4, <2>1, <3>1
    <3>4. QED
      BY <3>1, <3>2, <3>3
  <2>4. \A i \in Nat : i \in U
    <3>1. U \in SUBSET Nat
      OBVIOUS
    <3> HIDE DEF U
    <3>2. QED
      BY <2>2, <2>3, <3>1, NatSet
  <2>5. QED
    BY <2>4
<1>7. ASSUME NEW n \in Nat PROVE f[n + 1] = step[n][f[n]]
  <2>1. n + 1 \in Nat /\ n < n + 1 /\ n <= n
    OBVIOUS
  <2>2. G[n + 1][n + 1] = step[n][G[n + 1][n]] /\ G[n + 1][n] = G[n][n]
    BY <1>4, <1>6, <2>1
  <2>3. QED
    BY <1>5, <2>1, <2>2
<1>8. QED
  BY <1>5, <1>7 DEF Iterates

-----------------------------------------------------------------------------
(* Digits *)

LEMMA Digits ==
    ASSUME NEW n \in Nat
    PROVE  /\ n = (Base * (n \div Base)) + (n % Base)
           /\ n \div Base \in Nat /\ n % Base \in 0..Base - 1
           /\ n >= Base => n \div Base > 0 /\ n \div Base < n
           /\ n < Base => n % Base = n
           /\ n < Base => (Base + n) % Base = n
<1>1. /\ n = (Base * (n \div Base)) + (n % Base)
      /\ n \div Base \in Nat /\ n % Base \in 0..Base - 1
  BY PackedAssumption
<1>2. n >= Base => n \div Base > 0 /\ n \div Base < n
  BY <1>1, PackedAssumption
<1>3. n < Base => n % Base = n
  BY <1>1, PackedAssumption
<1>4. n < Base => (Base + n) % Base = n
  BY <1>1, PackedAssumption
<1>5. QED
  BY <1>1, <1>2, <1>3, <1>4

LEMMA PlaceFacts ==
    /\ Place \in [Nat -> Nat] /\ Place[0] = 1
    /\ \A k \in Nat : Place[k + 1] = Base * Place[k]
<1> DEFINE step == [n \in Nat |-> [m \in Nat |-> Base * m]]
<1>1. step \in [Nat -> [Nat -> Nat]] /\ \A n, m \in Nat : step[n][m] = Base * m
  BY PackedAssumption
<1> HIDE DEF step
<1>2. PICK f : Iterates(f, Nat, 1, step)
  BY <1>1, NatRecursion
<1>3. f \in [Nat -> Nat] /\ f[0] = 1 /\ \A n \in Nat : f[n + 1] = Base * f[n]
  BY <1>1, <1>2 DEF Iterates
<1>4. f = [k \in Nat |-> IF k = 0 THEN 1 ELSE Base * f[k - 1]]
  <2>1. ASSUME NEW k \in Nat, k # 0 PROVE f[k] = Base * f[k - 1]
    <3>1. k - 1 \in Nat /\ (k - 1) + 1 = k
      BY <2>1
    <3>2. QED
      BY <1>3, <3>1
  <2>2. QED
    BY <1>3, <2>1
<1>5. Place = [k \in Nat |-> IF k = 0 THEN 1 ELSE Base * Place[k - 1]]
  BY <1>4 DEF Place
<1>6. Place[0] = 1 /\ \A k \in Nat : Place[k + 1] = Base * Place[k]
  <2>1. ASSUME NEW k \in Nat PROVE Place[k + 1] = Base * Place[k]
    <3>1. k + 1 \in Nat /\ k + 1 # 0 /\ (k + 1) - 1 = k
      OBVIOUS
    <3>2. QED
      BY <1>5, <3>1
  <2>2. QED
    BY <1>5, <2>1
<1>7. \A k \in Nat : Place[k] \in Nat
  <2> DEFINE T == {k \in Nat : Place[k] \in Nat}
  <2>1. T \in SUBSET Nat /\ 0 \in T /\ \A k \in T : k + 1 \in T
    BY <1>6, PackedAssumption
  <2> HIDE DEF T
  <2>2. \A k \in Nat : k \in T
    BY <2>1, NatSet
  <2>3. QED
    BY <2>2 DEF T
<1>8. QED
  BY <1>5, <1>6, <1>7

LEMMA PlaceGrows ==
    /\ \A k \in Nat : Place[k] > 0
    /\ \A j, k \in Nat : j <= k => Place[j] <= Place[k]
<1>1. \A k \in Nat : Place[k] > 0
  <2> DEFINE T == {k \in Nat : Place[k] > 0}
  <2>1. T \in SUBSET Nat /\ 0 \in T /\ \A k \in T : k + 1 \in T
    BY PlaceFacts, PackedAssumption
  <2> HIDE DEF T
  <2>2. \A k \in Nat : k \in T
    BY <2>1, NatSet
  <2>3. QED
    BY <2>2 DEF T
<1>2. ASSUME NEW j \in Nat PROVE \A k \in Nat : j <= k => Place[j] <= Place[k]
  <2> DEFINE T == {k \in Nat : j <= k => Place[j] <= Place[k]}
  <2>1. T \in SUBSET Nat
    OBVIOUS
  <2>2. 0 \in T
    BY PlaceFacts
  <2>3. ASSUME NEW k \in T PROVE k + 1 \in T
    <3>1. k \in Nat /\ Place[k] \in Nat /\ Place[k + 1] = Base * Place[k] /\ Place[j] \in Nat
      BY PlaceFacts
    <3>2. Place[k] <= Place[k + 1]
      BY <3>1, PackedAssumption
    <3>3. CASE j <= k
      <4>1. Place[j] <= Place[k]
        BY <3>3
      <4>2. Place[j] <= Place[k + 1]
        BY <3>1, <3>2, <4>1, PlaceFacts
      <4>3. QED
        BY <3>1, <4>2
    <3>4. CASE j = k + 1
      BY <3>1, <3>2, <3>4
    <3>5. CASE j > k + 1
      BY <3>1, <3>5
    <3>6. QED
      BY <3>1, <3>3, <3>4, <3>5
  <2> HIDE DEF T
  <2>4. \A k \in Nat : k \in T
    BY <2>1, <2>2, <2>3, NatSet
  <2>5. QED
    BY <2>4 DEF T
<1>3. QED
  BY <1>1, <1>2

(* The digits of n are found by going on for more than n rounds; more of   *)
(* them make no difference.                                                *)
LEMMA EncodeUnfolds ==
    \A n \in Nat : EncodePackedInt(n) =
        IF n < Base THEN <<n>> ELSE <<Base + (n % Base)>> \o EncodePackedInt(n \div Base)
<1> DEFINE S == [Nat -> Seq(Nat)]
           empty == [n \in Nat |-> << >>]
           Next1(g, n) == IF n < Base THEN <<n>> ELSE <<Base + (n % Base)>> \o g[n \div Base]
           step == [k \in Nat |-> [g \in S |-> [n \in Nat |-> Next1(g, n)]]]
<1>1. ASSUME NEW g \in S PROVE [n \in Nat |-> Next1(g, n)] \in S
  <2> SUFFICES ASSUME NEW n \in Nat PROVE Next1(g, n) \in Seq(Nat)
    OBVIOUS
  <2>1. n \div Base \in Nat /\ n % Base \in Nat /\ Base + (n % Base) \in Nat
    BY Digits, PackedAssumption
  <2>2. g[n \div Base] \in Seq(Nat)
    BY <2>1
  <2>3. <<Base + (n % Base)>> \in Seq(Nat) /\ <<n>> \in Seq(Nat)
    BY <2>1
  <2>4. QED
    BY <2>2, <2>3
<1>2. empty \in S /\ step \in [Nat -> [S -> S]]
  <2>1. empty \in S
    OBVIOUS
  <2>2. step \in [Nat -> [S -> S]]
    <3> HIDE DEF S, Next1
    <3>1. QED
      BY <1>1
  <2>3. QED
    BY <2>1, <2>2
<1>3. \A k \in Nat, g \in S : step[k][g] = [n \in Nat |-> Next1(g, n)]
  <2> HIDE DEF S, Next1
  <2>1. QED
    OBVIOUS
<1> HIDE DEF empty, step, S
<1>4. PICK F : Iterates(F, S, empty, step)
  BY <1>2, NatRecursion
<1>5. \A k \in Nat : F[k] \in S
  BY <1>4 DEF Iterates
<1>6. \A k, n \in Nat : F[k + 1][n] = Next1(F[k], n)
  <2> SUFFICES ASSUME NEW k \in Nat, NEW n \in Nat PROVE F[k + 1][n] = Next1(F[k], n)
    OBVIOUS
  <2> HIDE DEF Next1
  <2>1. F[k + 1] = step[k][F[k]]
    BY <1>4 DEF Iterates
  <2>2. step[k][F[k]] = [m \in Nat |-> Next1(F[k], m)]
    BY <1>3, <1>5
  <2>3. QED
    BY <2>1, <2>2
<1>7. \A k \in Nat : \A n \in Nat : n < k => F[k + 1][n] = F[k][n]
  <2> DEFINE T == {k \in Nat : \A n \in Nat : n < k => F[k + 1][n] = F[k][n]}
  <2>1. T \in SUBSET Nat /\ 0 \in T
    OBVIOUS
  <2>2. ASSUME NEW k \in T PROVE k + 1 \in T
    <3> SUFFICES ASSUME NEW n \in Nat, n < k + 1 PROVE F[(k + 1) + 1][n] = F[k + 1][n]
      OBVIOUS
    <3>1. k \in Nat /\ k + 1 \in Nat
      OBVIOUS
    <3>2. F[(k + 1) + 1][n] = Next1(F[k + 1], n) /\ F[k + 1][n] = Next1(F[k], n)
      BY <1>6, <3>1
    <3>3. CASE n < Base
      BY <3>2, <3>3
    <3>4. CASE n >= Base
      <4>1. n \div Base \in Nat /\ n \div Base < n
        BY <3>4, Digits
      <4>2. n \div Base < k
        BY <3>1, <4>1
      <4>3. F[k + 1][n \div Base] = F[k][n \div Base]
        BY <4>1, <4>2
      <4>4. QED
        BY <3>2, <4>3
    <3>5. n < Base \/ n >= Base
      BY PackedAssumption
    <3>6. QED
      BY <3>3, <3>4, <3>5
  <2> HIDE DEF T
  <2>3. \A k \in Nat : k \in T
    BY <2>1, <2>2, NatSet
  <2>4. QED
    BY <2>3 DEF T
<1>8. ASSUME NEW n \in Nat PROVE \A k \in Nat : n < k => F[k][n] = F[n + 1][n]
  <2> DEFINE T == {k \in Nat : n < k => F[k][n] = F[n + 1][n]}
  <2>1. T \in SUBSET Nat /\ 0 \in T
    OBVIOUS
  <2>2. ASSUME NEW k \in T PROVE k + 1 \in T
    <3>1. CASE n < k
      BY <1>7, <3>1
    <3>2. CASE n = k
      BY <3>2
    <3>3. QED
      BY <3>1, <3>2
  <2> HIDE DEF T
  <2>3. \A k \in Nat : k \in T
    BY <2>1, <2>2, NatSet
  <2>4. QED
    BY <2>3 DEF T
<1> DEFINE f == [n \in Nat |-> F[n + 1][n]]
           B == CHOOSE bytes : bytes =
                    [n \in Nat |-> IF n < Base THEN <<n>>
                                   ELSE <<Base + (n % Base)>> \o bytes[n \div Base]]
<1>9. \A n \in Nat : f[n] = Next1(f, n)
  <2> SUFFICES ASSUME NEW n \in Nat PROVE f[n] = Next1(f, n)
    OBVIOUS
  <2>1. f[n] = Next1(F[n], n)
    BY <1>6
  <2>2. CASE n < Base
    BY <2>1, <2>2
  <2>3. CASE n >= Base
    <3>1. n \div Base \in Nat /\ n \div Base < n
      BY <2>3, Digits
    <3>2. F[n][n \div Base] = F[(n \div Base) + 1][n \div Base]
      BY <1>8, <3>1
    <3>3. F[n][n \div Base] = f[n \div Base]
      BY <3>1, <3>2
    <3> HIDE DEF f
    <3>4. QED
      BY <2>1, <3>3
  <2>4. n < Base \/ n >= Base
    BY PackedAssumption
  <2>5. QED
    BY <2>2, <2>3, <2>4
<1>10. f = [n \in Nat |-> Next1(f, n)]
  <2>1. f = [n \in Nat |-> f[n]]
    OBVIOUS
  <2> HIDE DEF f, Next1
  <2>2. QED
    BY <1>9, <2>1
<1>11. \A n : EncodePackedInt(n) = B[n]
  BY Zenon DEF EncodePackedInt
<1> HIDE DEF f
<1>12. B = [n \in Nat |-> IF n < Base THEN <<n>> ELSE <<Base + (n % Base)>> \o B[n \div Base]]
  BY <1>10
<1> HIDE DEF B
<1>13. QED
  BY <1>11, <1>12

LEMMA StrongNatSet ==
    ASSUME NEW T \in SUBSET Nat, \A n \in Nat : (\A m \in Nat : m < n => m \in T) => n \in T
    PROVE  \A n \in Nat : n \in T
<1> DEFINE U == {n \in Nat : \A m \in Nat : m < n => m \in T}
<1>1. U \in SUBSET Nat /\ 0 \in U
  OBVIOUS
<1>2. ASSUME NEW n \in U PROVE n + 1 \in U
  <2>1. n \in T
    OBVIOUS
  <2>2. \A m \in Nat : m < n + 1 => m < n \/ m = n
    OBVIOUS
  <2>3. QED
    BY <2>1, <2>2
<1> HIDE DEF U
<1>3. \A n \in Nat : n \in U
  BY <1>1, <1>2, NatSet
<1>4. QED
  BY <1>3 DEF U

LEMMA EncodeStep ==
    ASSUME NEW n \in Nat
    PROVE  LET b == EncodePackedInt(n)
               r == EncodePackedInt(n \div Base)
           IN  /\ n < Base => b = <<n>>
               /\ n >= Base /\ r \in Seq(Nat) =>
                     /\ b \in Seq(Nat) /\ Len(b) = 1 + Len(r) /\ b[1] = Base + (n % Base)
                     /\ \A i \in 1..Len(r) : b[1 + i] = r[i]
<1> DEFINE b == EncodePackedInt(n)
           r == EncodePackedInt(n \div Base)
<1>1. n < Base => b = <<n>>
  BY EncodeUnfolds
<1>2. ASSUME n >= Base, r \in Seq(Nat)
      PROVE  /\ b \in Seq(Nat) /\ Len(b) = 1 + Len(r) /\ b[1] = Base + (n % Base)
             /\ \A i \in 1..Len(r) : b[1 + i] = r[i]
  <2>1. b = <<Base + (n % Base)>> \o r
    <3>1. ~(n < Base)
      BY <1>2, PackedAssumption
    <3>2. QED
      BY <3>1, EncodeUnfolds
  <2>2. PICK d \in Nat : d = Base + (n % Base)
    BY Digits, PackedAssumption
  <2> HIDE DEF b, r
  <2>3. b = <<d>> \o r /\ <<d>> \in Seq(Nat) /\ Len(<<d>>) = 1
    BY <2>1, <2>2
  <2>4. QED
    BY <1>2, <2>2, <2>3
<1>3. QED
  BY <1>1, <1>2

LEMMA EncodeFacts ==
    ASSUME NEW n \in Nat
    PROVE  /\ EncodePackedInt(n) \in Seq(Nat) /\ Len(EncodePackedInt(n)) \in Nat \ {0}
           /\ \A i \in 1..Len(EncodePackedInt(n)) :
                 Continues(EncodePackedInt(n)[i]) <=> i < Len(EncodePackedInt(n))
<1> DEFINE Good(b) == /\ b \in Seq(Nat) /\ Len(b) \in Nat \ {0}
                      /\ \A i \in 1..Len(b) : Continues(b[i]) <=> i < Len(b)
           T == {m \in Nat : Good(EncodePackedInt(m))}
<1>1. ASSUME NEW m \in Nat, \A k \in Nat : k < m => k \in T PROVE m \in T
  <2>1. PICK b : b = EncodePackedInt(m)
    OBVIOUS
  <2>2. PICK r : r = EncodePackedInt(m \div Base)
    OBVIOUS
  <2>3. CASE m < Base
    <3>1. b = <<m>>
      BY <2>1, <2>3, EncodeStep
    <3>2. <<m>> \in Seq(Nat) /\ Len(<<m>>) = 1 /\ <<m>>[1] = m
      OBVIOUS
    <3>3. ~Continues(m)
      BY <2>3, PackedAssumption DEF Continues
    <3>4. Good(b)
      BY <3>1, <3>2, <3>3
    <3>5. QED
      BY <2>1, <3>4
  <2>4. CASE m >= Base
    <3>1. m \div Base \in Nat /\ m \div Base < m
      BY <2>4, Digits
    <3>2. Good(r)
      BY <1>1, <2>2, <3>1
    <3>3. /\ b \in Seq(Nat) /\ Len(b) = 1 + Len(r) /\ b[1] = Base + (m % Base)
          /\ \A i \in 1..Len(r) : b[1 + i] = r[i]
      BY <2>1, <2>2, <2>4, <3>2, EncodeStep
    <3>4. Continues(b[1])
      <4>1. Base + (m % Base) >= Base
        BY Digits, PackedAssumption
      <4>2. QED
        BY <3>3, <4>1 DEF Continues
    <3>5. ASSUME NEW i \in 1..Len(b) PROVE Continues(b[i]) <=> i < Len(b)
      <4>1. CASE i = 1
        BY <3>2, <3>3, <3>4, <4>1
      <4>2. CASE i # 1
        <5>1. i - 1 \in 1..Len(r) /\ 1 + (i - 1) = i
          BY <3>2, <3>3, <4>2
        <5>2. b[i] = r[i - 1] /\ (Continues(r[i - 1]) <=> i - 1 < Len(r))
          BY <3>2, <3>3, <5>1
        <5>3. QED
          BY <3>2, <3>3, <5>2
      <4>3. QED
        BY <4>1, <4>2
    <3>6. QED
      BY <2>1, <3>2, <3>3, <3>5
  <2>5. m < Base \/ m >= Base
    BY PackedAssumption
  <2>6. QED
    BY <2>3, <2>4, <2>5
<1>2. T \in SUBSET Nat
  OBVIOUS
<1> HIDE DEF T
<1>3. n \in T
  BY <1>1, <1>2, StrongNatSet
<1>4. QED
  BY <1>3 DEF T

Sums(s, data, c) ==
    /\ s \in [0..c -> Nat] /\ s[0] = 0
    /\ \A k \in 1..c : s[k] = (s[k - 1] + (data[k] % Base) * Place[k - 1]) % Word

(* The reader stops at the first byte no other follows. *)
LEMMA DecodeUnfolds ==
    ASSUME NEW data, NEW len \in Nat, DOMAIN data = 1..len, NEW c \in 1..len,
           \A i \in 1..c : data[i] \in Nat /\ (Continues(data[i]) <=> i < c)
    PROVE  \E s : Sums(s, data, c) /\ DecodePackedInt(data) = [value |-> s[c], count |-> c]
<1> DEFINE Ends(k) == ~Continues(data[k]) /\ \A i \in 1..(k - 1) : Continues(data[i])
           count == CHOOSE k \in DOMAIN data : Ends(k)
           Sum(q) == CHOOSE sum : sum = [k \in 0..q |->
                         IF k = 0 THEN 0
                         ELSE (sum[k - 1] + (data[k] % Base) * Place[k - 1]) % Word]
<1>1. DecodePackedInt(data) = [value |-> Sum(count)[count], count |-> count]
  BY Zenon DEF DecodePackedInt
<1>2. count = c
  <2>1. c \in DOMAIN data /\ Ends(c)
    <3>1. \A i \in 1..(c - 1) : i \in 1..c /\ i < c
      OBVIOUS
    <3>2. QED
      BY <3>1
  <2>2. ASSUME NEW k \in DOMAIN data, Ends(k) PROVE k = c
    <3>1. k \in Nat /\ k > 0 /\ c \in Nat
      OBVIOUS
    <3>2. CASE k < c
      <4>1. k \in 1..c
        BY <3>1, <3>2
      <4>2. QED
        BY <2>2, <3>2, <4>1
    <3>3. CASE c < k
      <4>1. c \in 1..(k - 1) /\ ~Continues(data[c])
        BY <3>1, <3>3
      <4>2. QED
        BY <2>2, <4>1
    <3>4. QED
      BY <3>1, <3>2, <3>3
  <2> HIDE DEF Ends
  <2>3. QED
    BY <2>1, <2>2
<1> HIDE DEF count
<1> DEFINE digit(k) == IF k \in 1..c THEN data[k] % Base ELSE 0
           step == [n \in Nat |-> [m \in Nat |-> (m + digit(n + 1) * Place[n]) % Word]]
<1>d. \A k \in 1..c : data[k] % Base \in Nat
  <2>1. \A m \in Nat : m % Base \in Nat
    BY Digits, PackedAssumption
  <2>2. QED
    BY <2>1
<1>3. \A k \in Nat : digit(k) \in Nat
  BY <1>d
<1>4. /\ step \in [Nat -> [Nat -> Nat]]
      /\ \A n, m \in Nat : step[n][m] = (m + digit(n + 1) * Place[n]) % Word
  <2>1. ASSUME NEW n \in Nat, NEW m \in Nat
        PROVE  (m + digit(n + 1) * Place[n]) % Word \in Nat
    <3>1. PICK d \in Nat : d = digit(n + 1)
      BY <1>3
    <3>2. PICK p \in Nat : p = Place[n]
      BY PlaceFacts
    <3>3. m + d * p \in Nat
      OBVIOUS
    <3>4. \A x \in Nat : x % Word \in Nat
      BY PackedAssumption
    <3> HIDE DEF digit
    <3>5. QED
      BY <3>1, <3>2, <3>3, <3>4
  <2> HIDE DEF digit
  <2>2. QED
    BY <2>1
<1> HIDE DEF step
<1>5. PICK f : Iterates(f, Nat, 0, step)
  BY <1>4, NatRecursion
<1>6. f \in [Nat -> Nat] /\ f[0] = 0
  BY <1>5 DEF Iterates
<1>7. ASSUME NEW k \in 1..c
      PROVE  f[k] = (f[k - 1] + (data[k] % Base) * Place[k - 1]) % Word
  <2>1. k - 1 \in Nat /\ (k - 1) + 1 = k /\ digit(k) = data[k] % Base
    OBVIOUS
  <2>2. f[(k - 1) + 1] = step[k - 1][f[k - 1]] /\ f[k - 1] \in Nat
    BY <1>5, <1>6, <2>1 DEF Iterates
  <2>3. step[k - 1][f[k - 1]] = (f[k - 1] + digit((k - 1) + 1) * Place[k - 1]) % Word
    BY <1>4, <2>1, <2>2
  <2> HIDE DEF digit
  <2>4. QED
    BY <2>1, <2>2, <2>3
<1> DEFINE g == [k \in 0..c |-> f[k]]
<1>8. g = [k \in 0..c |-> IF k = 0 THEN 0
                          ELSE (g[k - 1] + (data[k] % Base) * Place[k - 1]) % Word]
  <2>1. ASSUME NEW k \in 0..c, k # 0
        PROVE  g[k] = (g[k - 1] + (data[k] % Base) * Place[k - 1]) % Word
    <3>1. k \in 1..c /\ k - 1 \in 0..c
      BY <2>1
    <3>2. g[k] = f[k] /\ g[k - 1] = f[k - 1]
      BY <3>1
    <3> HIDE DEF g
    <3>3. QED
      BY <1>7, <3>1, <3>2
  <2>2. g[0] = 0 /\ g = [k \in 0..c |-> g[k]]
    BY <1>6
  <2> HIDE DEF g
  <2>3. QED
    BY <2>1, <2>2
<1> HIDE DEF g
<1> DEFINE s == Sum(c)
<1>9. s = [k \in 0..c |-> IF k = 0 THEN 0
                          ELSE (s[k - 1] + (data[k] % Base) * Place[k - 1]) % Word]
  BY <1>8
<1> HIDE DEF s
<1>10. s[0] = 0 /\ \A k \in 1..c : s[k] = (s[k - 1] + (data[k] % Base) * Place[k - 1]) % Word
  <2>1. 0 \in 0..c /\ \A k \in 1..c : k \in 0..c /\ k # 0
    OBVIOUS
  <2>2. QED
    BY <1>9, <2>1
<1>11. s \in [0..c -> Nat]
  <2>1. ASSUME NEW k \in 0..c PROVE s[k] \in Nat
    <3> DEFINE T == {n \in Nat : n <= c => s[n] \in Nat}
    <3>1. T \in SUBSET Nat /\ 0 \in T
      BY <1>10
    <3>2. ASSUME NEW n \in T PROVE n + 1 \in T
      <4> SUFFICES ASSUME n + 1 <= c PROVE s[n + 1] \in Nat
        OBVIOUS
      <4>1. n \in Nat /\ n + 1 \in 1..c /\ (n + 1) - 1 = n /\ s[n] \in Nat
        OBVIOUS
      <4>2. s[n + 1] = (s[n] + (data[n + 1] % Base) * Place[n]) % Word
        BY <1>10, <4>1
      <4>3. PICK d \in Nat : d = data[n + 1] % Base
        BY <1>d, <4>1
      <4>4. PICK p \in Nat : p = Place[n]
        BY <4>1, PlaceFacts
      <4>5. s[n] + d * p \in Nat
        BY <4>1
      <4>6. \A x \in Nat : x % Word \in Nat
        BY PackedAssumption
      <4>7. QED
        BY <4>2, <4>3, <4>4, <4>5, <4>6
    <3> HIDE DEF T
    <3>3. \A n \in Nat : n \in T
      BY <3>1, <3>2, NatSet
    <3>4. QED
      BY <3>3 DEF T
  <2>2. QED
    BY <1>9, <2>1
<1>12. QED
  BY <1>1, <1>2, <1>10, <1>11 DEF s, Sums

LEMMA Arithmetic ==
    /\ \A x \in Nat : x < Word => x % Word = x
    /\ \A s, p, r \in Nat : r < Base /\ s < p => s + r * p < Base * p
    /\ \A n, s, p, r \in Nat : n = s + p * r /\ r > 0 => n >= p
<1>1. \A x \in Nat : x < Word => x % Word = x
  BY PackedAssumption
<1>2. ASSUME NEW s \in Nat, NEW p \in Nat, NEW r \in Nat, r < Base, s < p
      PROVE  s + r * p < Base * p
  <2>1. PICK e \in Nat : Base = r + 1 + e
    <3>1. Base - (r + 1) \in Nat /\ Base = r + 1 + (Base - (r + 1))
      BY <1>2, PackedAssumption
    <3>2. QED
      BY <3>1
  <2>2. (r + 1 + e) * p = r * p + p + e * p /\ e * p \in Nat /\ r * p \in Nat
    OBVIOUS
  <2>3. QED
    BY <1>2, <2>1, <2>2
<1>3. ASSUME NEW n \in Nat, NEW s \in Nat, NEW p \in Nat, NEW r \in Nat, n = s + p * r, r > 0
      PROVE  n >= p
  <2>1. PICK e \in Nat : r = e + 1
    <3>1. r - 1 \in Nat /\ r = (r - 1) + 1
      BY <1>3
    <3>2. QED
      BY <3>1
  <2>2. p * (e + 1) = (p * e) + p /\ p * e \in Nat
    OBVIOUS
  <2>3. QED
    BY <1>3, <2>1, <2>2
<1>4. QED
  BY <1>1, <1>2, <1>3

(* The round trip.  When the lowest k digits are read, what is left to     *)
(* read is the encoding of what is left of the number.                     *)
LEMMA SizeIsRead ==
    ASSUME NEW n \in 0..Word - 1, NEW data, NEW len \in Nat, DOMAIN data = 1..len,
           Len(EncodePackedInt(n)) <= len,
           \A i \in 1..Len(EncodePackedInt(n)) : data[i] = EncodePackedInt(n)[i]
    PROVE  /\ DecodePackedInt(data) = [value |-> n, count |-> Len(EncodePackedInt(n))]
           /\ \A k \in Nat \ {0} : Len(EncodePackedInt(n)) <= k <=> n < Place[k]
<1>0. n \in Nat /\ n < Word
  BY PackedAssumption
<1>1. PICK b : b = EncodePackedInt(n)
  OBVIOUS
<1>2. PICK c : c = Len(b)
  OBVIOUS
<1>3. /\ b \in Seq(Nat) /\ c \in Nat \ {0} /\ c \in 1..len
      /\ \A i \in 1..c : data[i] = b[i] /\ b[i] \in Nat /\ (Continues(b[i]) <=> i < c)
  <2>1. /\ b \in Seq(Nat) /\ c \in Nat \ {0}
        /\ \A i \in 1..c : Continues(b[i]) <=> i < c
    BY <1>0, <1>1, <1>2, EncodeFacts
  <2>2. c \in 1..len /\ \A i \in 1..c : data[i] = b[i]
    BY <1>1, <1>2, <2>1
  <2>3. \A i \in 1..c : b[i] \in Nat
    BY <1>2, <2>1
  <2>4. QED
    BY <2>1, <2>2, <2>3
<1>a. PICK s : Sums(s, data, c) /\ DecodePackedInt(data) = [value |-> s[c], count |-> c]
  <2>1. \A i \in 1..c : data[i] \in Nat /\ (Continues(data[i]) <=> i < c)
    BY <1>3
  <2>2. QED
    BY <1>3, <2>1, DecodeUnfolds
<1>4. /\ s \in [0..c -> Nat] /\ s[0] = 0
      /\ \A k \in 1..c : s[k] = (s[k - 1] + (data[k] % Base) * Place[k - 1]) % Word
  BY <1>a DEF Sums
<1> DEFINE Left(k, r) == /\ r \in Nat /\ n = s[k] + Place[k] * r /\ (k > 0 => r > 0)
                         /\ Len(EncodePackedInt(r)) = c - k
                         /\ \A i \in 1..c - k : b[k + i] = EncodePackedInt(r)[i]
           Upto(k) == /\ s[k] < Place[k]
                      /\ k = c => s[k] = n
                      /\ k < c => \E r : Left(k, r)
           T == {k \in Nat : k <= c => Upto(k)}
<1>5. 0 \in T
  <2>1. s[0] < Place[0]
    BY <1>4, PlaceFacts
  <2>2. Left(0, n)
    <3>1. n = s[0] + Place[0] * n
      BY <1>0, <1>4, PlaceFacts
    <3>2. c - 0 = c /\ \A i \in 1..c : 0 + i = i
      BY <1>3
    <3>3. QED
      BY <1>0, <1>1, <1>2, <3>1, <3>2
  <2>3. QED
    BY <1>3, <2>1, <2>2
<1>6. ASSUME NEW k \in T PROVE k + 1 \in T
  <2> SUFFICES ASSUME k + 1 <= c PROVE Upto(k + 1)
    OBVIOUS
  <2>1. k \in Nat /\ k < c /\ k + 1 \in 1..c /\ (k + 1) - 1 = k
    BY <1>3
  <2>2. Upto(k)
    BY <1>3, <2>1
  <2>3. PICK r : Left(k, r)
    BY <2>1, <2>2
  <2>4. PICK p \in Nat : p = Place[k] /\ Place[k + 1] = Base * p /\ s[k] < p
    BY <2>1, <2>2, PlaceFacts
  <2>5. s[k] \in Nat /\ r \in Nat /\ n = s[k] + p * r
    BY <1>3, <1>4, <2>1, <2>3, <2>4
  <2>6. data[k + 1] = EncodePackedInt(r)[1] /\ Len(EncodePackedInt(r)) = c - k
    <3>1. 1 \in 1..c - k
      BY <1>3, <2>1
    <3>2. QED
      BY <1>3, <2>1, <2>3, <3>1
  <2>7. s[k + 1] = (s[k] + (data[k + 1] % Base) * p) % Word
    BY <1>4, <2>1, <2>4
  <2>8. CASE r < Base
    <3>1. EncodePackedInt(r) = <<r>>
      BY <2>5, <2>8, EncodeStep
    <3>2. k + 1 = c /\ data[k + 1] = r
      BY <1>3, <2>1, <2>6, <3>1
    <3>3. r % Base = r
      BY <2>5, <2>8, Digits
    <3>4. s[k] + r * p = n
      BY <2>5
    <3>5. s[k + 1] = n
      BY <1>0, <2>7, <3>2, <3>3, <3>4, Arithmetic
    <3>6. s[k] + r * p < Base * p
      BY <2>4, <2>5, <2>8, Arithmetic
    <3>7. QED
      BY <2>4, <3>2, <3>4, <3>5, <3>6
  <2>9. CASE r >= Base
    <3>1. PICK q \in Nat : q = r \div Base /\ q > 0
      BY <2>5, <2>9, Digits
    <3>2. PICK d \in Nat : d = r % Base /\ d < Base /\ r = (Base * q) + d
      <4>1. /\ r = (Base * (r \div Base)) + (r % Base) /\ r % Base \in 0..Base - 1
        BY <2>5, Digits
      <4>2. r % Base \in Nat /\ r % Base < Base
        BY <4>1, PackedAssumption
      <4>3. QED
        BY <3>1, <4>1, <4>2
    <3>3. /\ EncodePackedInt(q) \in Seq(Nat) /\ Len(EncodePackedInt(q)) \in Nat \ {0}
      BY EncodeFacts
    <3>4. /\ Len(EncodePackedInt(r)) = 1 + Len(EncodePackedInt(q))
          /\ EncodePackedInt(r)[1] = Base + d
          /\ \A i \in 1..Len(EncodePackedInt(q)) :
                EncodePackedInt(r)[1 + i] = EncodePackedInt(q)[i]
      BY <2>5, <2>9, <3>1, <3>2, <3>3, EncodeStep
    <3>5. (Base + d) % Base = d
      BY <3>2, Digits
    <3>6. s[k + 1] = (s[k] + d * p) % Word
      BY <2>6, <2>7, <3>4, <3>5
    <3>7. n = (s[k] + d * p) + ((Base * p) * q) /\ s[k] + d * p <= n /\ s[k] + d * p \in Nat
      <4>1. PICK a \in Nat : a = s[k]
        BY <2>5
      <4>2. n = a + p * r
        BY <2>5, <4>1
      <4>3. n = (a + d * p) + ((Base * p) * q) /\ a + d * p <= n
        <5>1. PICK e \in Nat : e = Base
          BY PackedAssumption
        <5>2. r = (e * q) + d
          BY <3>2, <5>1
        <5>3. p * ((e * q) + d) = ((e * p) * q) + (d * p)
          OBVIOUS
        <5>4. ((e * p) * q) \in Nat /\ d * p \in Nat
          OBVIOUS
        <5>5. n = (a + d * p) + ((e * p) * q)
          BY <4>2, <5>2, <5>3, <5>4
        <5>6. QED
          BY <5>1, <5>4, <5>5
      <4>4. a + d * p \in Nat
        OBVIOUS
      <4>5. QED
        BY <4>1, <4>3, <4>4
    <3>8. s[k + 1] = s[k] + d * p
      <4>1. PICK x \in Nat : x = s[k] + d * p
        BY <3>7
      <4>2. x < Word
        BY <1>0, <3>7, <4>1, PackedAssumption
      <4>3. QED
        BY <3>6, <4>1, <4>2, Arithmetic
    <3>9. s[k] + d * p < Base * p
      BY <2>4, <2>5, <3>2, Arithmetic
    <3>10. Len(EncodePackedInt(q)) = c - (k + 1) /\ k + 1 < c
      <4>1. PICK e \in Nat \ {0} : e = Len(EncodePackedInt(q))
        BY <3>3
      <4>2. 1 + e = c - k
        BY <2>6, <3>4, <4>1
      <4>3. QED
        BY <1>3, <2>1, <4>1, <4>2
    <3>11. ASSUME NEW i \in 1..c - (k + 1) PROVE b[(k + 1) + i] = EncodePackedInt(q)[i]
      <4>1. 1 + i \in 1..c - k /\ (k + 1) + i = k + (1 + i)
        BY <1>3, <2>1
      <4>2. QED
        BY <2>3, <3>4, <3>10, <4>1
    <3>12. Left(k + 1, q)
      BY <2>4, <3>1, <3>7, <3>8, <3>10, <3>11
    <3>13. s[k + 1] < Place[k + 1] /\ k + 1 # c
      BY <2>4, <3>8, <3>9, <3>10
    <3> HIDE DEF Left
    <3>14. QED
      BY <3>12, <3>13
  <2>10. r < Base \/ r >= Base
    BY <2>5, PackedAssumption
  <2>11. QED
    BY <2>8, <2>9, <2>10
<1>7. \A k \in Nat : k <= c => Upto(k)
  <2>1. T \in SUBSET Nat
    OBVIOUS
  <2>2. \A k \in Nat : k \in T
    <3> HIDE DEF T
    <3>1. QED
      BY <1>5, <1>6, <2>1, NatSet
  <2>3. QED
    BY <2>2
<1>8. s[c] = n /\ n < Place[c]
  BY <1>3, <1>7
<1>9. ASSUME NEW k \in Nat \ {0} PROVE c <= k <=> n < Place[k]
  <2>1. CASE c <= k
    <3>1. Place[c] <= Place[k] /\ Place[c] \in Nat /\ Place[k] \in Nat
      BY <1>3, <2>1, PlaceGrows, PlaceFacts
    <3>2. QED
      BY <1>0, <1>8, <2>1, <3>1
  <2>2. CASE k < c
    <3>1. PICK r : Left(k, r)
      <4>1. k <= c
        BY <1>3, <2>2
      <4>2. Upto(k)
        BY <1>7, <4>1
      <4> HIDE DEF Left
      <4>3. QED
        BY <2>2, <4>2
    <3>2. r \in Nat /\ r > 0 /\ n = s[k] + Place[k] * r /\ s[k] \in Nat /\ Place[k] \in Nat
      BY <1>3, <1>4, <2>2, <3>1, PlaceFacts
    <3>3. n >= Place[k]
      BY <1>0, <3>2, Arithmetic
    <3>4. QED
      BY <1>0, <1>3, <2>2, <3>2, <3>3
  <2>3. QED
    BY <1>3, <2>1, <2>2
<1>10. QED
  BY <1>1, <1>2, <1>a, <1>8, <1>9

(* What the buffer holds is left open: the theorem is of every state.      *)
LEMMA BehindASize ==
    ASSUME NEW n \in 0..Word - 1
    PROVE  LET data == EncodePackedInt(n)
           IN  /\ DecodePackedInt(data \o Behind) = [value |-> n, count |-> Len(data)]
               /\ Len(data) <= HeaderRoom <=> n < Place[HeaderRoom]
<1>1. PICK data : data = EncodePackedInt(n)
  OBVIOUS
<1>2. data \in Seq(Nat) /\ Len(data) \in Nat
  BY <1>1, EncodeFacts, PackedAssumption
<1>3. PICK more : more = Behind
  OBVIOUS
<1>4. DOMAIN more = 1..Cap /\ more = [i \in 1..Cap |-> more[i]]
  BY <1>3 DEF Behind
<1>5. PICK S : S = {more[i] : i \in 1..Cap}
  OBVIOUS
<1>6. more \in Seq(S) /\ Len(more) = Cap
  <2>1. more \in [1..Cap -> S] /\ Cap \in Nat
    BY <1>4, <1>5, CapAssumption
  <2>2. QED
    BY <2>1, <1>4
<1>7. /\ Len(data \o more) = Len(data) + Cap
      /\ DOMAIN (data \o more) = 1..Len(data) + Cap
      /\ \A i \in 1..Len(data) : (data \o more)[i] = data[i]
  <2>1. data \in Seq(Nat \cup S) /\ more \in Seq(Nat \cup S)
    BY <1>2, <1>6
  <2>2. QED
    BY <1>6, <2>1
<1>8. Len(data) + Cap \in Nat /\ Len(data) <= Len(data) + Cap
  BY <1>2, CapAssumption
<1>9. /\ DecodePackedInt(data \o more) = [value |-> n, count |-> Len(data)]
      /\ \A k \in Nat \ {0} : Len(data) <= k <=> n < Place[k]
  BY <1>1, <1>7, <1>8, SizeIsRead
<1>10. QED
  BY <1>1, <1>3, <1>9, PackedAssumption

(* Every length a size_t can hold is read as it was written, whatever the  *)
(* digits' base and whatever bytes the reader's buffer holds behind it     *)
(* (Util.h: EncodePackedInt, DecodePackedInt).                             *)
THEOREM SizesAreReadAsWritten == Spec => []PackedSizes
<1>1. PackedSizes
  BY BehindASize DEF PackedSizes
<1>2. QED
  BY <1>1, PTL

-----------------------------------------------------------------------------
(* The cells of a record.                                                  *)

LEMMA Joined ==
    ASSUME NEW S, NEW s \in Seq(S), NEW t \in Seq(S)
    PROVE  /\ s \o t \in Seq(S) /\ Len(s) \in Nat /\ Len(t) \in Nat
           /\ Len(s \o t) = Len(s) + Len(t)
           /\ \A i \in 1..Len(s) : (s \o t)[i] = s[i]
           /\ \A i \in 1..Len(t) : (s \o t)[Len(s) + i] = t[i]
<1>1. Len(s) \in Nat /\ Len(t) \in Nat
  BY LenProperties
<1>2. /\ s \o t \in Seq(S) /\ Len(s \o t) = Len(s) + Len(t)
      /\ \A i \in 1..Len(s) + Len(t) :
            (s \o t)[i] = IF i <= Len(s) THEN s[i] ELSE t[i - Len(s)]
  BY ConcatProperties
<1>3. ASSUME NEW i \in 1..Len(s) PROVE (s \o t)[i] = s[i]
  BY <1>1, <1>2
<1>4. ASSUME NEW i \in 1..Len(t) PROVE (s \o t)[Len(s) + i] = t[i]
  <2>1. /\ Len(s) + i \in 1..Len(s) + Len(t) /\ ~(Len(s) + i <= Len(s))
        /\ (Len(s) + i) - Len(s) = i
    BY <1>1
  <2>2. QED
    BY <1>2, <2>1
<1>5. QED
  BY <1>1, <1>2, <1>3, <1>4

LEMMA RecordKinds ==
    /\ Preamble.kind = "preamble" /\ EndRec.kind = "end"
    /\ \A m \in Msg : Env(m).kind = "envelope" /\ Env(m).of = m
    /\ Garbled.kind = "garbled"
    /\ \A r \in Rec : r # Garbled
BY DEF Preamble, EndRec, Env, Garbled, Rec

LEMMA PreambleIsRecord == Preamble \in Rec
BY DEF Rec

LEMMA CellKinds ==
    /\ \A k : Plain(k).kind = k
    /\ \A k, b : Digit(k, b).kind = k /\ Digit(k, b).byte = b
    /\ \A i : Url(i).kind = "url"
    /\ \A m, i : Text(m, i).kind = "text" /\ Text(m, i).of = m
BY DEF Plain, Digit, Url, Text

LEMMA CellTypes ==
    /\ \A k \in Fixed : Plain(k) \in StreamCell
    /\ \A k \in DigitKinds, b \in Nat : Digit(k, b) \in StreamCell
    /\ \A i \in Nat : Url(i) \in StreamCell
    /\ \A m \in Msg, i \in Nat : Text(m, i) \in StreamCell
BY DEF Plain, Digit, Url, Text, StreamCell

(* What a handler can read a cell as. *)
LEMMA CellValues ==
    ASSUME NEW c
    PROVE  /\ c.kind \in {"version", "minor", "utf8"} => Values(c) = {0}
           /\ c.kind \in {"major", "mode"} => Values(c) = {1}
           /\ c.kind \in {"duplex", "via"} => Values(c) = {2}
           /\ c.kind = "encoding" => Values(c) = {3}
           /\ c.kind = "sized" => Values(c) = {6}
           /\ c.kind = "end" => Values(c) = {7}
           /\ c.kind = "last" => Values(c) = {12}
           /\ c.kind \in DigitKinds => Values(c) = Bytes \ {0}
           /\ c.kind \in {"url", "text"} => Values(c) = {32}
<1>1. c.kind \in Fixed => Values(c) = {Code(c.kind)}
  BY DEF Values, Fixed, Starts, InPreamble, DigitKinds
<1>2. /\ c.kind \in DigitKinds => Values(c) = Bytes \ {0}
      /\ c.kind \in {"url", "text"} => Values(c) = {32}
  BY DEF Values, Fixed, Starts, InPreamble, DigitKinds
<1>3. /\ c.kind \in {"version", "minor", "utf8"} => c.kind \in Fixed /\ Code(c.kind) = 0
      /\ c.kind \in {"major", "mode"} => c.kind \in Fixed /\ Code(c.kind) = 1
      /\ c.kind \in {"duplex", "via"} => c.kind \in Fixed /\ Code(c.kind) = 2
      /\ c.kind = "encoding" => c.kind \in Fixed /\ Code(c.kind) = 3
      /\ c.kind = "sized" => c.kind \in Fixed /\ Code(c.kind) = 6
      /\ c.kind = "end" => c.kind \in Fixed /\ Code(c.kind) = 7
      /\ c.kind = "last" => c.kind \in Fixed /\ Code(c.kind) = 12
  BY DEF Fixed, Starts, InPreamble, Code
<1>4. QED
  BY <1>1, <1>2, <1>3

LEMMA EndCells ==
    Encode(EndRec) = <<Plain("end")>> /\ Encode(EndRec) \in Seq(StreamCell)
<1>1. Encode(EndRec) = <<Plain("end")>>
  BY RecordKinds DEF Encode
<1>2. Plain("end") \in StreamCell
  BY CellTypes DEF Fixed, Starts
<1>3. QED
  BY <1>1, <1>2

(* A type, the digits of a size and as many cells. *)
SizedShape(type, digit, y, e, b) ==
    /\ b = EncodePackedInt(Len(y)) /\ b \in Seq(Nat) /\ Len(b) \in Nat \ {0}
    /\ e = Sized(type, digit, y) /\ e \in Seq(StreamCell)
    /\ Len(e) = 1 + Len(b) + Len(y)
    /\ e[1] = Plain(type)
    /\ \A i \in 1..Len(b) : e[1 + i] = Digit(digit, b[i])
    /\ \A i \in 1..Len(y) : e[1 + Len(b) + i] = y[i]

LEMMA SizedCells ==
    ASSUME NEW type \in Fixed, NEW digit \in DigitKinds, NEW y \in Seq(StreamCell)
    PROVE  \E e, b : SizedShape(type, digit, y, e, b)
<1>2. PICK t \in Nat : t = Len(y)
  BY LenProperties
<1>3. PICK b : b = EncodePackedInt(t)
  OBVIOUS
<1>4. b \in Seq(Nat) /\ Len(b) \in Nat \ {0}
  BY <1>2, <1>3, EncodeFacts
<1> DEFINE s == <<Plain(type)>>
           x == [i \in 1..Len(b) |-> Digit(digit, b[i])]
<1>5. Sized(type, digit, y) = s \o x \o y
  BY <1>2, <1>3 DEF Sized
<1>6. s \in Seq(StreamCell) /\ Len(s) = 1 /\ s[1] = Plain(type)
  <2>1. Plain(type) \in StreamCell
    BY CellTypes
  <2>2. QED
    BY <2>1
<1>7. x \in Seq(StreamCell) /\ Len(x) = Len(b) /\ \A i \in 1..Len(b) : x[i] = Digit(digit, b[i])
  <2>1. \A i \in 1..Len(b) : Digit(digit, b[i]) \in StreamCell
    BY <1>4, CellTypes
  <2>2. QED
    BY <1>4, <2>1
<1> HIDE DEF s, x
<1>9. PICK e : e = (s \o x) \o y
  OBVIOUS
<1>10. PICK c \in Nat \ {0} : c = Len(b)
  BY <1>4
<1>11. PICK h : h = s \o x
  OBVIOUS
<1>a. /\ h \in Seq(StreamCell) /\ Len(h) = 1 + c /\ h[1] = Plain(type)
      /\ \A i \in 1..c : h[1 + i] = Digit(digit, b[i])
  <2>1. /\ h \in Seq(StreamCell) /\ Len(h) = 1 + c
        /\ \A i \in 1..1 : h[i] = s[i]
        /\ \A i \in 1..c : h[1 + i] = x[i]
    <3>1. /\ s \o x \in Seq(StreamCell) /\ Len(s \o x) = Len(s) + Len(x)
          /\ \A i \in 1..Len(s) : (s \o x)[i] = s[i]
          /\ \A i \in 1..Len(x) : (s \o x)[Len(s) + i] = x[i]
      <4>1. s \in Seq(StreamCell) /\ x \in Seq(StreamCell)
        BY <1>6, <1>7
      <4>2. QED
        BY <4>1, Joined
    <3>2. Len(s) = 1 /\ Len(x) = c
      BY <1>6, <1>7, <1>10
    <3>3. QED
      BY <1>11, <3>1, <3>2
  <2>2. QED
    BY <1>6, <1>7, <1>10, <2>1
<1>b. /\ e \in Seq(StreamCell) /\ Len(e) = 1 + c + t
      /\ \A i \in 1..1 + c : e[i] = h[i]
      /\ \A i \in 1..t : e[1 + c + i] = y[i]
  <2>1. e = h \o y
    BY <1>9, <1>11
  <2>2. /\ h \o y \in Seq(StreamCell) /\ Len(h \o y) = Len(h) + Len(y)
        /\ \A i \in 1..Len(h) : (h \o y)[i] = h[i]
        /\ \A i \in 1..Len(y) : (h \o y)[Len(h) + i] = y[i]
    <3>1. h \in Seq(StreamCell) /\ y \in Seq(StreamCell)
      BY <1>a
    <3>2. QED
      BY <3>1, Joined
  <2>3. Len(h) = 1 + c /\ Len(y) = t
    BY <1>2, <1>a
  <2>4. QED
    BY <2>1, <2>2, <2>3
<1>c. e[1] = Plain(type) /\ \A i \in 1..c : e[1 + i] = Digit(digit, b[i])
  <2>1. 1 \in 1..1 + c /\ \A i \in 1..c : 1 + i \in 1..1 + c
    OBVIOUS
  <2>2. QED
    BY <1>a, <1>b, <2>1
<1>12. SizedShape(type, digit, y, e, b)
  BY <1>2, <1>3, <1>4, <1>5, <1>9, <1>10, <1>b, <1>c DEF SizedShape
<1>13. QED
  BY <1>12

EnvelopeShape(m, e, b) ==
    /\ b = EncodePackedInt(TextLen[m]) /\ b \in Seq(Nat) /\ Len(b) \in Nat \ {0}
    /\ TextLen[m] \in 0..Word - 1 /\ TextLen[m] \in Nat \ {0}
    /\ e = Encode(Env(m)) /\ e \in Seq(StreamCell)
    /\ Len(e) = 1 + Len(b) + TextLen[m]
    /\ e[1] = Plain("sized")
    /\ \A i \in 1..Len(b) : e[1 + i] = Digit("size", b[i])
    /\ \A i \in 1..TextLen[m] : e[1 + Len(b) + i] = Text(m, i)

LEMMA EnvelopeCells ==
    ASSUME NEW m \in Msg
    PROVE  \E e, b : EnvelopeShape(m, e, b)
<1>1. TextLen[m] \in 0..Word - 1 /\ TextLen[m] \in Nat \ {0}
  BY TextLenAssumption, PackedAssumption
<1>2. PICK t \in Nat \ {0} : t = TextLen[m]
  BY <1>1
<1>3. PICK y : y = [i \in 1..t |-> Text(m, i)]
  OBVIOUS
<1>4. y \in Seq(StreamCell) /\ Len(y) = t /\ \A i \in 1..t : y[i] = Text(m, i)
  <2>1. \A i \in 1..t : Text(m, i) \in StreamCell
    BY CellTypes
  <2>2. QED
    BY <1>3, <2>1
<1>5. Encode(Env(m)) = Sized("sized", "size", y)
  BY <1>2, <1>3, RecordKinds DEF Encode
<1>6. PICK e, b : SizedShape("sized", "size", y, e, b)
  <2>1. "sized" \in Fixed /\ "size" \in DigitKinds
    BY DEF Fixed, Starts, DigitKinds
  <2>2. QED
    BY <1>4, <2>1, SizedCells
<1>7. EnvelopeShape(m, e, b)
  BY <1>1, <1>2, <1>4, <1>5, <1>6 DEF SizedShape, EnvelopeShape
<1>8. QED
  BY <1>7

PreambleShape(e, b) ==
    /\ b = EncodePackedInt(UrlLen) /\ b \in Seq(Nat) /\ Len(b) \in Nat \ {0}
    /\ UrlLen \in 0..Word - 1 /\ UrlLen \in Nat \ {0}
    /\ e = Encode(Preamble) /\ e \in Seq(StreamCell)
    /\ Len(e) = 9 + Len(b) + UrlLen
    /\ e[1] = Plain("version") /\ e[2] = Plain("major") /\ e[3] = Plain("minor")
    /\ e[4] = Plain("mode") /\ e[5] = Plain("duplex") /\ e[6] = Plain("via")
    /\ \A i \in 1..Len(b) : e[6 + i] = Digit("length", b[i])
    /\ \A i \in 1..UrlLen : e[6 + Len(b) + i] = Url(i)
    /\ e[7 + Len(b) + UrlLen] = Plain("encoding")
    /\ e[8 + Len(b) + UrlLen] = Plain("utf8")
    /\ e[9 + Len(b) + UrlLen] = Plain("last")

LEMMA PreambleCells == \E e, b : PreambleShape(e, b)
<1>1. UrlLen \in 0..Word - 1 /\ UrlLen \in Nat \ {0}
  BY UrlLenAssumption, PackedAssumption
<1>2. PICK u \in Nat \ {0} : u = UrlLen
  BY <1>1
<1>3. PICK y : y = [i \in 1..u |-> Url(i)]
  OBVIOUS
<1>4. y \in Seq(StreamCell) /\ Len(y) = u /\ \A i \in 1..u : y[i] = Url(i)
  <2>1. \A i \in 1..u : Url(i) \in StreamCell
    BY CellTypes
  <2>2. QED
    BY <1>3, <2>1
<1>5. PICK s, b : SizedShape("via", "length", y, s, b)
  <2>1. "via" \in Fixed /\ "length" \in DigitKinds
    BY DEF Fixed, Starts, InPreamble, DigitKinds
  <2>2. QED
    BY <1>4, <2>1, SizedCells
<1>6. PICK c \in Nat \ {0} : c = Len(b)
  BY <1>5 DEF SizedShape
<1>7. /\ s \in Seq(StreamCell) /\ Len(s) = 1 + c + u /\ s[1] = Plain("via")
      /\ \A i \in 1..c : s[1 + i] = Digit("length", b[i])
      /\ \A i \in 1..u : s[1 + c + i] = Url(i)
  BY <1>4, <1>5, <1>6 DEF SizedShape
<1> DEFINE h == <<Plain("version"), Plain("major"), Plain("minor"), Plain("mode"), Plain("duplex")>>
           t == <<Plain("encoding"), Plain("utf8"), Plain("last")>>
<1>8. Encode(Preamble) = (h \o s) \o t
  BY <1>2, <1>3, <1>5, RecordKinds DEF Encode, SizedShape
<1>9. /\ h \in Seq(StreamCell) /\ Len(h) = 5
      /\ h[1] = Plain("version") /\ h[2] = Plain("major") /\ h[3] = Plain("minor")
      /\ h[4] = Plain("mode") /\ h[5] = Plain("duplex")
  <2>1. {Plain("version"), Plain("major"), Plain("minor"), Plain("mode"), Plain("duplex")}
           \subseteq StreamCell
    BY CellTypes DEF Fixed, Starts, InPreamble
  <2>2. QED
    BY <2>1
<1>10. /\ t \in Seq(StreamCell) /\ Len(t) = 3
       /\ t[1] = Plain("encoding") /\ t[2] = Plain("utf8") /\ t[3] = Plain("last")
  <2>1. {Plain("encoding"), Plain("utf8"), Plain("last")} \subseteq StreamCell
    BY CellTypes DEF Fixed, InPreamble
  <2>2. QED
    BY <2>1
<1> HIDE DEF h, t
<1>11. PICK g : g = h \o s
  OBVIOUS
<1>12. /\ g \in Seq(StreamCell) /\ Len(g) = 6 + c + u
       /\ \A i \in 1..5 : g[i] = h[i]
       /\ \A i \in 1..1 + c + u : g[5 + i] = s[i]
  <2>1. /\ h \o s \in Seq(StreamCell) /\ Len(h \o s) = Len(h) + Len(s)
        /\ \A i \in 1..Len(h) : (h \o s)[i] = h[i]
        /\ \A i \in 1..Len(s) : (h \o s)[Len(h) + i] = s[i]
    <3>1. h \in Seq(StreamCell) /\ s \in Seq(StreamCell)
      BY <1>7, <1>9
    <3>2. QED
      BY <3>1, Joined
  <2>2. Len(h) = 5 /\ Len(s) = 1 + c + u
    BY <1>7, <1>9
  <2>3. QED
    BY <1>11, <2>1, <2>2
<1>13. PICK e : e = g \o t
  OBVIOUS
<1>14. /\ e \in Seq(StreamCell) /\ Len(e) = 9 + c + u
       /\ \A i \in 1..6 + c + u : e[i] = g[i]
       /\ \A i \in 1..3 : e[6 + c + u + i] = t[i]
  <2>1. /\ g \o t \in Seq(StreamCell) /\ Len(g \o t) = Len(g) + Len(t)
        /\ \A i \in 1..Len(g) : (g \o t)[i] = g[i]
        /\ \A i \in 1..Len(t) : (g \o t)[Len(g) + i] = t[i]
    <3>1. g \in Seq(StreamCell) /\ t \in Seq(StreamCell)
      BY <1>10, <1>12
    <3>2. QED
      BY <3>1, Joined
  <2>2. Len(g) = 6 + c + u /\ Len(t) = 3 /\ (6 + c + u) + 3 = 9 + c + u
    BY <1>10, <1>12
  <2>3. e = g \o t
    BY <1>13
  <2>4. QED
    BY <2>1, <2>2, <2>3
<1>15. \A i \in 1..5 : e[i] = h[i]
  <2>1. \A i \in 1..5 : i \in 1..6 + c + u
    OBVIOUS
  <2>2. QED
    BY <1>12, <1>14, <2>1
<1>16. \A i \in 1..1 + c + u : e[5 + i] = s[i]
  <2>1. \A i \in 1..1 + c + u : 5 + i \in 1..6 + c + u
    OBVIOUS
  <2>2. QED
    BY <1>12, <1>14, <2>1
<1>17. /\ e[6] = Plain("via")
       /\ \A i \in 1..c : e[6 + i] = Digit("length", b[i])
       /\ \A i \in 1..u : e[6 + c + i] = Url(i)
  <2>1. e[5 + 1] = s[1]
    <3>1. 1 \in 1..1 + c + u
      OBVIOUS
    <3>2. QED
      BY <1>16, <3>1
  <2>2. ASSUME NEW i \in 1..c PROVE e[6 + i] = s[1 + i]
    <3>1. 1 + i \in 1..1 + c + u /\ 5 + (1 + i) = 6 + i
      OBVIOUS
    <3>2. QED
      BY <1>16, <3>1
  <2>3. ASSUME NEW i \in 1..u PROVE e[6 + c + i] = s[1 + c + i]
    <3>1. 1 + c + i \in 1..1 + c + u /\ 5 + (1 + c + i) = 6 + c + i
      OBVIOUS
    <3>2. QED
      BY <1>16, <3>1
  <2>4. s[1] = Plain("via") /\ 5 + 1 = 6
    BY <1>7
  <2>5. ASSUME NEW i \in 1..c PROVE e[6 + i] = Digit("length", b[i])
    BY <1>7, <2>2
  <2>6. ASSUME NEW i \in 1..u PROVE e[6 + c + i] = Url(i)
    BY <1>7, <2>3
  <2>7. QED
    BY <2>1, <2>4, <2>5, <2>6
<1>18. e[7 + c + u] = t[1] /\ e[8 + c + u] = t[2] /\ e[9 + c + u] = t[3]
  <2>1. /\ 6 + c + u + 1 = 7 + c + u /\ 6 + c + u + 2 = 8 + c + u
        /\ 6 + c + u + 3 = 9 + c + u
    OBVIOUS
  <2>2. QED
    BY <1>14, <2>1
<1>19. PreambleShape(e, b)
  <2>1. e = Encode(Preamble)
    BY <1>8, <1>11, <1>13
  <2>2. /\ b = EncodePackedInt(UrlLen) /\ b \in Seq(Nat) /\ Len(b) \in Nat \ {0}
    BY <1>2, <1>4, <1>5 DEF SizedShape
  <2>3. /\ e[1] = Plain("version") /\ e[2] = Plain("major") /\ e[3] = Plain("minor")
        /\ e[4] = Plain("mode") /\ e[5] = Plain("duplex")
    BY <1>9, <1>15
  <2>4. /\ e[7 + c + u] = Plain("encoding") /\ e[8 + c + u] = Plain("utf8")
        /\ e[9 + c + u] = Plain("last")
    BY <1>10, <1>18
  <2>5. QED
    BY <1>1, <1>2, <1>6, <1>14, <1>17, <2>1, <2>2, <2>3, <2>4 DEF PreambleShape
<1>20. QED
  BY <1>19

(* Only the first cell of a record is of a kind that starts one; a read    *)
(* that ends before another of the preamble has cut the preamble, and no   *)
(* other record has a cell that can be taken for the first of one.         *)
LEMMA RecordCells ==
    ASSUME NEW r \in Rec
    PROVE  /\ Encode(r) \in Seq(StreamCell) /\ Len(Encode(r)) \in Nat \ {0}
           /\ \A i \in 1..Len(Encode(r)) : Encode(r)[i].kind \in Starts <=> i = 1
           /\ \A i \in 1..Len(Encode(r)) : r # Preamble => 0 \notin Values(Encode(r)[i])
           /\ \A i \in 1..Len(Encode(r)) : r = Preamble /\ i # 1 => Encode(r)[i].kind \in InPreamble
           /\ r = Preamble => Encode(r)[1].kind = "version"
<1>0. /\ \A k \in InPreamble : k \notin Starts
      /\ "version" \in Starts /\ "sized" \in Starts /\ "end" \in Starts
      /\ "size" \notin Starts /\ "text" \notin Starts
  BY DEF InPreamble, Starts
<1>1. ASSUME r = Preamble
      PROVE  /\ Encode(r) \in Seq(StreamCell) /\ Len(Encode(r)) \in Nat \ {0}
             /\ Encode(r)[1].kind = "version"
             /\ \A i \in 1..Len(Encode(r)) : i # 1 => Encode(r)[i].kind \in InPreamble
  <2>1. PICK e, b : PreambleShape(e, b)
    BY PreambleCells
  <2>2. PICK c \in Nat \ {0} : c = Len(b)
    BY <2>1 DEF PreambleShape
  <2>3. PICK u \in Nat \ {0} : u = UrlLen
    BY <2>1 DEF PreambleShape
  <2>4. /\ e = Encode(r) /\ e \in Seq(StreamCell) /\ Len(e) = 9 + c + u
        /\ e[1].kind = "version" /\ e[2].kind = "major" /\ e[3].kind = "minor"
        /\ e[4].kind = "mode" /\ e[5].kind = "duplex" /\ e[6].kind = "via"
        /\ \A i \in 1..c : e[6 + i].kind = "length"
        /\ \A i \in 1..u : e[6 + c + i].kind = "url"
        /\ e[7 + c + u].kind = "encoding" /\ e[8 + c + u].kind = "utf8"
        /\ e[9 + c + u].kind = "last"
    <3>1. /\ e = Encode(r) /\ e \in Seq(StreamCell) /\ Len(e) = 9 + c + u
          /\ e[1] = Plain("version") /\ e[2] = Plain("major") /\ e[3] = Plain("minor")
          /\ e[4] = Plain("mode") /\ e[5] = Plain("duplex") /\ e[6] = Plain("via")
          /\ \A i \in 1..c : e[6 + i] = Digit("length", b[i])
          /\ \A i \in 1..u : e[6 + c + i] = Url(i)
          /\ e[7 + c + u] = Plain("encoding") /\ e[8 + c + u] = Plain("utf8")
          /\ e[9 + c + u] = Plain("last")
      BY <1>1, <2>1, <2>2, <2>3 DEF PreambleShape
    <3>2. /\ e[1].kind = "version" /\ e[2].kind = "major" /\ e[3].kind = "minor"
          /\ e[4].kind = "mode" /\ e[5].kind = "duplex" /\ e[6].kind = "via"
      BY <3>1 DEF Plain
    <3>3. /\ e[7 + c + u].kind = "encoding" /\ e[8 + c + u].kind = "utf8"
          /\ e[9 + c + u].kind = "last"
      BY <3>1 DEF Plain
    <3>4. ASSUME NEW i \in 1..c PROVE e[6 + i].kind = "length"
      <4>1. e[6 + i] = Digit("length", b[i])
        BY <3>1
      <4>2. QED
        BY <4>1, CellKinds
    <3>5. ASSUME NEW i \in 1..u PROVE e[6 + c + i].kind = "url"
      <4>1. e[6 + c + i] = Url(i)
        BY <3>1
      <4>2. QED
        BY <4>1, CellKinds
    <3>6. QED
      BY <3>1, <3>2, <3>3, <3>4, <3>5
  <2>5. ASSUME NEW i \in 1..9 + c + u, i # 1 PROVE e[i].kind \in InPreamble
    <3>1. CASE i \in 2..6
      <4>1. i = 2 \/ i = 3 \/ i = 4 \/ i = 5 \/ i = 6
        BY <3>1
      <4>2. QED
        BY <2>4, <4>1 DEF InPreamble
    <3>2. CASE i > 6 /\ i <= 6 + c
      <4>1. i - 6 \in 1..c /\ 6 + (i - 6) = i
        BY <3>2
      <4>2. QED
        BY <2>4, <4>1 DEF InPreamble
    <3>3. CASE i > 6 + c /\ i <= 6 + c + u
      <4>1. i - (6 + c) \in 1..u /\ 6 + c + (i - (6 + c)) = i
        BY <3>3
      <4>2. QED
        BY <2>4, <4>1 DEF InPreamble
    <3>4. CASE i > 6 + c + u
      <4>1. i = 7 + c + u \/ i = 8 + c + u \/ i = 9 + c + u
        BY <3>4
      <4>2. QED
        BY <2>4, <4>1 DEF InPreamble
    <3>5. QED
      BY <2>5, <3>1, <3>2, <3>3, <3>4
  <2>6. QED
    BY <2>4, <2>5
<1>2. CASE r = EndRec
  <2>1. PICK e : e = Encode(r) /\ e = <<Plain("end")>> /\ e \in Seq(StreamCell)
    BY <1>2, EndCells
  <2>2. Len(e) = 1 /\ e[1].kind = "end"
    BY <2>1, CellKinds
  <2>3. 0 \notin Values(e[1])
    BY <2>2, CellValues
  <2>4. r # Preamble
    BY <1>2 DEF Preamble, EndRec
  <2>5. \A i \in 1..1 : i = 1
    OBVIOUS
  <2>6. QED
    BY <1>0, <2>1, <2>2, <2>3, <2>4, <2>5
<1>3. ASSUME NEW m \in Msg, r = Env(m)
      PROVE  /\ Encode(r) \in Seq(StreamCell) /\ Len(Encode(r)) \in Nat \ {0}
             /\ \A i \in 1..Len(Encode(r)) : Encode(r)[i].kind \in Starts <=> i = 1
             /\ \A i \in 1..Len(Encode(r)) : 0 \notin Values(Encode(r)[i])
  <2>1. PICK e, b : EnvelopeShape(m, e, b)
    BY EnvelopeCells
  <2>2. PICK c \in Nat \ {0} : c = Len(b)
    BY <2>1 DEF EnvelopeShape
  <2>3. PICK t \in Nat \ {0} : t = TextLen[m]
    BY <2>1 DEF EnvelopeShape
  <2>4. /\ e = Encode(r) /\ e \in Seq(StreamCell) /\ Len(e) = 1 + c + t
        /\ e[1].kind = "sized"
        /\ \A i \in 1..c : e[1 + i].kind = "size"
        /\ \A i \in 1..t : e[1 + c + i].kind = "text"
    BY <1>3, <2>1, <2>2, <2>3, CellKinds DEF EnvelopeShape
  <2>5. ASSUME NEW i \in 1..1 + c + t, i # 1
        PROVE  e[i].kind = "size" \/ e[i].kind = "text"
    <3>1. CASE i <= 1 + c
      <4>1. i - 1 \in 1..c /\ 1 + (i - 1) = i
        BY <2>5, <3>1
      <4>2. QED
        BY <2>4, <4>1
    <3>2. CASE i > 1 + c
      <4>1. i - (1 + c) \in 1..t /\ 1 + c + (i - (1 + c)) = i
        BY <2>5, <3>2
      <4>2. QED
        BY <2>4, <4>1
    <3>3. QED
      BY <3>1, <3>2
  <2>6. \A x : x.kind = "sized" \/ x.kind = "size" \/ x.kind = "text" => 0 \notin Values(x)
    BY CellValues DEF DigitKinds, Bytes
  <2>7. \A i \in 1..1 + c + t : 0 \notin Values(e[i])
    BY <2>4, <2>5, <2>6
  <2>8. QED
    BY <1>0, <2>4, <2>5, <2>7
<1>4. \A m \in Msg : Env(m) # Preamble
  BY DEF Env, Preamble
<1>5. QED
  BY <1>0, <1>1, <1>2, <1>3, <1>4 DEF Rec

-----------------------------------------------------------------------------
(* The cells of a sequence of records.                                     *)

Prefixes(u, recs) ==
    /\ u \in [0..Len(recs) -> Seq(StreamCell)] /\ u[0] = << >>
    /\ \A k \in 1..Len(recs) : u[k] = u[k - 1] \o Encode(recs[k])
    /\ Cells(recs) = u[Len(recs)]

LEMMA CellsUnfold ==
    ASSUME NEW recs \in Seq(Rec)
    PROVE  \E u : Prefixes(u, recs)
<1>1. PICK c \in Nat : c = Len(recs)
  OBVIOUS
<1> DEFINE S == Seq(StreamCell)
           step == [n \in Nat |-> [g \in S |-> IF n < c THEN g \o Encode(recs[n + 1]) ELSE g]]
<1>2. step \in [Nat -> [S -> S]]
  <2>1. ASSUME NEW n \in Nat, NEW g \in S, n < c PROVE g \o Encode(recs[n + 1]) \in S
    <3>1. recs[n + 1] \in Rec
      BY <1>1, <2>1
    <3>2. Encode(recs[n + 1]) \in S
      BY <3>1, RecordCells
    <3>3. QED
      BY <3>2, ConcatProperties
  <2>2. QED
    BY <2>1
<1>3. \A n \in Nat, g \in S : n < c => step[n][g] = g \o Encode(recs[n + 1])
  OBVIOUS
<1>4. << >> \in S
  OBVIOUS
<1> HIDE DEF step
<1>5. PICK f : Iterates(f, S, << >>, step)
  <2> HIDE DEF S
  <2>1. QED
    BY <1>2, <1>4, NatRecursion
<1>6. f \in [Nat -> S] /\ f[0] = << >>
  BY <1>5 DEF Iterates
<1>7. ASSUME NEW k \in 1..c PROVE f[k] = f[k - 1] \o Encode(recs[k])
  <2>1. k - 1 \in Nat /\ k - 1 < c /\ (k - 1) + 1 = k
    OBVIOUS
  <2>2. f[(k - 1) + 1] = step[k - 1][f[k - 1]] /\ f[k - 1] \in S
    BY <1>5, <1>6, <2>1 DEF Iterates
  <2>3. QED
    BY <1>3, <2>1, <2>2
<1> DEFINE g == [k \in 0..c |-> f[k]]
           Is(h) == h = [k \in 0..c |-> IF k = 0 THEN << >> ELSE h[k - 1] \o Encode(recs[k])]
<1>8. Is(g)
  <2>1. ASSUME NEW k \in 0..c, k # 0 PROVE g[k] = g[k - 1] \o Encode(recs[k])
    <3>1. k \in 1..c /\ k - 1 \in 0..c
      BY <2>1
    <3>2. g[k] = f[k] /\ g[k - 1] = f[k - 1]
      BY <3>1
    <3> HIDE DEF g
    <3>3. QED
      BY <1>7, <3>1, <3>2
  <2>2. g[0] = << >> /\ g = [k \in 0..c |-> g[k]]
    BY <1>6
  <2> HIDE DEF g
  <2>3. QED
    BY <2>1, <2>2
<1> HIDE DEF g
<1> DEFINE u == CHOOSE h : Is(h)
<1>9. Is(u)
  BY <1>8
<1>10. Cells(recs) = u[c]
  BY <1>1 DEF Cells
<1> HIDE DEF u
<1>11. u[0] = << >> /\ \A k \in 1..c : u[k] = u[k - 1] \o Encode(recs[k])
  <2>1. 0 \in 0..c /\ \A k \in 1..c : k \in 0..c /\ k # 0
    OBVIOUS
  <2>2. QED
    BY <1>9, <2>1
<1>12. u \in [0..c -> S]
  <2> DEFINE T == {k \in Nat : k <= c => u[k] = f[k]}
  <2>1. T \in SUBSET Nat /\ 0 \in T
    BY <1>6, <1>11
  <2>2. ASSUME NEW k \in T PROVE k + 1 \in T
    <3> SUFFICES ASSUME k + 1 <= c PROVE u[k + 1] = f[k + 1]
      OBVIOUS
    <3>1. k \in Nat /\ k + 1 \in 1..c /\ (k + 1) - 1 = k /\ u[k] = f[k]
      OBVIOUS
    <3>2. QED
      BY <1>7, <1>11, <3>1
  <2> HIDE DEF T
  <2>3. \A k \in Nat : k \in T
    BY <2>1, <2>2, NatSet
  <2>4. \A k \in 0..c : u[k] \in S
    BY <1>6, <2>3 DEF T
  <2>5. u = [k \in 0..c |-> u[k]]
    BY <1>9
  <2>6. QED
    BY <2>4, <2>5
<1>13. QED
  BY <1>1, <1>10, <1>11, <1>12 DEF Prefixes

LEMMA CellsOfNone == Cells(<< >>) = << >>
<1>1. << >> \in Seq(Rec) /\ Len(<< >>) = 0
  BY EmptySeq
<1>2. PICK u : Prefixes(u, << >>)
  BY <1>1, CellsUnfold
<1>3. QED
  BY <1>1, <1>2 DEF Prefixes

LEMMA CellsType ==
    ASSUME NEW recs \in Seq(Rec)
    PROVE  Cells(recs) \in Seq(StreamCell)
<1>1. PICK u : Prefixes(u, recs)
  BY CellsUnfold
<1>2. Len(recs) \in 0..Len(recs)
  OBVIOUS
<1>3. QED
  BY <1>1, <1>2 DEF Prefixes

LEMMA CellsAppend ==
    ASSUME NEW recs \in Seq(Rec), NEW r \in Rec
    PROVE  Cells(Append(recs, r)) = Cells(recs) \o Encode(r)
<1>1. PICK c \in Nat : c = Len(recs)
  OBVIOUS
<1>2. PICK all \in Seq(Rec) : all = Append(recs, r)
  BY AppendProperties
<1>3. Len(all) = c + 1 /\ all[c + 1] = r /\ \A k \in 1..c : all[k] = recs[k]
  BY <1>1, <1>2
<1>4. PICK u : Prefixes(u, recs)
  BY CellsUnfold
<1>5. PICK w : Prefixes(w, all)
  BY CellsUnfold
<1>6. u[0] = << >> /\ w[0] = << >>
  BY <1>4, <1>5 DEF Prefixes
<1>7. \A k \in 1..c : u[k] = u[k - 1] \o Encode(recs[k])
  BY <1>1, <1>4 DEF Prefixes
<1>8. \A k \in 1..c + 1 : w[k] = w[k - 1] \o Encode(all[k])
  BY <1>3, <1>5 DEF Prefixes
<1> DEFINE T == {k \in Nat : k <= c => u[k] = w[k]}
<1>9. T \in SUBSET Nat /\ 0 \in T
  BY <1>6
<1>10. ASSUME NEW k \in T PROVE k + 1 \in T
  <2> SUFFICES ASSUME k + 1 <= c PROVE u[k + 1] = w[k + 1]
    OBVIOUS
  <2>1. /\ k \in Nat /\ k + 1 \in 1..c /\ k + 1 \in 1..c + 1 /\ (k + 1) - 1 = k
        /\ u[k] = w[k]
    BY <1>1
  <2>2. QED
    BY <1>3, <1>7, <1>8, <2>1
<1>11. u[c] = w[c]
  <2> HIDE DEF T
  <2>1. \A k \in Nat : k \in T
    BY <1>9, <1>10, NatSet
  <2>2. QED
    BY <1>1, <2>1 DEF T
<1>12. w[c + 1] = w[c] \o Encode(r)
  <2>1. c + 1 \in 1..c + 1 /\ (c + 1) - 1 = c
    BY <1>1
  <2>2. QED
    BY <1>3, <1>8, <2>1
<1>13. Cells(recs) = u[c] /\ Cells(all) = w[c + 1]
  BY <1>1, <1>3, <1>4, <1>5 DEF Prefixes
<1>14. QED
  BY <1>2, <1>11, <1>12, <1>13

LEMMA CellsFirst ==
    ASSUME NEW recs \in Seq(Rec), recs # << >>
    PROVE  Cells(recs) = Encode(recs[1]) \o Cells(Tail(recs))
<1>1. PICK rest \in Seq(Rec) : rest = Tail(recs)
  BY HeadTailProperties
<1>2. PICK c \in Nat : c = Len(rest)
  OBVIOUS
<1>3. Len(recs) = c + 1 /\ (\A k \in 1..c : rest[k] = recs[k + 1]) /\ recs[1] \in Rec
  BY <1>1, <1>2
<1>4. PICK u : Prefixes(u, recs)
  BY CellsUnfold
<1>5. PICK v : Prefixes(v, rest)
  BY CellsUnfold
<1>6. PICK e \in Seq(StreamCell) : e = Encode(recs[1])
  BY <1>3, RecordCells
<1>7. u[0] = << >> /\ v[0] = << >>
  BY <1>4, <1>5 DEF Prefixes
<1>8. \A k \in 1..c + 1 : u[k] = u[k - 1] \o Encode(recs[k])
  BY <1>3, <1>4 DEF Prefixes
<1>9. /\ \A k \in 1..c : v[k] = v[k - 1] \o Encode(rest[k])
      /\ \A k \in 0..c : v[k] \in Seq(StreamCell)
  BY <1>2, <1>5 DEF Prefixes
<1> DEFINE T == {k \in Nat : k <= c => u[k + 1] = e \o v[k]}
<1>10. T \in SUBSET Nat /\ 0 \in T
  <2>1. 1 \in 1..c + 1
    BY <1>2
  <2>2. u[1] = << >> \o e
    <3> HIDE DEF T
    <3>1. PICK one \in 1..c + 1 : one = 1
      BY <2>1
    <3>2. u[one] = u[one - 1] \o Encode(recs[one])
      BY <1>8
    <3>4. one - 1 = 0
      BY <3>1
    <3>3. QED
      BY <1>6, <1>7, <3>1, <3>2, <3>4
  <2>3. << >> \o e = e \o << >>
    BY ConcatEmptySeq
  <2>4. QED
    BY <1>7, <2>2, <2>3
<1>11. ASSUME NEW k \in T PROVE k + 1 \in T
  <2> SUFFICES ASSUME k + 1 <= c PROVE u[(k + 1) + 1] = e \o v[k + 1]
    OBVIOUS
  <2>1. /\ k \in Nat /\ k \in 0..c /\ k + 1 \in 1..c /\ (k + 1) - 1 = k
        /\ (k + 1) + 1 \in 1..c + 1 /\ ((k + 1) + 1) - 1 = k + 1
        /\ u[k + 1] = e \o v[k]
    BY <1>2
  <2>2. PICK x \in Seq(StreamCell) : x = Encode(rest[k + 1])
    BY <1>1, <1>2, <2>1, RecordCells
  <2>3. u[(k + 1) + 1] = (e \o v[k]) \o x
    BY <1>3, <1>8, <2>1, <2>2
  <2>4. v[k + 1] = v[k] \o x
    BY <1>9, <2>1, <2>2
  <2>5. PICK y \in Seq(StreamCell) : y = v[k]
    BY <1>9, <2>1
  <2>6. (e \o y) \o x = e \o (y \o x)
    <3> HIDE DEF T
    <3>1. QED
      BY ConcatAssociative, SMTT(60)
  <2>7. QED
    BY <2>3, <2>4, <2>5, <2>6
<1>12. u[c + 1] = e \o v[c]
  <2> HIDE DEF T
  <2>1. \A k \in Nat : k \in T
    BY <1>10, <1>11, NatSet
  <2>2. QED
    BY <1>2, <2>1 DEF T
<1>13. Cells(recs) = u[c + 1] /\ Cells(rest) = v[c]
  BY <1>2, <1>3, <1>4, <1>5 DEF Prefixes
<1>14. QED
  BY <1>1, <1>6, <1>12, <1>13

-----------------------------------------------------------------------------
(* What the handlers take from the buffer.                                 *)

LEMMA CellIsOne ==
    ASSUME TypeOK, NEW i \in Nat
    PROVE  Cell(i) \in StreamCell \cup {Junk}
<1>1. read + 1 + i \in Nat /\ read + 1 + i >= 1
  BY DEF TypeOK
<1>2. QED
  BY <1>1, CapAssumption DEF TypeOK, Cell

LEMMA SizeIsNumber ==
    ASSUME NEW c \in StreamCell \cup {Junk}, c.kind \in DigitKinds
    PROVE  c.byte \in Nat
BY DEF StreamCell, Junk, Plain, Fixed, Starts, InPreamble, DigitKinds

LEMMA SizedLength ==
    ASSUME TypeOK, NEW i \in Nat, NEW n \in 1..Cap, SizedBy(i, n)
    PROVE  SizeAt(i, n) \in Nat
<1>1. n \in Nat /\ n \in 1..n
  BY CapAssumption
<1>2. PICK data : data = [k \in 1..n |-> Cell(i + k).byte]
  OBVIOUS
<1>3. ASSUME NEW k \in 1..n
      PROVE  data[k] \in Nat /\ (Continues(data[k]) <=> k < n)
  <2>1. i + k \in Nat /\ Cell(i + k) \in StreamCell \cup {Junk}
    BY <1>1, CellIsOne
  <2>2. Cell(i + k).kind \in DigitKinds
    BY DEF SizedBy
  <2>3. Cell(i + k).byte \in Nat
    BY <2>1, <2>2, SizeIsNumber
  <2>4. k < n => k \in 1..n - 1
    BY <1>1
  <2>5. k < n \/ k = n
    BY <1>1
  <2>6. Continues(Cell(i + k).byte) <=> k < n
    BY <1>1, <2>2, <2>4, <2>5 DEF SizedBy, MoreDigits
  <2>7. QED
    BY <1>2, <2>3, <2>6
<1>4. DOMAIN data = 1..n
  BY <1>2
<1>5. PICK s : Sums(s, data, n) /\ DecodePackedInt(data) = [value |-> s[n], count |-> n]
  BY <1>1, <1>3, <1>4, DecodeUnfolds
<1>6. s[n] \in Nat
  BY <1>1, <1>5 DEF Sums
<1>7. QED
  BY <1>2, <1>5, <1>6 DEF SizeAt

(* Where the digits of a size are all there, they are taken for it. *)
LEMMA SizeIsTaken ==
    ASSUME NEW i \in Nat, NEW t \in 0..Word - 1, NEW b, b = EncodePackedInt(t), Len(b) <= Cap,
           \A k \in 1..Len(b) : Cell(i + k).kind \in DigitKinds /\ Cell(i + k).byte = b[k]
    PROVE  /\ Len(b) \in 1..Cap /\ SizedBy(i, Len(b))
           /\ \A n \in 1..Cap : SizedBy(i, n) => n = Len(b)
           /\ SizeAt(i, Len(b)) = t
<1>1. t \in Nat
  BY PackedAssumption
<1>2. PICK c \in Nat \ {0} : c = Len(b)
  BY <1>1, EncodeFacts
<1>3. ASSUME NEW k \in 1..c
      PROVE  /\ Cell(i + k).kind \in DigitKinds /\ Cell(i + k).byte = b[k]
             /\ MoreDigits(Cell(i + k)) <=> k < c
  <2>1. Cell(i + k).kind \in DigitKinds /\ Cell(i + k).byte = b[k]
    BY <1>2
  <2>2. Continues(b[k]) <=> k < c
    BY <1>1, <1>2, EncodeFacts
  <2>3. QED
    BY <2>1, <2>2 DEF MoreDigits
<1>4. c \in 1..Cap
  BY <1>2, CapAssumption
<1>5. /\ \A k \in 1..c : Cell(i + k).kind \in DigitKinds
      /\ ~MoreDigits(Cell(i + c))
      /\ \A k \in 1..c : k < c => MoreDigits(Cell(i + k))
  <2>1. c \in 1..c /\ ~(c < c)
    BY <1>2
  <2>2. QED
    BY <1>3, <2>1
<1>9. SizedBy(i, c)
  <2>1. \A k \in 1..c - 1 : k \in 1..c /\ k < c
    BY <1>2
  <2>2. \A k \in 1..c - 1 : MoreDigits(Cell(i + k))
    BY <1>5, <2>1
  <2>3. QED
    BY <1>5, <2>2 DEF SizedBy
<1>6. ASSUME NEW n \in 1..Cap, SizedBy(i, n) PROVE n = c
  <2>1. n \in Nat \ {0}
    BY CapAssumption
  <2>2. CASE n < c
    <3>1. n \in 1..c
      BY <1>2, <2>1, <2>2
    <3>2. MoreDigits(Cell(i + n))
      BY <1>5, <2>2, <3>1
    <3>3. ~MoreDigits(Cell(i + n))
      BY <1>6 DEF SizedBy
    <3>4. QED
      BY <3>2, <3>3
  <2>3. CASE c < n
    <3>1. c \in 1..n - 1
      BY <1>2, <2>1, <2>3
    <3>2. \A k \in 1..n - 1 : MoreDigits(Cell(i + k))
      BY <1>6 DEF SizedBy
    <3>3. QED
      BY <1>5, <3>1, <3>2
  <2>4. QED
    BY <1>2, <2>1, <2>2, <2>3
<1>7. DecodePackedInt([k \in 1..c |-> Cell(i + k).byte]).value = t
  <2>1. PICK data : data = [k \in 1..c |-> Cell(i + k).byte]
    OBVIOUS
  <2>2. DOMAIN data = 1..c /\ \A k \in 1..c : data[k] = b[k]
    BY <1>3, <2>1
  <2>3. DecodePackedInt(data) = [value |-> t, count |-> c]
    <3>1. Len(EncodePackedInt(t)) = c /\ c <= c /\ \A k \in 1..c : data[k] = EncodePackedInt(t)[k]
      BY <1>2, <2>2
    <3>2. QED
      BY <1>2, <2>2, <3>1, SizeIsRead
  <2>4. QED
    BY <2>1, <2>3
<1>8. QED
  BY <1>2, <1>4, <1>6, <1>7, <1>9 DEF SizeAt

LEMMA GetDataIsRecord ==
    ASSUME NEW n \in Nat, NEW len \in Nat
    PROVE  GetData(n, len) = Garbled \/ \E m \in Msg : GetData(n, len) = Env(m)
<1>1. CASE \E m \in Msg : len = TextLen[m] /\ \A k \in 1..len : Cell(n + k) = Text(m, k)
  <2>1. PICK m \in Msg : len = TextLen[m] /\ \A k \in 1..len : Cell(n + k) = Text(m, k)
    BY <1>1
  <2>2. 1 \in 1..len
    BY <2>1, TextLenAssumption, PackedAssumption
  <2>3. Cell(n + 1).of = m
    <3>1. Cell(n + 1) = Text(m, 1)
      BY <2>1, <2>2
    <3>2. QED
      BY <3>1 DEF Text
  <2>4. QED
    BY <1>1, <2>3 DEF GetData
<1>2. QED
  BY <1>1 DEF GetData

LEMMA RequestHandled ==
    ASSUME TypeOK, ProcessRequest
    PROVE  \E r \in {Env(m) : m \in Msg} \cup {Garbled}, n \in Nat : Handled(r, n)
<1>1. PICK n \in 1..Cap : /\ SizedBy(0, n)
                          /\ Handled(GetData(n, SizeAt(0, n)), 1 + n + SizeAt(0, n))
  BY DEF ProcessRequest
<1>2. PICK len \in Nat : len = SizeAt(0, n)
  BY <1>1, SizedLength
<1>3. n \in Nat /\ 1 + n + len \in Nat
  BY CapAssumption
<1>4. GetData(n, len) \in {Env(m) : m \in Msg} \cup {Garbled}
  BY <1>3, GetDataIsRecord
<1>5. Handled(GetData(n, len), 1 + n + len)
  BY <1>1, <1>2
<1>6. QED
  BY <1>3, <1>4, <1>5

LEMMA UnsizedIsNumber ==
    ASSUME NEW i, NEW n \in Unsized(i)
    PROVE  n \in Nat
BY CapAssumption DEF Unsized

LEMMA ViaIsOne ==
    ASSUME TypeOK, NEW via \in Vias
    PROVE  via.size \in Nat /\ via.name \in {"asked", "other"}
<1>1. CASE HasSize(5)
  <2>1. PICK n \in 1..Cap : SizedBy(5, n) /\ via = Via(n)
    BY <1>1 DEF Vias
  <2>2. SizeAt(5, n) \in Nat /\ n \in Nat
    BY <2>1, SizedLength, CapAssumption
  <2>3. /\ Via(n).size = 1 + n + SizeAt(5, n)
        /\ Via(n).name = NameOf(5 + n, SizeAt(5, n))
    BY DEF Via
  <2>4. NameOf(5 + n, SizeAt(5, n)) \in {"asked", "other"}
    BY DEF NameOf
  <2>5. QED
    BY <2>1, <2>2, <2>3, <2>4
<1>2. CASE ~HasSize(5)
  <2>1. via \in [size : Unsized(5), name : {"other"}]
    BY <1>2 DEF Vias
  <2>2. via.size \in Unsized(5) /\ via.name = "other"
    BY <2>1
  <2>3. QED
    BY <2>2, UnsizedIsNumber
<1>3. QED
  BY <1>1, <1>2

(* What every step of the handlers leaves alone, and what it adds. *)
OnReadStep ==
    /\ running /\ read < size
    /\ UNCHANGED <<sent, net, buf, size, running, cut>>
    /\ read' \in Nat /\ read' >= read
    /\ handled' \in Seq(Rec \cup {Garbled})
    /\ bound' \in {"no", "asked", "other"}
    /\ {stop', asserted'} \subseteq BOOLEAN
    /\ \/ handled' = handled
       \/ \E r \in Rec \cup {Garbled} : handled' = Append(handled, r)

LEMMA HandledType ==
    ASSUME TypeOK, NEW r \in Rec \cup {Garbled}, NEW n \in Nat, Handled(r, n)
    PROVE  /\ read' \in Nat /\ read' >= read /\ handled' \in Seq(Rec \cup {Garbled})
           /\ \E x \in Rec \cup {Garbled} : handled' = Append(handled, x)
<1>1. handled \in Seq(Rec \cup {Garbled}) /\ read \in Nat
  BY DEF TypeOK
<1>2. read' = read + n /\ handled' = Append(handled, r)
  BY DEF Handled
<1>3. read + n \in Nat /\ read + n >= read
  BY <1>1
<1>4. QED
  BY <1>1, <1>2, <1>3, AppendProperties

(* ProcessHeader, whatever the bytes: what it takes for a preamble, and    *)
(* what it binds.                                                          *)
LEMMA HeaderHandled ==
    ASSUME TypeOK, ProcessHeader
    PROVE  /\ \E n \in Nat : Handled(Preamble, n)
           /\ bound' \in {"asked", "other"}
<1>1. PICK via \in Vias : bound' = via.name /\ Handled(Preamble, 8 + via.size)
  BY DEF ProcessHeader
<1>2. via.size \in Nat /\ via.name \in {"asked", "other"}
  BY ViaIsOne
<1>3. 8 + via.size \in Nat
  BY <1>2
<1>4. QED
  BY <1>1, <1>2, <1>3

LEMMA HeaderGarbled ==
    ASSUME TypeOK, ProcessHeaderAsserts
    PROVE  /\ \E n \in Nat : Handled(Garbled, n)
           /\ bound' = bound \/ bound' \in {"asked", "other"}
<1>1. CASE (Handled(Garbled, 3) \/ Handled(Garbled, 5)) /\ bound' = bound
  BY <1>1
<1>2. CASE \E via \in Vias : \/ Handled(Garbled, 5 + via.size) /\ bound' = bound
                             \/ Handled(Garbled, 8 + via.size) /\ bound' = via.name
  <2>1. PICK via \in Vias : \/ Handled(Garbled, 5 + via.size) /\ bound' = bound
                            \/ Handled(Garbled, 8 + via.size) /\ bound' = via.name
    BY <1>2
  <2>2. via.size \in Nat /\ via.name \in {"asked", "other"}
    BY ViaIsOne
  <2>3. 5 + via.size \in Nat /\ 8 + via.size \in Nat
    BY <2>2
  <2>4. QED
    BY <2>1, <2>2, <2>3
<1>3. QED
  BY <1>1, <1>2 DEF ProcessHeaderAsserts

LEMMA OnReadIsStep ==
    ASSUME TypeOK, OnRead
    PROVE  OnReadStep
<1>1. /\ Preamble \in Rec \cup {Garbled} /\ EndRec \in Rec \cup {Garbled}
      /\ Garbled \in Rec \cup {Garbled} /\ \A m \in Msg : Env(m) \in Rec \cup {Garbled}
  BY DEF Rec
<1>3. /\ {stop, asserted} \subseteq BOOLEAN /\ bound \in {"no", "asked", "other"}
      /\ handled \in Seq(Rec \cup {Garbled}) /\ size \in Nat /\ read \in Nat
  BY CapAssumption DEF TypeOK
<1>4. CASE ProcessHeader
  <2>1. (\E n \in Nat : Handled(Preamble, n)) /\ bound' \in {"asked", "other"}
    BY <1>4, HeaderHandled
  <2>2. /\ running /\ read < size
        /\ UNCHANGED <<sent, net, buf, size, stop, running, asserted, cut>>
    BY <1>4 DEF ProcessHeader, Dispatch
  <2>3. QED
    BY <1>1, <1>3, <2>1, <2>2, HandledType DEF OnReadStep
<1>5. CASE ProcessHeaderAsserts
  <2>1. (\E n \in Nat : Handled(Garbled, n)) /\ (bound' = bound \/ bound' \in {"asked", "other"})
    BY <1>5, HeaderGarbled
  <2>2. /\ running /\ read < size /\ UNCHANGED <<sent, net, buf, size, stop, running, cut>>
        /\ asserted' = TRUE
    BY <1>5 DEF ProcessHeaderAsserts, Dispatch
  <2>3. QED
    BY <1>1, <1>3, <2>1, <2>2, HandledType DEF OnReadStep
<1>6. CASE ProcessRequest
  <2>1. \E r \in Rec \cup {Garbled}, n \in Nat : Handled(r, n)
    BY <1>1, <1>6, RequestHandled
  <2>2. /\ running /\ read < size
        /\ UNCHANGED <<sent, net, buf, size, bound, stop, running, asserted, cut>>
    BY <1>6 DEF ProcessRequest, Dispatch
  <2>3. QED
    BY <1>3, <2>1, <2>2, HandledType DEF OnReadStep
<1>7. CASE ProcessRequestUnsized
  <2>1. \E n \in Nat : Handled(Garbled, n)
    BY <1>7, UnsizedIsNumber DEF ProcessRequestUnsized
  <2>2. /\ running /\ read < size
        /\ UNCHANGED <<sent, net, buf, size, bound, stop, running, cut>>
        /\ asserted' \in BOOLEAN
    BY <1>3, <1>7 DEF ProcessRequestUnsized, Dispatch
  <2>3. QED
    BY <1>1, <1>3, <2>1, <2>2, HandledType DEF OnReadStep
<1>8. CASE ProcessEnd
  <2>1. Handled(EndRec, 1)
    BY <1>8 DEF ProcessEnd
  <2>2. QED
    BY <1>1, <1>3, <1>8, <2>1, HandledType DEF ProcessEnd, Dispatch, OnReadStep
<1>9. CASE UnknownType
  BY <1>3, <1>9 DEF UnknownType, OnReadStep
<1>10. QED
  BY <1>4, <1>5, <1>6, <1>7, <1>8, <1>9 DEF OnRead

(* A preamble that is there whole. *)
Whole(e) == \A k \in Nat : k < Len(e) => Cell(k) = e[1 + k]

LEMMA WholePreamble ==
    ASSUME NEW e, NEW b, PreambleShape(e, b), Whole(e), Len(e) <= Cap
    PROVE  /\ Values(Cell(0)) = {0} /\ Values(Cell(1)) = {1} /\ Values(Cell(2)) = {0}
           /\ Values(Cell(3)) = {1} /\ Values(Cell(4)) = {2} /\ Values(Cell(5)) = {2}
           /\ 0 \notin Values(Cell(6)) /\ Values(Cell(6)) # {}
           /\ Vias = {[size |-> 1 + Len(b) + UrlLen, name |-> "asked"]}
           /\ Values(Cell(6 + Len(b) + UrlLen)) = {3}
           /\ Values(Cell(7 + Len(b) + UrlLen)) = {0}
           /\ Values(Cell(8 + Len(b) + UrlLen)) = {12}
<1>1. PICK c \in Nat \ {0} : c = Len(b)
  BY DEF PreambleShape
<1>2. PICK u \in Nat \ {0} : u = UrlLen /\ u \in 0..Word - 1
  BY DEF PreambleShape
<1>3. /\ Len(e) = 9 + c + u /\ b = EncodePackedInt(u)
      /\ e[1] = Plain("version") /\ e[2] = Plain("major") /\ e[3] = Plain("minor")
      /\ e[4] = Plain("mode") /\ e[5] = Plain("duplex") /\ e[6] = Plain("via")
      /\ \A i \in 1..c : e[6 + i] = Digit("length", b[i])
      /\ \A i \in 1..u : e[6 + c + i] = Url(i)
      /\ e[7 + c + u] = Plain("encoding") /\ e[8 + c + u] = Plain("utf8")
      /\ e[9 + c + u] = Plain("last")
  BY <1>1, <1>2 DEF PreambleShape
<1>4. /\ Cell(0) = e[1] /\ Cell(1) = e[2] /\ Cell(2) = e[3]
      /\ Cell(3) = e[4] /\ Cell(4) = e[5] /\ Cell(5) = e[6]
  <2>1. \A k \in Nat : k < 9 + c + u => Cell(k) = e[1 + k]
    BY <1>3 DEF Whole
  <2>2. /\ 0 < 9 + c + u /\ 1 < 9 + c + u /\ 2 < 9 + c + u
        /\ 3 < 9 + c + u /\ 4 < 9 + c + u /\ 5 < 9 + c + u
    OBVIOUS
  <2>3. QED
    BY <2>1, <2>2
<1>5. /\ Cell(6 + c + u) = e[7 + c + u] /\ Cell(7 + c + u) = e[8 + c + u]
      /\ Cell(8 + c + u) = e[9 + c + u]
  <2>1. \A k \in Nat : k < 9 + c + u => Cell(k) = e[1 + k]
    BY <1>3 DEF Whole
  <2>2. /\ 6 + c + u \in Nat /\ 7 + c + u \in Nat /\ 8 + c + u \in Nat
        /\ 1 + (6 + c + u) = 7 + c + u /\ 1 + (7 + c + u) = 8 + c + u
        /\ 1 + (8 + c + u) = 9 + c + u
        /\ 6 + c + u < 9 + c + u /\ 7 + c + u < 9 + c + u /\ 8 + c + u < 9 + c + u
    OBVIOUS
  <2>3. QED
    BY <2>1, <2>2
<1>6. ASSUME NEW i \in 1..c PROVE Cell(5 + i) = Digit("length", b[i])
  <2>1. 5 + i \in Nat /\ 5 + i < Len(e) /\ 1 + (5 + i) = 6 + i
    BY <1>3
  <2>2. Cell(5 + i) = e[6 + i]
    BY <2>1 DEF Whole
  <2>3. QED
    BY <1>3, <2>2
<1>7. ASSUME NEW i \in 1..u PROVE Cell(5 + c + i) = Url(i)
  <2>1. 5 + c + i \in Nat /\ 5 + c + i < Len(e) /\ 1 + (5 + c + i) = 6 + c + i
    BY <1>3
  <2>2. Cell(5 + c + i) = e[6 + c + i]
    BY <2>1 DEF Whole
  <2>3. QED
    BY <1>3, <2>2
<1>8. /\ Values(Cell(0)) = {0} /\ Values(Cell(1)) = {1} /\ Values(Cell(2)) = {0}
      /\ Values(Cell(3)) = {1} /\ Values(Cell(4)) = {2} /\ Values(Cell(5)) = {2}
  <2>1. /\ Cell(0).kind = "version" /\ Cell(1).kind = "major" /\ Cell(2).kind = "minor"
        /\ Cell(3).kind = "mode" /\ Cell(4).kind = "duplex" /\ Cell(5).kind = "via"
    BY <1>3, <1>4, CellKinds
  <2>2. Values(Cell(0)) = {0} /\ Values(Cell(1)) = {1} /\ Values(Cell(2)) = {0}
    BY <2>1, CellValues
  <2>3. Values(Cell(3)) = {1} /\ Values(Cell(4)) = {2} /\ Values(Cell(5)) = {2}
    BY <2>1, CellValues
  <2>4. QED
    BY <2>2, <2>3
<1>9. /\ Values(Cell(6 + c + u)) = {3} /\ Values(Cell(7 + c + u)) = {0}
      /\ Values(Cell(8 + c + u)) = {12}
  <2>1. /\ Cell(6 + c + u) = Plain("encoding") /\ Cell(7 + c + u) = Plain("utf8")
        /\ Cell(8 + c + u) = Plain("last")
    BY <1>3, <1>5
  <2>2. /\ Cell(6 + c + u).kind = "encoding" /\ Cell(7 + c + u).kind = "utf8"
        /\ Cell(8 + c + u).kind = "last"
    BY <2>1, CellKinds
  <2>3. QED
    BY <2>2, CellValues
<1>10. 0 \notin Values(Cell(6)) /\ Values(Cell(6)) # {}
  <2>1. 1 \in 1..c /\ 5 + 1 = 6
    OBVIOUS
  <2>2. Cell(6) = Digit("length", b[1])
    BY <1>6, <2>1
  <2>3. Cell(6).kind \in DigitKinds
    BY <2>2, CellKinds DEF DigitKinds
  <2>4. Values(Cell(6)) = Bytes \ {0}
    BY <2>3, CellValues
  <2>5. QED
    BY <2>4 DEF Bytes
<1>11. /\ c \in 1..Cap /\ SizedBy(5, c)
       /\ \A n \in 1..Cap : SizedBy(5, n) => n = c
       /\ SizeAt(5, c) = u
  <2>1. \A k \in 1..c : Cell(5 + k).kind \in DigitKinds /\ Cell(5 + k).byte = b[k]
    BY <1>6, CellKinds DEF DigitKinds
  <2>2. c <= Cap
    BY <1>3, CapAssumption
  <2>3. c = Len(b) /\ u \in 0..Word - 1 /\ b = EncodePackedInt(u) /\ Len(b) <= Cap
    BY <1>1, <1>2, <1>3, <2>2
  <2>4. \A k \in 1..Len(b) : Cell(5 + k).kind \in DigitKinds /\ Cell(5 + k).byte = b[k]
    BY <2>1, <2>3
  <2>5. /\ Len(b) \in 1..Cap /\ SizedBy(5, Len(b))
        /\ \A n \in 1..Cap : SizedBy(5, n) => n = Len(b)
        /\ SizeAt(5, Len(b)) = u
    <3>1. PICK i \in Nat : i = 5
      OBVIOUS
    <3>2. \A k \in 1..Len(b) : Cell(i + k).kind \in DigitKinds /\ Cell(i + k).byte = b[k]
      BY <2>4, <3>1
    <3>3. /\ Len(b) \in 1..Cap /\ SizedBy(i, Len(b))
          /\ \A n \in 1..Cap : SizedBy(i, n) => n = Len(b)
          /\ SizeAt(i, Len(b)) = u
      <4>1. i \in Nat /\ u \in 0..Word - 1 /\ b = EncodePackedInt(u) /\ Len(b) <= Cap
        BY <2>3
      <4>2. QED
        BY <3>2, <4>1, SizeIsTaken
    <3>4. QED
      BY <3>1, <3>3
  <2>6. QED
    BY <2>3, <2>5
<1>12. Via(c) = [size |-> 1 + c + u, name |-> "asked"]
  <2>1. NameOf(5 + c, u) = "asked"
    BY <1>2, <1>7 DEF NameOf
  <2>2. QED
    BY <1>11, <2>1 DEF Via
<1>13. Vias = {Via(c)}
  <2>1. HasSize(5)
    BY <1>11 DEF HasSize
  <2>2. {k \in 1..Cap : SizedBy(5, k)} = {c}
    BY <1>11
  <2>3. QED
    BY <2>1, <2>2 DEF Vias
<1>14. QED
  BY <1>1, <1>2, <1>8, <1>9, <1>10, <1>12, <1>13

LEMMA DiffersCells ==
    ASSUME NEW i \in Nat, Values(Cell(i)) = {3}, Values(Cell(i + 1)) = {0},
           Values(Cell(i + 2)) = {12}
    PROVE  ~Differs(i, <<3, 0, 12>>)
<1>1. i + 1 - 1 = i /\ i + 2 - 1 = i + 1 /\ i + 3 - 1 = i + 2
  OBVIOUS
<1>2. 1..3 = {1, 2, 3}
  OBVIOUS
<1>3. Len(<<3, 0, 12>>) = 3 /\ <<3, 0, 12>>[1] = 3 /\ <<3, 0, 12>>[2] = 0 /\ <<3, 0, 12>>[3] = 12
  OBVIOUS
<1>4. QED
  BY <1>1, <1>2, <1>3 DEF Differs

LEMMA MatchesCells ==
    ASSUME NEW i \in Nat, NEW x, NEW y, NEW z
    PROVE  /\ Matches(i, <<x>>) <=> x \in Values(Cell(i))
           /\ Differs(i, <<x>>) <=> Values(Cell(i)) # {x}
           /\ Matches(i, <<x, y>>) <=> x \in Values(Cell(i)) /\ y \in Values(Cell(i + 1))
           /\ Differs(i, <<x, y>>) <=> Values(Cell(i)) # {x} \/ Values(Cell(i + 1)) # {y}
           /\ Matches(i, <<x, y, z>>) <=> /\ x \in Values(Cell(i)) /\ y \in Values(Cell(i + 1))
                                          /\ z \in Values(Cell(i + 2))
           /\ Differs(i, <<x, y, z>>) <=> \/ Values(Cell(i)) # {x} \/ Values(Cell(i + 1)) # {y}
                                          \/ Values(Cell(i + 2)) # {z}
<1>1. i + 1 - 1 = i /\ i + 2 - 1 = i + 1 /\ i + 3 - 1 = i + 2
  OBVIOUS
<1>2. 1..1 = {1} /\ 1..2 = {1, 2} /\ 1..3 = {1, 2, 3}
  OBVIOUS
<1>3. Len(<<x>>) = 1 /\ <<x>>[1] = x
  OBVIOUS
<1>4. Len(<<x, y>>) = 2 /\ <<x, y>>[1] = x /\ <<x, y>>[2] = y
  OBVIOUS
<1>5. Len(<<x, y, z>>) = 3 /\ <<x, y, z>>[1] = x /\ <<x, y, z>>[2] = y /\ <<x, y, z>>[3] = z
  OBVIOUS
<1>6. /\ Matches(i, <<x>>) <=> x \in Values(Cell(i))
      /\ Differs(i, <<x>>) <=> Values(Cell(i)) # {x}
  BY <1>1, <1>2, <1>3 DEF Matches, Differs
<1>7. /\ Matches(i, <<x, y>>) <=> x \in Values(Cell(i)) /\ y \in Values(Cell(i + 1))
      /\ Differs(i, <<x, y>>) <=> Values(Cell(i)) # {x} \/ Values(Cell(i + 1)) # {y}
  BY <1>1, <1>2, <1>4 DEF Matches, Differs
<1>8. /\ Matches(i, <<x, y, z>>) <=> /\ x \in Values(Cell(i)) /\ y \in Values(Cell(i + 1))
                                     /\ z \in Values(Cell(i + 2))
      /\ Differs(i, <<x, y, z>>) <=> \/ Values(Cell(i)) # {x} \/ Values(Cell(i + 1)) # {y}
                                     \/ Values(Cell(i + 2)) # {z}
  BY <1>1, <1>2, <1>5 DEF Matches, Differs
<1>9. QED
  BY <1>6, <1>7, <1>8

(* ProcessHeader takes it, and nothing else does. *)
LEMMA PreambleIsTaken ==
    ASSUME TypeOK, OnRead, NEW e, NEW b, PreambleShape(e, b), Whole(e), Len(e) <= Cap
    PROVE  bound' = "asked" /\ Handled(Preamble, Len(e)) /\ asserted' = asserted
<1>1. PICK n \in Nat : n = 1 + Len(b) + UrlLen /\ Len(e) = 8 + n
  BY DEF PreambleShape
<1>2. /\ Values(Cell(0)) = {0} /\ Values(Cell(1)) = {1} /\ Values(Cell(2)) = {0}
      /\ Values(Cell(3)) = {1} /\ Values(Cell(4)) = {2} /\ Values(Cell(5)) = {2}
      /\ 0 \notin Values(Cell(6)) /\ Values(Cell(6)) # {}
  BY WholePreamble
<1>3. /\ Vias = {[size |-> n, name |-> "asked"]}
      /\ Values(Cell(5 + n)) = {3} /\ Values(Cell(6 + n)) = {0} /\ Values(Cell(7 + n)) = {12}
  <2>1. PICK c \in Nat \ {0} : c = Len(b)
    BY DEF PreambleShape
  <2>2. PICK u \in Nat \ {0} : u = UrlLen
    BY DEF PreambleShape
  <2>3. 5 + n = 6 + c + u /\ 6 + n = 7 + c + u /\ 7 + n = 8 + c + u
    BY <1>1, <2>1, <2>2
  <2>4. /\ Vias = {[size |-> 1 + c + u, name |-> "asked"]}
        /\ Values(Cell(6 + c + u)) = {3} /\ Values(Cell(7 + c + u)) = {0}
        /\ Values(Cell(8 + c + u)) = {12}
    BY <2>1, <2>2, WholePreamble
  <2>5. QED
    BY <1>1, <2>1, <2>2, <2>3, <2>4
<1>4. ~Differs(0, <<0, 1, 0>>)
  <2>1. 0 + 1 = 1 /\ 0 + 2 = 2
    OBVIOUS
  <2>2. Differs(0, <<0, 1, 0>>) <=> \/ Values(Cell(0)) # {0} \/ Values(Cell(0 + 1)) # {1}
                                    \/ Values(Cell(0 + 2)) # {0}
    BY MatchesCells
  <2>3. QED
    BY <1>2, <2>1, <2>2
<1>5. ~Differs(3, <<1, 2>>)
  <2>1. 3 + 1 = 4
    OBVIOUS
  <2>2. Differs(3, <<1, 2>>) <=> Values(Cell(3)) # {1} \/ Values(Cell(3 + 1)) # {2}
    BY MatchesCells
  <2>3. QED
    BY <1>2, <2>1, <2>2
<1>6. ~Differs(5, <<2>>)
  <2>1. Differs(5, <<2>>) <=> Values(Cell(5)) # {2}
    BY MatchesCells
  <2>2. QED
    BY <1>2, <2>1
<1>7. ~Differs(5 + n, <<3, 0, 12>>)
  <2>1. PICK i \in Nat : i = 5 + n
    OBVIOUS
  <2>2. i + 1 = 6 + n /\ i + 2 = 7 + n
    BY <2>1
  <2>3. Values(Cell(i)) = {3} /\ Values(Cell(i + 1)) = {0} /\ Values(Cell(i + 2)) = {12}
    BY <1>3, <2>1, <2>2
  <2>4. ~Differs(i, <<3, 0, 12>>)
    BY <2>3, DiffersCells
  <2>5. QED
    BY <2>1, <2>4
<1>8. ASSUME NEW via \in Vias PROVE via.size = n /\ via.name = "asked"
  BY <1>3
<1>9. CASE ProcessHeader
  <2>1. PICK via \in Vias : bound' = via.name /\ Handled(Preamble, 8 + via.size)
    BY <1>9 DEF ProcessHeader
  <2>2. asserted' = asserted
    BY <1>9 DEF ProcessHeader
  <2>3. QED
    BY <1>1, <1>8, <2>1, <2>2
<1>10. ~ProcessHeaderAsserts
  <2> SUFFICES ASSUME ProcessHeaderAsserts PROVE FALSE
    OBVIOUS
  <2>1. PICK via \in Vias : \/ Differs(5, <<2>>) \/ 0 \in Values(Cell(6))
                            \/ Differs(5 + via.size, <<3, 0, 12>>)
    BY <1>4, <1>5 DEF ProcessHeaderAsserts
  <2>2. QED
    BY <1>2, <1>6, <1>7, <1>8, <2>1
<1>11. ~ProcessRequest /\ ~ProcessRequestUnsized /\ ~ProcessEnd /\ ~UnknownType
  BY <1>2 DEF ProcessRequest, ProcessRequestUnsized, ProcessEnd, UnknownType, Dispatch
<1>12. QED
  BY <1>9, <1>10, <1>11 DEF OnRead

LEMMA ReceiveStep ==
    ASSUME TypeOK, Receives
    PROVE  \E n \in 1..Len(net) :
              /\ n <= Cap /\ running /\ read >= size /\ ~stop
              /\ Len(net) \in Nat /\ n \in 0..Cap
              /\ Received' = SubSeq(net, 1, n) /\ ToHandle' = Received'
              /\ \A i \in 1..Cap : buf'[i] = IF i <= n THEN net[i] ELSE buf[i]
              /\ buf' \in [1..Cap -> StreamCell \cup {Junk}]
              /\ net' = SubSeq(net, n + 1, Len(net)) /\ net' \in Seq(StreamCell)
              /\ SubSeq(net, 1, n) \in Seq(StreamCell) /\ Len(SubSeq(net, 1, n)) = n
              /\ Received' \o net' = net
              /\ size' = n /\ read' = 0
              /\ cut \subseteq cut'
              /\ n < Len(net) => /\ net[n + 1] \in StreamCell
                                 /\ cut' = IF net[n + 1].kind \notin Starts
                                           THEN cut \cup {net[n + 1].kind} ELSE cut
              /\ n = Len(net) => cut' = cut /\ net' = << >>
              /\ UNCHANGED <<sent, handled, bound, stop, running, asserted>>
<1>1. PICK n \in 1..Len(net) : n <= Cap /\ Receive(n)
  BY DEF Receives
<1>2. PICK c \in Nat : c = Len(net)
  BY LenProperties DEF TypeOK
<1>3. n \in 1..c /\ n \in 0..Cap /\ net \in Seq(StreamCell) /\ n \in Nat \ {0}
  BY <1>1, <1>2, CapAssumption DEF TypeOK
<1>4. \A i \in 1..c : net[i] \in StreamCell
  BY <1>2, <1>3, ElementOfSeq
<1>5. buf' = [i \in 1..Cap |-> IF i <= n THEN net[i] ELSE buf[i]]
  BY <1>1 DEF Receive
<1>6. buf' \in [1..Cap -> StreamCell \cup {Junk}]
  <2>1. ASSUME NEW i \in 1..Cap PROVE (IF i <= n THEN net[i] ELSE buf[i]) \in StreamCell \cup {Junk}
    <3>1. i <= n => i \in 1..c
      BY <1>2, <1>3, CapAssumption
    <3>2. QED
      BY <1>4, <3>1 DEF TypeOK
  <2>2. QED
    BY <1>5, <2>1
<1>7. /\ size' = n /\ read' = 0 /\ net' = SubSeq(net, n + 1, c)
      /\ running /\ read >= size /\ ~stop
      /\ UNCHANGED <<sent, handled, bound, stop, running, asserted>>
      /\ cut' = IF n < c /\ net[n + 1].kind \notin Starts
                THEN cut \cup {net[n + 1].kind} ELSE cut
  BY <1>1, <1>2 DEF Receive
<1>8. /\ SubSeq(net, 1, n) \in Seq(StreamCell) /\ Len(SubSeq(net, 1, n)) = n
      /\ \A i \in 1..n : SubSeq(net, 1, n)[i] = net[i]
  <2>1. \A i \in 1..n : net[i] \in StreamCell
    BY <1>2, <1>3, <1>4
  <2>2. QED
    BY <1>3, <2>1, SubSeqProperties
<1>9. net' \in Seq(StreamCell)
  <2>1. \A i \in n + 1..c : net[i] \in StreamCell
    BY <1>2, <1>3, <1>4
  <2>2. QED
    BY <1>2, <1>3, <1>7, <2>1, SubSeqProperties
<1>10. PICK b : b = buf'
  OBVIOUS
<1>11. SubSeq(b, 1, n) = SubSeq(net, 1, n)
  <2>1. \A i \in 1..n : i \in 1..Cap /\ b[i] = net[i] /\ net[i] \in StreamCell
    BY <1>2, <1>3, <1>4, <1>5, <1>10, CapAssumption
  <2>2. /\ SubSeq(b, 1, n) \in Seq(StreamCell) /\ Len(SubSeq(b, 1, n)) = n
        /\ \A i \in 1..n : SubSeq(b, 1, n)[i] = b[i]
    BY <1>3, <2>1, SubSeqProperties
  <2>3. PICK x \in Seq(StreamCell) : x = SubSeq(b, 1, n)
    BY <2>2
  <2>4. PICK y \in Seq(StreamCell) : y = SubSeq(net, 1, n)
    BY <1>8
  <2>5. Len(x) = Len(y) /\ \A i \in 1..Len(x) : x[i] = y[i]
    BY <1>8, <2>1, <2>2, <2>3, <2>4
  <2>6. x = y
    BY <2>5, SeqEqual
  <2>7. QED
    BY <2>3, <2>4, <2>6
<1>12. Received' = SubSeq(net, 1, n) /\ ToHandle' = SubSeq(net, 1, n)
  <2>1. Received' = SubSeq(buf', 1, size') /\ ToHandle' = SubSeq(buf', read' + 1, size')
    BY DEF Received, ToHandle
  <2>2. QED
    BY <1>7, <1>10, <1>11, <2>1
<1>13. SubSeq(net, 1, n) \o SubSeq(net, n + 1, c) = net
  <2>1. 1 \in 1..c + 1 /\ n \in 0..c /\ c \in n..c
    BY <1>2, <1>3
  <2>2. SubSeq(net, 1, n) \o SubSeq(net, n + 1, c) = SubSeq(net, 1, c)
    BY <1>2, <1>3, <2>1, ConcatAdjacentSubSeq
  <2>3. QED
    BY <1>2, <1>3, <2>2, SubSeqFull
<1>14. n < c => net[n + 1] \in StreamCell
  BY <1>2, <1>3, <1>4
<1>15. n = c => net' = << >>
  BY <1>2, <1>3, <1>7, SubSeqEmpty
<1>16. \A i \in 1..Cap : buf'[i] = IF i <= n THEN net[i] ELSE buf[i]
  BY <1>5
<1>17. /\ n < c => cut' = IF net[n + 1].kind \notin Starts
                          THEN cut \cup {net[n + 1].kind} ELSE cut
       /\ n = c => cut' = cut
       /\ cut \subseteq cut'
  BY <1>2, <1>3, <1>7
<1>18. QED
  BY <1>1, <1>2, <1>3, <1>6, <1>7, <1>8, <1>9, <1>12, <1>13, <1>14, <1>15, <1>16, <1>17

LEMMA PeerStepFacts ==
    ASSUME TypeOK, PeerStep
    PROVE  \E r \in Rec :
              /\ \A i \in 1..Len(sent) : sent[i] # r
              /\ r # Preamble => sent # << >>
              /\ sent' = Append(sent, r) /\ sent' \in Seq(Rec)
              /\ net' = net \o Encode(r) /\ net' \in Seq(StreamCell)
              /\ UNCHANGED <<buf, size, read, handled, bound, stop, running, asserted, cut>>
<1>1. PICK r \in Rec : PeerSends(r)
  BY DEF PeerStep, Rec
<1>2. Append(sent, r) \in Seq(Rec)
  BY AppendProperties DEF TypeOK
<1>3. net \o Encode(r) \in Seq(StreamCell)
  BY RecordCells, ConcatProperties DEF TypeOK
<1>4. QED
  BY <1>1, <1>2, <1>3 DEF PeerSends

LEMMA TypeStep ==
    ASSUME TypeOK, [Next]_vars
    PROVE  TypeOK'
<1>1. CASE PeerStep
  BY <1>1, PeerStepFacts DEF TypeOK
<1>2. CASE Receives
  <2>1. PICK n \in 1..Len(net) :
              /\ n \in 0..Cap
              /\ buf' \in [1..Cap -> StreamCell \cup {Junk}]
              /\ net' \in Seq(StreamCell)
              /\ size' = n /\ read' = 0
              /\ n < Len(net) => /\ net[n + 1] \in StreamCell
                                 /\ cut' = IF net[n + 1].kind \notin Starts
                                           THEN cut \cup {net[n + 1].kind} ELSE cut
              /\ n = Len(net) => cut' = cut
              /\ UNCHANGED <<sent, handled, bound, stop, running, asserted>>
    BY <1>2, ReceiveStep
  <2>2. \A c \in StreamCell : c.kind \notin Starts => c.kind \in InPreamble \cup {"size", "text"}
    BY DEF StreamCell, Fixed, Starts, InPreamble, DigitKinds
  <2>3. n < Len(net) \/ n = Len(net)
    BY LenProperties DEF TypeOK
  <2>4. cut' \subseteq InPreamble \cup {"size", "text"}
    BY <2>1, <2>2, <2>3 DEF TypeOK
  <2>5. QED
    BY <2>1, <2>4 DEF TypeOK
<1>3. CASE RunReturns
  BY <1>3 DEF RunReturns, TypeOK
<1>4. CASE OnRead
  <2>1. OnReadStep
    BY <1>4, OnReadIsStep
  <2>2. QED
    BY <2>1 DEF OnReadStep, TypeOK
<1>5. CASE UNCHANGED vars
  BY <1>5 DEF vars, TypeOK
<1>6. QED
  BY <1>1, <1>2, <1>3, <1>4, <1>5 DEF Next

LEMMA ReceivedIs ==
    ASSUME TypeOK
    PROVE  /\ Received \in Seq(StreamCell \cup {Junk}) /\ Len(Received) = size /\ size \in Nat
           /\ \A i \in 1..size : Received[i] = buf[i]
<1>1. \A i \in 1..size : buf[i] \in StreamCell \cup {Junk}
  BY CapAssumption DEF TypeOK
<1>2. size \in Nat
  BY CapAssumption DEF TypeOK
<1>3. QED
  BY <1>1, <1>2, SubSeqProperties DEF Received

LEMMA PreambleFirstStep ==
    ASSUME TypeOK, PreambleFirst, [Next]_vars
    PROVE  PreambleFirst'
<1>1. CASE PeerStep
  <2>1. PICK r \in Rec : /\ \A i \in 1..Len(sent) : sent[i] # r
                         /\ r # Preamble => sent # << >>
                         /\ sent' = Append(sent, r)
    BY <1>1, PeerStepFacts
  <2>2. PICK c \in Nat : c = Len(sent) /\ (sent = << >> => c = 0) /\ (c = 0 => sent = << >>)
    BY LenProperties, EmptySeq DEF TypeOK
  <2>3. /\ Len(sent') = c + 1 /\ sent'[c + 1] = r
        /\ \A i \in 1..c : sent'[i] = sent[i]
    BY <2>1, <2>2, AppendProperties DEF TypeOK
  <2>4. r = Preamble <=> c + 1 = 1
    <3>1. c > 0 => 1 \in 1..c
      BY <2>2
    <3>2. c > 0 => sent[1] = Preamble
      BY <2>2, <3>1 DEF PreambleFirst
    <3>3. QED
      BY <2>1, <2>2, <3>1, <3>2
  <2>5. ASSUME NEW i \in 1..c + 1 PROVE sent'[i] = Preamble <=> i = 1
    <3>1. CASE i \in 1..c
      BY <2>2, <2>3, <3>1 DEF PreambleFirst
    <3>2. CASE i = c + 1
      BY <2>3, <2>4, <3>2
    <3>3. QED
      BY <2>2, <3>1, <3>2
  <2>6. QED
    BY <2>3, <2>5 DEF PreambleFirst
<1>2. CASE Receives \/ RunReturns \/ OnRead \/ UNCHANGED vars
  <2>1. sent' = sent
    BY <1>2, ReceiveStep, OnReadIsStep DEF RunReturns, vars, OnReadStep
  <2>2. QED
    BY <2>1 DEF PreambleFirst
<1>3. QED
  BY <1>1, <1>2 DEF Next

LEMMA CutAtReadStep ==
    ASSUME TypeOK, CutAtRead, [Next]_vars
    PROVE  CutAtRead'
<1>1. CASE PeerStep
  <2>1. PICK r \in Rec : net' = net \o Encode(r) /\ cut' = cut
    BY <1>1, PeerStepFacts
  <2>2. PICK e \in Seq(StreamCell) : e = Encode(r)
    BY RecordCells
  <2>3. Len(e) \in Nat \ {0} /\ e[1].kind \in Starts
    BY <2>2, RecordCells
  <2>4. net \in Seq(StreamCell)
    BY DEF TypeOK
  <2>5. net' = net \o e /\ Len(net \o e) = Len(net) + Len(e) /\ Len(net) \in Nat
    BY <2>1, <2>2, <2>4, ConcatProperties, LenProperties
  <2>6. CASE net = << >>
    <3>1. net' = e
      BY <2>5, <2>6, ConcatEmptySeq
    <3>2. Head(net') = e[1]
      BY <2>3, <3>1
    <3>3. QED
      BY <2>3, <3>2 DEF CutAtRead
  <2>7. CASE net # << >>
    <3>1. Len(net) # 0
      BY <2>4, <2>7, EmptySeq
    <3>2. 1 \in 1..Len(net)
      BY <2>5, <3>1
    <3>3. (net \o e)[1] = net[1]
      BY <2>4, <3>2, Joined
    <3>4. Head(net') = Head(net)
      BY <2>3, <2>5, <3>1, <3>3
    <3>5. QED
      BY <2>1, <2>7, <3>4 DEF CutAtRead
  <2>8. QED
    BY <2>6, <2>7
<1>2. CASE Receives
  <2>1. PICK n \in 1..Len(net) :
              /\ net' = SubSeq(net, n + 1, Len(net))
              /\ n < Len(net) => cut' = IF net[n + 1].kind \notin Starts
                                        THEN cut \cup {net[n + 1].kind} ELSE cut
              /\ n = Len(net) => net' = << >>
    BY <1>2, ReceiveStep
  <2>2. PICK c \in Nat : c = Len(net)
    BY LenProperties DEF TypeOK
  <2>3. CASE n < c
    <3>1. n + 1 \in 1..c /\ c \in n + 1..c
      BY <2>2, <2>3
    <3>2. Head(SubSeq(net, n + 1, c)) = net[n + 1]
      BY <2>2, <3>1, HeadTailOfSubSeq DEF TypeOK
    <3>3. QED
      BY <2>1, <2>2, <2>3, <3>2 DEF CutAtRead
  <2>4. CASE n = c
    BY <2>1, <2>2, <2>4 DEF CutAtRead
  <2>5. QED
    BY <2>2, <2>3, <2>4
<1>3. CASE RunReturns \/ OnRead \/ UNCHANGED vars
  <2>1. net' = net /\ cut' = cut
    BY <1>3, OnReadIsStep DEF RunReturns, vars, OnReadStep
  <2>2. QED
    BY <2>1 DEF CutAtRead
<1>4. QED
  BY <1>1, <1>2, <1>3 DEF Next
-----------------------------------------------------------------------------
(* Before and behind the preamble.                                         *)

LEMMA CellReceived ==
    ASSUME TypeOK, NEW i \in Nat, read + 1 + i <= size
    PROVE  Cell(i) = buf[read + 1 + i] /\ read + 1 + i \in 1..size
<1>1. size <= Cap /\ size \in Nat /\ read \in Nat
  BY CapAssumption DEF TypeOK
<1>2. read + 1 + i <= Cap /\ read + 1 + i \in 1..size
  BY <1>1, CapAssumption
<1>3. QED
  BY <1>2 DEF Cell

(* Only the handler of the preamble binds a name or adds a preamble. *)
LEMMA OtherHandlers ==
    ASSUME TypeOK, OnRead, ~ProcessHeader, ~ProcessHeaderAsserts
    PROVE  /\ bound' = bound
           /\ \/ handled' = handled
              \/ \E r \in Rec \cup {Garbled} : r # Preamble /\ handled' = Append(handled, r)
<1>1. /\ EndRec \in Rec /\ EndRec # Preamble /\ Garbled # Preamble
      /\ \A m \in Msg : Env(m) \in Rec /\ Env(m) # Preamble
  BY DEF Rec, EndRec, Preamble, Garbled, Env
<1>2. CASE ProcessRequest
  <2>1. \E r \in {Env(m) : m \in Msg} \cup {Garbled}, n \in Nat : Handled(r, n)
    BY <1>2, RequestHandled
  <2>2. \E r \in Rec \cup {Garbled} : r # Preamble /\ handled' = Append(handled, r)
    BY <1>1, <2>1 DEF Handled
  <2>3. QED
    BY <1>2, <2>2 DEF ProcessRequest
<1>3. CASE ProcessRequestUnsized
  <2>1. handled' = Append(handled, Garbled)
    BY <1>3 DEF ProcessRequestUnsized, Handled
  <2>2. QED
    BY <1>1, <1>3, <2>1 DEF ProcessRequestUnsized
<1>4. CASE ProcessEnd
  <2>1. handled' = Append(handled, EndRec)
    BY <1>4 DEF ProcessEnd, Handled
  <2>2. QED
    BY <1>1, <1>4, <2>1 DEF ProcessEnd
<1>5. CASE UnknownType
  BY <1>5 DEF UnknownType
<1>6. QED
  BY <1>2, <1>3, <1>4, <1>5 DEF OnRead

(* What is received and what is to come, as one sequence. *)
LEMMA AllIs ==
    ASSUME TypeOK
    PROVE  \E all, l : /\ all = Received \o net /\ all \in Seq(StreamCell \cup {Junk})
                       /\ l \in Nat /\ l = Len(net) /\ size \in Nat
                       /\ Len(all) = size + l
                       /\ \A i \in 1..size : all[i] = buf[i]
                       /\ \A i \in 1..l : all[size + i] = net[i]
<1> DEFINE C == StreamCell \cup {Junk}
<1>1. PICK got \in Seq(C) : got = Received
  BY ReceivedIs
<1>2. PICK n0 \in Seq(C) : n0 = net
  BY SeqMonotonic DEF TypeOK
<1>3. PICK all \in Seq(C) : all = got \o n0
  BY ConcatProperties
<1>4. PICK l \in Nat : l = Len(n0)
  BY LenProperties
<1>5. PICK g \in Nat : g = Len(got)
  BY LenProperties
<1>6. g = size /\ \A i \in 1..g : got[i] = buf[i]
  BY <1>1, <1>5, ReceivedIs
<1> HIDE DEF C
<1>7. /\ Len(all) = g + l
      /\ \A i \in 1..g : all[i] = got[i]
      /\ \A i \in 1..l : all[g + i] = n0[i]
  BY <1>3, <1>4, <1>5, Joined
<1>8. all \in Seq(C) /\ all = Received \o net /\ l = Len(net) /\ Len(all) = size + l
  BY <1>1, <1>2, <1>3, <1>4, <1>6, <1>7
<1>9. (\A i \in 1..size : all[i] = buf[i]) /\ \A i \in 1..l : all[size + i] = net[i]
  BY <1>2, <1>6, <1>7
<1>10. size \in Nat
  BY <1>5, <1>6
<1>11. QED
  BY <1>4, <1>8, <1>9, <1>10 DEF C

LEMMA AheadPeer ==
    ASSUME TypeOK, PreambleFirst, PreambleAhead, PeerStep
    PROVE  PreambleAhead'
<1> DEFINE C == StreamCell \cup {Junk}
<1>1. PICK r \in Rec : /\ \A i \in 1..Len(sent) : sent[i] # r
                       /\ r # Preamble => sent # << >>
                       /\ sent' = Append(sent, r)
                       /\ net' = net \o Encode(r)
                       /\ UNCHANGED <<buf, size, read, handled, bound>>
  BY PeerStepFacts
<1>2. PICK first : first = Encode(Preamble)
  OBVIOUS
<1>3. PICK e \in Seq(C) : e = Encode(r)
  BY RecordCells, SeqMonotonic
<1>4. Len(e) \in Nat /\ (r # Preamble => \A i \in 1..Len(e) : 0 \notin Values(e[i]))
  BY <1>3, RecordCells
<1>5. PICK got \in Seq(C) : got = Received
  BY ReceivedIs
<1>6. PICK n0 \in Seq(C) : n0 = net
  BY SeqMonotonic DEF TypeOK
<1>7. PICK all \in Seq(C) : all = got \o n0
  BY ConcatProperties
<1> HIDE DEF C
<1>8. PICK new \in Seq(C) : new = all \o e
  BY ConcatProperties
<1>9. Received' \o net' = new
  <2>1. (got \o n0) \o e = got \o (n0 \o e)
    BY ConcatAssociative, SMTT(60)
  <2>2. Received' = Received
    BY <1>1 DEF Received
  <2>3. QED
    BY <1>1, <1>3, <1>5, <1>6, <1>7, <1>8, <2>1, <2>2
<1>10. sent' # << >>
  <2>1. sent \in Seq(Rec)
    BY DEF TypeOK
  <2>2. Append(sent, r) # << >>
    BY <2>1, AppendProperties
  <2>3. QED
    BY <1>1, <2>2
<1>11. PICK c \in Nat : c = Len(all)
  BY LenProperties
<1>12. PICK d \in Nat : d = Len(e)
  BY <1>4
<1>13. /\ Len(new) = c + d
       /\ \A i \in 1..c : new[i] = all[i]
       /\ \A i \in 1..d : new[c + i] = e[i]
  BY <1>8, <1>11, <1>12, Joined
<1>14. /\ Len(new) >= Len(first) /\ \A i \in 1..Len(first) : new[i] = first[i]
       /\ \A i \in (Len(first) + 1)..Len(new) : 0 \notin Values(new[i])
  <2>1. CASE sent = << >>
    <3>1. r = Preamble /\ e = first
      BY <1>1, <1>2, <1>3, <2>1
    <3>2. all = << >>
      BY <1>5, <1>6, <1>7, <2>1 DEF PreambleAhead
    <3>3. new = e
      BY <1>8, <3>2, ConcatEmptySeq
    <3>4. \A i \in d + 1..d : FALSE
      BY <1>12
    <3>5. QED
      BY <1>12, <3>1, <3>3, <3>4
  <2>2. CASE sent # << >>
    <3>1. /\ c >= Len(first) /\ \A i \in 1..Len(first) : all[i] = first[i]
          /\ \A i \in (Len(first) + 1)..c : 0 \notin Values(all[i])
      BY <1>2, <1>5, <1>6, <1>7, <1>11, <2>2 DEF PreambleAhead
    <3>2. r # Preamble
      <4>1. Len(sent) \in Nat \ {0}
        BY <2>2, EmptySeq DEF TypeOK
      <4>2. 1 \in 1..Len(sent) /\ sent[1] = Preamble
        BY <4>1 DEF PreambleFirst
      <4>3. QED
        BY <1>1, <4>2
    <3>3. PICK f \in Nat : f = Len(first)
      BY <1>2, PreambleIsRecord, RecordCells
    <3>4. ASSUME NEW i \in 1..f PROVE new[i] = first[i]
      <4>1. i \in 1..c
        BY <1>11, <3>1, <3>3
      <4>2. QED
        BY <1>13, <3>1, <3>3, <4>1
    <3>5. ASSUME NEW i \in f + 1..c + d PROVE 0 \notin Values(new[i])
      <4>1. CASE i <= c
        <5>1. i \in 1..c /\ i \in f + 1..c
          BY <1>11, <3>3, <4>1
        <5>2. QED
          BY <1>13, <3>1, <3>3, <5>1
      <4>2. CASE i > c
        <5>1. PICK k \in 1..d : i = c + k
          <6>1. i - c \in 1..d /\ i = c + (i - c)
            BY <1>11, <1>12, <3>3, <4>2
          <6>2. QED
            BY <6>1
        <5>2. new[i] = e[k]
          BY <1>13, <5>1
        <5>3. QED
          BY <1>4, <1>12, <3>2, <5>2
      <4>3. QED
        BY <1>11, <3>3, <4>1, <4>2
    <3>6. QED
      BY <1>11, <1>12, <1>13, <3>1, <3>3, <3>4, <3>5
  <2>3. QED
    BY <2>1, <2>2
<1>15. read' = 0 /\ handled' = << >> /\ bound' = "no"
  BY <1>1 DEF PreambleAhead
<1>16. QED
  BY <1>2, <1>9, <1>10, <1>14, <1>15 DEF PreambleAhead

LEMMA AheadReceives ==
    ASSUME TypeOK, PreambleAhead, Receives
    PROVE  PreambleAhead'
<1>1. /\ read >= size /\ Received' \o net' = net /\ read' = 0
      /\ UNCHANGED <<sent, handled, bound>>
  BY ReceiveStep
<1>2. size = 0
  BY <1>1, CapAssumption DEF TypeOK, PreambleAhead
<1>3. Received = << >>
  BY <1>2, ReceivedIs, EmptySeq
<1>4. Received \o net = net
  BY <1>3, ConcatEmptySeq DEF TypeOK
<1>5. Received' \o net' = Received \o net
  BY <1>1, <1>4
<1>6. QED
  BY <1>1, <1>5 DEF PreambleAhead

LEMMA AheadOnRead ==
    ASSUME TypeOK, CutAtRead, cut \cap InPreamble = {}, PreambleAhead, OnRead
    PROVE  PreamblePassed'
<1>1. PICK all, l : /\ all = Received \o net /\ all \in Seq(StreamCell \cup {Junk})
                    /\ l \in Nat /\ l = Len(net) /\ size \in Nat
                    /\ Len(all) = size + l
                    /\ \A i \in 1..size : all[i] = buf[i]
                    /\ \A i \in 1..l : all[size + i] = net[i]
  BY AllIs
<1>2. PICK e, b : PreambleShape(e, b)
  BY PreambleCells
<1>3. e = Encode(Preamble)
  BY <1>2 DEF PreambleShape
<1>4. PICK f \in Nat \ {0} : f = Len(e)
  BY <1>3, PreambleIsRecord, RecordCells
<1>5. OnReadStep
  BY OnReadIsStep
<1>6. read = 0 /\ handled = << >> /\ size > 0
  BY <1>5 DEF PreambleAhead, OnReadStep
<1>7. /\ sent # << >> /\ size + l >= f /\ \A i \in 1..f : all[i] = e[i]
      /\ \A i \in (f + 1)..(size + l) : 0 \notin Values(all[i])
  <2>1. all # << >>
    <3>1. Len(all) > 0
      BY <1>1, <1>6
    <3>2. QED
      BY <3>1
  <2>2. QED
    BY <1>1, <1>3, <1>4, <2>1 DEF PreambleAhead
<1>8. f <= size
  <2> SUFFICES ASSUME ~(f <= size) PROVE FALSE
    OBVIOUS
  <2>1. PICK k \in 1..f : k = size + 1 /\ k # 1
    <3>1. size + 1 \in 1..f /\ size + 1 # 1
      BY <1>1, <1>6
    <3>2. QED
      BY <3>1
  <2>2. l >= 1
    BY <1>1, <1>7
  <2>3. net[1] = e[k]
    <3>1. 1 \in 1..l /\ all[size + 1] = net[1]
      BY <1>1, <2>2
    <3>2. QED
      BY <1>7, <2>1, <3>1
  <2>4. e[k].kind \in InPreamble
    BY <1>3, <1>4, <2>1, PreambleIsRecord, RecordCells
  <2>5. net # << >> /\ Head(net) = net[1]
    <3>1. net \in Seq(StreamCell) /\ Len(net) >= 1
      BY <1>1, <2>2 DEF TypeOK
    <3>2. QED
      BY <3>1
  <2>6. e[k].kind \in Starts \cup cut
    BY <2>3, <2>5 DEF CutAtRead
  <2>7. e[k].kind \notin Starts
    BY <2>4 DEF Starts, InPreamble
  <2>8. QED
    BY <2>4, <2>6, <2>7
<1>9. Whole(e)
  <2> SUFFICES ASSUME NEW k \in Nat, k < f PROVE Cell(k) = e[1 + k]
    BY <1>4 DEF Whole
  <2>1. read + 1 + k <= size /\ read + 1 + k = 1 + k /\ 1 + k \in 1..f
    BY <1>1, <1>6, <1>8
  <2>2. Cell(k) = buf[1 + k] /\ 1 + k \in 1..size
    BY <2>1, CellReceived
  <2>3. QED
    BY <1>1, <1>7, <2>1, <2>2
<1>10. Len(e) <= Cap
  BY <1>1, <1>4, <1>8, CapAssumption DEF TypeOK
<1>11. bound' = "asked" /\ Handled(Preamble, Len(e))
  BY <1>2, <1>9, <1>10, PreambleIsTaken
<1>12. handled' = <<Preamble>> /\ read' = f
  <2>1. handled' = Append(handled, Preamble) /\ read' = read + Len(e)
    BY <1>11 DEF Handled
  <2>2. QED
    BY <1>4, <1>6, <2>1
<1>13. /\ handled' # << >> /\ handled'[1] = Preamble
       /\ \A i \in 1..Len(handled') : handled'[i] = Preamble => i = 1
  <2>1. Len(<<Preamble>>) = 1 /\ <<Preamble>>[1] = Preamble
    OBVIOUS
  <2>2. \A i \in 1..1 : i = 1
    OBVIOUS
  <2>3. <<Preamble>> # << >>
    OBVIOUS
  <2>4. QED
    BY <1>12, <2>1, <2>2, <2>3
<1>14. UNCHANGED <<sent, net, buf, size>>
  BY <1>5 DEF OnReadStep
<1>15. \A i \in f + 1..size : 0 \notin Values(buf[i])
  <2> TAKE i \in f + 1..size
  <2>1. i \in 1..size /\ i \in f + 1..size + l
    BY <1>1, <1>4
  <2>2. QED
    BY <1>1, <1>7, <2>1
<1>16. \A i \in 1..l : 0 \notin Values(net[i])
  <2> TAKE i \in 1..l
  <2>1. size + i \in f + 1..size + l
    BY <1>1, <1>4, <1>8
  <2>2. QED
    BY <1>1, <1>7, <2>1
<1>17. sent' # << >> /\ bound' = "asked"
  BY <1>7, <1>11, <1>14
<1>18. /\ \A i \in (read' + 1)..size' : 0 \notin Values(buf'[i])
       /\ \A i \in 1..Len(net') : 0 \notin Values(net'[i])
  BY <1>1, <1>12, <1>14, <1>15, <1>16
<1>19. QED
  BY <1>13, <1>17, <1>18 DEF PreamblePassed, Values, Code

LEMMA PassedPeer ==
    ASSUME TypeOK, PreambleFirst, PreamblePassed, PeerStep
    PROVE  PreamblePassed'
<1>1. PICK r \in Rec : /\ \A i \in 1..Len(sent) : sent[i] # r
                       /\ sent' = Append(sent, r)
                       /\ net' = net \o Encode(r)
                       /\ UNCHANGED <<buf, size, read, handled, bound>>
  BY PeerStepFacts
<1>2. r # Preamble /\ sent' # << >>
  <2>1. sent \in Seq(Rec) /\ sent # << >>
    BY DEF TypeOK, PreamblePassed
  <2>2. Len(sent) \in Nat \ {0}
    BY <2>1, EmptySeq
  <2>3. 1 \in 1..Len(sent) /\ sent[1] = Preamble
    BY <2>2 DEF PreambleFirst
  <2>4. Append(sent, r) # << >>
    BY <2>1, AppendProperties
  <2>5. QED
    BY <1>1, <2>3, <2>4
<1>3. PICK e \in Seq(StreamCell) : e = Encode(r)
  BY RecordCells
<1>4. PICK d \in Nat : d = Len(e)
  BY LenProperties
<1>5. \A i \in 1..d : 0 \notin Values(e[i])
  BY <1>2, <1>3, <1>4, RecordCells
<1>6. PICK c \in Nat : c = Len(net) /\ net \in Seq(StreamCell)
  BY LenProperties DEF TypeOK
<1>7. PICK new : new = net \o e
  OBVIOUS
<1>8. /\ Len(new) = c + d
      /\ \A i \in 1..c : new[i] = net[i]
      /\ \A i \in 1..d : new[c + i] = e[i]
  BY <1>4, <1>6, <1>7, Joined
<1>9. ASSUME NEW i \in 1..c + d PROVE 0 \notin Values(new[i])
  <2>1. CASE i <= c
    <3>1. i \in 1..c
      BY <1>6, <2>1
    <3>2. QED
      BY <1>6, <1>8, <3>1 DEF PreamblePassed
  <2>2. CASE i > c
    <3>1. PICK k \in 1..d : i = c + k
      <4>1. i - c \in 1..d /\ i = c + (i - c)
        BY <1>4, <1>6, <2>2
      <4>2. QED
        BY <4>1
    <3>2. QED
      BY <1>5, <1>8, <3>1
  <2>3. QED
    BY <1>6, <2>1, <2>2
<1>10. \A i \in 1..Len(net') : 0 \notin Values(net'[i])
  BY <1>1, <1>3, <1>7, <1>8, <1>9
<1>11. QED
  BY <1>1, <1>2, <1>10 DEF PreamblePassed, Values, Code

LEMMA PassedReceives ==
    ASSUME TypeOK, PreamblePassed, Receives
    PROVE  PreamblePassed'
<1>1. PICK n \in 1..Len(net) :
              /\ n \in 0..Cap /\ Len(net) \in Nat
              /\ \A i \in 1..Cap : buf'[i] = IF i <= n THEN net[i] ELSE buf[i]
              /\ net' = SubSeq(net, n + 1, Len(net))
              /\ size' = n /\ read' = 0
              /\ UNCHANGED <<sent, handled, bound>>
  BY ReceiveStep
<1>2. PICK c \in Nat : c = Len(net)
  BY <1>1
<1>3. n \in 1..c /\ n \in Nat /\ net \in Seq(StreamCell)
  BY <1>1, <1>2, CapAssumption DEF TypeOK
<1>4. \A i \in 1..c : 0 \notin Values(net[i]) /\ net[i] \in StreamCell
  BY <1>2, <1>3, ElementOfSeq DEF PreamblePassed
<1>5. ASSUME NEW i \in 1..n PROVE 0 \notin Values(buf'[i])
  <2>1. i \in 1..Cap /\ i \in 1..c /\ i <= n
    BY <1>1, <1>2, <1>3, CapAssumption
  <2>2. QED
    BY <1>1, <1>4, <2>1
<1>6. ASSUME NEW i \in 1..Len(net') PROVE 0 \notin Values(net'[i])
  <2>1. \A k \in n + 1..c : net[k] \in StreamCell
    <3>1. \A k \in n + 1..c : k \in 1..c
      BY <1>2, <1>3
    <3>2. QED
      BY <1>4, <3>1
  <2>2. PICK x : x = SubSeq(net, n + 1, c)
    OBVIOUS
  <2>3. CASE n < c
    <3>1. /\ Len(x) = c - n
          /\ \A k \in 1..c - n : x[k] = net[n + k]
      <4>1. /\ Len(x) = IF n + 1 <= c THEN c - (n + 1) + 1 ELSE 0
            /\ \A k \in 1..c - (n + 1) + 1 : x[k] = net[(n + 1) + k - 1]
        BY <1>2, <1>3, <2>1, <2>2, SubSeqProperties
      <4>2. \A k \in Nat : (n + 1) + k - 1 = n + k
        BY <1>3
      <4>3. c - (n + 1) + 1 = c - n /\ n + 1 <= c
        BY <1>2, <1>3, <2>3
      <4>4. \A k \in 1..c - n : k \in Nat
        BY <1>2, <1>3
      <4>5. QED
        BY <4>1, <4>2, <4>3, <4>4
    <3>2. i \in 1..c - n /\ n + i \in 1..c
      BY <1>1, <1>2, <1>3, <2>2, <3>1
    <3>3. QED
      BY <1>1, <1>2, <1>4, <2>2, <3>1, <3>2
  <2>4. CASE n = c
    <3>1. x = << >>
      BY <1>2, <1>3, <2>2, <2>4, SubSeqEmpty
    <3>2. Len(net') = 0
      BY <1>1, <1>2, <2>2, <3>1
    <3>3. QED
      BY <3>2
  <2>5. QED
    BY <1>2, <1>3, <2>3, <2>4
<1>7. \A i \in read' + 1..size' : 0 \notin Values(buf'[i])
  BY <1>1, <1>5
<1>8. QED
  BY <1>1, <1>6, <1>7 DEF PreamblePassed, Values, Code

LEMMA PassedOnRead ==
    ASSUME TypeOK, PreamblePassed, OnRead
    PROVE  PreamblePassed'
<1>1. OnReadStep
  BY OnReadIsStep
<1>2. /\ read \in Nat /\ size \in Nat /\ read < size /\ read' \in Nat /\ read' >= read
      /\ UNCHANGED <<sent, net, buf, size>>
  BY <1>1, CapAssumption DEF OnReadStep, TypeOK
<1>3. 0 \notin Values(Cell(0))
  <2>1. read + 1 + 0 <= size /\ read + 1 + 0 = read + 1 /\ read + 1 \in read + 1..size
    BY <1>2
  <2>2. Cell(0) = buf[read + 1]
    BY <2>1, CellReceived
  <2>3. QED
    BY <2>1, <2>2 DEF PreamblePassed
<1>4. ~ProcessHeader /\ ~ProcessHeaderAsserts
  BY <1>3 DEF ProcessHeader, ProcessHeaderAsserts, Dispatch
<1>5. /\ bound' = bound
      /\ \/ handled' = handled
         \/ \E r \in Rec \cup {Garbled} : r # Preamble /\ handled' = Append(handled, r)
  BY <1>4, OtherHandlers
<1>6. /\ handled' # << >> /\ handled'[1] = Preamble
      /\ \A i \in 1..Len(handled') : handled'[i] = Preamble => i = 1
  <2>1. CASE handled' = handled
    BY <2>1 DEF PreamblePassed
  <2>2. CASE \E r \in Rec \cup {Garbled} : r # Preamble /\ handled' = Append(handled, r)
    <3>1. PICK r \in Rec \cup {Garbled} : r # Preamble /\ handled' = Append(handled, r)
      BY <2>2
    <3>2. PICK h \in Seq(Rec \cup {Garbled}) : h = handled
      BY DEF TypeOK
    <3>3. PICK c \in Nat \ {0} : c = Len(h)
      BY <3>2, EmptySeq DEF PreamblePassed
    <3>4. PICK k \in Seq(Rec \cup {Garbled}) : k = Append(h, r)
      BY AppendProperties
    <3>5. Len(k) = c + 1 /\ k[c + 1] = r /\ \A i \in 1..c : k[i] = h[i]
      BY <3>3, <3>4, AppendProperties
    <3>6. k # << >> /\ k[1] = Preamble
      <4>1. 1 \in 1..c /\ h[1] = Preamble
        BY <3>2, <3>3 DEF PreamblePassed
      <4>2. k # << >>
        BY <3>3, <3>5, EmptySeq
      <4>3. QED
        BY <3>5, <4>1, <4>2
    <3>7. ASSUME NEW i \in 1..c + 1, k[i] = Preamble PROVE i = 1
      <4>1. i \in 1..c
        BY <3>1, <3>3, <3>5, <3>7
      <4>2. QED
        BY <3>2, <3>3, <3>5, <3>7, <4>1 DEF PreamblePassed
    <3>8. QED
      BY <3>1, <3>2, <3>4, <3>5, <3>6, <3>7
  <2>3. QED
    BY <1>5, <2>1, <2>2
<1>7. \A i \in read' + 1..size : 0 \notin Values(buf[i])
  <2>1. PICK p \in Nat : p = read' /\ p >= read
    BY <1>2
  <2>2. PICK z \in Nat : z = size
    BY <1>2
  <2>3. PICK q \in Nat : q = read
    BY <1>2
  <2>4. p >= q
    BY <2>1, <2>3
  <2>5. \A i \in p + 1..z : i \in q + 1..z
    BY <2>4
  <2>6. QED
    BY <2>1, <2>2, <2>3, <2>5 DEF PreamblePassed
<1>8. /\ \A i \in (read' + 1)..size' : 0 \notin Values(buf'[i])
      /\ \A i \in 1..Len(net') : 0 \notin Values(net'[i])
  BY <1>2, <1>7 DEF PreamblePassed
<1>9. sent' # << >> /\ bound' = "asked"
  BY <1>2, <1>5 DEF PreamblePassed
<1>10. QED
  BY <1>6, <1>8, <1>9 DEF PreamblePassed, Values, Code

(* No read but one that ends inside the preamble leads out of them. *)
LEMMA PreambleStep ==
    ASSUME TypeOK, PreambleFirst, CutAtRead, PreambleAhead \/ PreamblePassed,
           cut \cap InPreamble = {}, [Next]_vars
    PROVE  (PreambleAhead \/ PreamblePassed)'
<1>1. CASE PeerStep
  BY <1>1, AheadPeer, PassedPeer
<1>2. CASE Receives
  BY <1>2, AheadReceives, PassedReceives
<1>3. CASE OnRead
  BY <1>3, AheadOnRead, PassedOnRead
<1>4. CASE RunReturns \/ UNCHANGED vars
  <2>1. UNCHANGED <<sent, net, buf, size, read, handled, bound>>
    BY <1>4 DEF RunReturns, vars
  <2>2. PreambleAhead => PreambleAhead'
    <3>1. Received' = Received
      BY <2>1 DEF Received
    <3>2. QED
      BY <2>1, <3>1 DEF PreambleAhead
  <2>3. PreamblePassed => PreamblePassed'
    BY <2>1 DEF PreamblePassed
  <2>4. QED
    BY <2>2, <2>3
<1>5. QED
  BY <1>1, <1>2, <1>3, <1>4 DEF Next

(* A preamble is acknowledged only once a name is bound. *)
LEMMA BoundStep ==
    ASSUME TypeOK, Acknowledged => bound # "no", [Next]_vars
    PROVE  Acknowledged' => bound' # "no"
<1>1. CASE PeerStep \/ Receives \/ RunReturns \/ UNCHANGED vars
  <2>1. handled' = handled /\ bound' = bound
    BY <1>1, PeerStepFacts, ReceiveStep DEF RunReturns, vars
  <2>2. QED
    BY <2>1 DEF Acknowledged
<1>2. CASE OnRead
  <2>1. CASE ProcessHeader
    BY <2>1, HeaderHandled
  <2>2. ASSUME ~ProcessHeader
        PROVE  /\ bound # "no" => bound' # "no"
               /\ \/ handled' = handled
                  \/ \E r \in Rec \cup {Garbled} : r # Preamble /\ handled' = Append(handled, r)
    <3>1. CASE ProcessHeaderAsserts
      <4>1. handled' = Append(handled, Garbled) /\ (bound' = bound \/ bound' \in {"asked", "other"})
        BY <3>1, HeaderGarbled DEF Handled
      <4>2. Garbled # Preamble
        BY DEF Garbled, Preamble
      <4>3. QED
        BY <4>1, <4>2
    <3>2. CASE ~ProcessHeaderAsserts
      BY <1>2, <2>2, <3>2, OtherHandlers
    <3>3. QED
      BY <3>1, <3>2
  <2>3. ASSUME NEW r \in Rec \cup {Garbled}, r # Preamble, handled' = Append(handled, r), Acknowledged'
        PROVE  Acknowledged
    <3>1. PICK h \in Seq(Rec \cup {Garbled}) : h = handled
      BY DEF TypeOK
    <3>2. PICK c \in Nat : c = Len(h)
      BY <3>1, LenProperties
    <3>3. PICK k \in Seq(Rec \cup {Garbled}) : k = Append(h, r)
      BY AppendProperties
    <3>4. Len(k) = c + 1 /\ k[c + 1] = r /\ \A i \in 1..c : k[i] = h[i]
      BY <3>2, <3>3, AppendProperties
    <3>5. PICK i \in 1..c + 1 : k[i] = Preamble
      BY <2>3, <3>1, <3>3, <3>4 DEF Acknowledged
    <3>6. i \in 1..c /\ h[i] = Preamble
      BY <2>3, <3>2, <3>4, <3>5
    <3>7. QED
      BY <3>1, <3>2, <3>6 DEF Acknowledged
  <2>4. handled' = handled => (Acknowledged' <=> Acknowledged)
    BY DEF Acknowledged
  <2>5. QED
    BY <2>1, <2>2, <2>3, <2>4
<1>3. QED
  BY <1>1, <1>2 DEF Next

-----------------------------------------------------------------------------
(* The handlers in step with the records.                                  *)

NextRecord(r, e, rest) ==
    /\ r \in Rec /\ e = Encode(r) /\ e \in Seq(StreamCell) /\ Len(e) \in Nat \ {0}
    /\ Len(handled) < Len(sent) /\ r = sent[Len(handled) + 1]
    /\ rest = SubSeq(sent, Len(handled) + 2, Len(sent)) /\ rest \in Seq(Rec)
    /\ ToHandle \o net = e \o Cells(rest)
    /\ \A i \in Nat : i < Len(e) /\ read + 1 + i <= size => Cell(i) = e[1 + i]
    /\ size - read < Len(e) => net # << >> /\ Head(net) = e[size - read + 1]

LEMMA ToHandleIs ==
    ASSUME TypeOK, read <= size
    PROVE  /\ ToHandle \in Seq(StreamCell \cup {Junk}) /\ Len(ToHandle) = size - read
           /\ size \in Nat /\ read \in Nat /\ size <= Cap
           /\ \A i \in 1..size - read : ToHandle[i] = buf[read + i]
<1>1. size \in Nat /\ read \in Nat /\ size <= Cap
  BY CapAssumption DEF TypeOK
<1>2. \A i \in read + 1..size : buf[i] \in StreamCell \cup {Junk}
  <2>1. \A i \in read + 1..size : i \in 1..Cap
    BY <1>1, CapAssumption
  <2>2. QED
    BY <2>1 DEF TypeOK
<1>3. /\ SubSeq(buf, read + 1, size) \in Seq(StreamCell \cup {Junk})
      /\ Len(SubSeq(buf, read + 1, size)) = IF read + 1 <= size THEN size - (read + 1) + 1 ELSE 0
      /\ \A i \in 1..size - (read + 1) + 1 :
            SubSeq(buf, read + 1, size)[i] = buf[read + 1 + i - 1]
  BY <1>1, <1>2, SubSeqProperties
<1>4. ASSUME NEW i \in 1..size - read PROVE ToHandle[i] = buf[read + i]
  <2>1. i \in 1..size - (read + 1) + 1 /\ read + 1 + i - 1 = read + i
    BY <1>1
  <2>2. QED
    BY <1>3, <2>1 DEF ToHandle
<1>5. Len(ToHandle) = size - read
  BY <1>1, <1>3 DEF ToHandle
<1>6. QED
  BY <1>1, <1>3, <1>4, <1>5 DEF ToHandle

LEMMA AlignedNext ==
    ASSUME TypeOK, Aligned, read < size
    PROVE  \E r, e, rest : NextRecord(r, e, rest)
<1> DEFINE C == StreamCell \cup {Junk}
<1>0. read <= size
  BY CapAssumption DEF TypeOK
<1>1. PICK t \in Seq(C) : /\ t = ToHandle /\ Len(t) = size - read
                          /\ \A i \in 1..size - read : t[i] = buf[read + i]
  BY <1>0, ToHandleIs
<1>2. size \in Nat /\ read \in Nat /\ size <= Cap
  BY <1>0, ToHandleIs
<1>3. PICK n0 \in Seq(C) : n0 = net
  BY SeqMonotonic DEF TypeOK
<1>4. sent \in Seq(Rec) /\ Len(sent) \in Nat /\ Len(handled) \in Nat /\ Len(handled) <= Len(sent)
  BY LenProperties DEF TypeOK, Aligned
<1>5. PICK h \in Nat : h = Len(handled)
  BY <1>4
<1>6. PICK l \in Nat : l = Len(sent)
  BY <1>4
<1>7. PICK recs \in Seq(Rec) : recs = SubSeq(sent, h + 1, l)
  <2>1. \A i \in h + 1..l : sent[i] \in Rec
    <3>1. \A i \in h + 1..l : i \in 1..l
      BY <1>5, <1>6
    <3>2. QED
      BY <1>4, <1>6, <3>1, ElementOfSeq
  <2>2. h + 1 \in Int /\ l \in Int
    BY <1>5, <1>6
  <2>3. SubSeq(sent, h + 1, l) \in Seq(Rec)
    BY <2>1, <2>2, SubSeqProperties
  <2>4. QED
    BY <2>3
<1>8. t \o n0 = Cells(recs)
  BY <1>1, <1>3, <1>5, <1>6, <1>7 DEF Aligned
<1> HIDE DEF C
<1>9. PICK d \in Nat \ {0} : d = size - read
  BY <1>2
<1>10. recs # << >> /\ h < l
  <2>1. SUFFICES ASSUME recs = << >> \/ h >= l PROVE FALSE
    BY <1>5, <1>6
  <2>2. recs = << >>
    BY <1>5, <1>6, <1>7, <2>1, SubSeqEmpty
  <2>3. t \o n0 = << >>
    BY <1>8, <2>2, CellsOfNone
  <2>4. t = << >>
    BY <2>3, ConcatEqualIffEmpty
  <2>5. QED
    BY <1>1, <1>9, <2>4, EmptySeq
<1>11. PICK rest \in Seq(Rec) : rest = SubSeq(sent, h + 2, l) /\ rest = Tail(recs) /\ recs[1] = sent[h + 1]
  <2>1. h + 1 \in 1..l /\ l \in h + 1..l /\ (h + 1) + 1 = h + 2
    BY <1>5, <1>6, <1>10
  <2>2. Head(recs) = sent[h + 1] /\ Tail(recs) = SubSeq(sent, (h + 1) + 1, l)
    BY <1>4, <1>6, <1>7, <2>1, HeadTailOfSubSeq
  <2>3. Tail(recs) \in Seq(Rec) /\ Head(recs) = recs[1]
    BY <1>10, HeadTailProperties
  <2>4. QED
    BY <2>1, <2>2, <2>3
<1>12. PICK r \in Rec : r = sent[h + 1] /\ r = recs[1]
  BY <1>4, <1>5, <1>6, <1>10, <1>11, ElementOfSeq
<1>13. PICK e \in Seq(StreamCell) : e = Encode(r) /\ Len(e) \in Nat \ {0}
  BY RecordCells
<1>14. t \o n0 = e \o Cells(rest)
  BY <1>8, <1>10, <1>11, <1>12, <1>13, CellsFirst
<1>15. PICK f \in Nat \ {0} : f = Len(e)
  BY <1>13
<1>16. PICK all : all = t \o n0
  OBVIOUS
<1>17. \A i \in 1..d : all[i] = t[i]
  BY <1>1, <1>9, <1>16, Joined
<1>18. \A i \in 1..Len(n0) : all[d + i] = n0[i]
  BY <1>1, <1>9, <1>16, Joined
<1>19. (\A i \in 1..f : all[i] = e[i]) /\ Len(all) >= f /\ Len(all) = d + Len(n0) /\ Len(n0) \in Nat
  <2>1. PICK x \in Seq(StreamCell) : x = Cells(rest)
    BY CellsType
  <2>2. Len(e \o x) = Len(e) + Len(x) /\ Len(x) \in Nat /\ \A i \in 1..Len(e) : (e \o x)[i] = e[i]
    BY Joined
  <2>3. Len(t \o n0) = Len(t) + Len(n0) /\ Len(n0) \in Nat
    BY Joined
  <2>4. all = e \o x
    BY <1>14, <1>16, <2>1
  <2>5. QED
    BY <1>1, <1>9, <1>15, <1>16, <2>2, <2>3, <2>4
<1>20. ASSUME NEW i \in Nat, i < f, read + 1 + i <= size
       PROVE  Cell(i) = e[1 + i]
  <2>1. 1 + i \in 1..d /\ 1 + i \in 1..f /\ read + (1 + i) = read + 1 + i
    BY <1>2, <1>9, <1>15, <1>20
  <2>2. Cell(i) = buf[read + 1 + i]
    BY <1>20, CellReceived
  <2>3. t[1 + i] = buf[read + (1 + i)]
    BY <1>1, <1>9, <2>1
  <2>4. all[1 + i] = t[1 + i] /\ all[1 + i] = e[1 + i]
    BY <1>17, <1>19, <2>1
  <2>5. QED
    BY <2>1, <2>2, <2>3, <2>4
<1>21. ASSUME d < f
       PROVE  net # << >> /\ Head(net) = e[d + 1]
  <2>1. Len(n0) >= 1 /\ 1 \in 1..Len(n0) /\ d + 1 \in 1..f
    BY <1>9, <1>15, <1>19, <1>21
  <2>2. n0[1] = e[d + 1]
    BY <1>18, <1>19, <2>1
  <2>3. n0 # << >> /\ Head(n0) = n0[1]
    BY <2>1, EmptySeq
  <2>4. QED
    BY <1>3, <2>2, <2>3
<1>22. NextRecord(r, e, rest)
  BY <1>1, <1>3, <1>5, <1>6, <1>9, <1>10, <1>11, <1>12, <1>13, <1>14, <1>15, <1>20, <1>21 DEF NextRecord
<1>23. QED
  BY <1>22

SameBehind(g, t, n, x) == (g \o t) \o n = g \o x => t \o n = x

LEMMA FrontDropped ==
    ASSUME NEW S, NEW g \in Seq(S), NEW t \in Seq(S), NEW n \in Seq(S), NEW x \in Seq(S)
    PROVE  SameBehind(g, t, n, x)
<1>1. (g \o t) \o n = g \o (t \o n)
  BY ConcatAssociative, SMTT(60)
<1>2. PICK y \in Seq(S) : y = t \o n
  BY ConcatProperties
<1>3. g \o y = g \o x => y = x
  BY ConcatSimplifications
<1>4. QED
  BY <1>1, <1>2, <1>3 DEF SameBehind

(* A record that is all there is passed whole. *)
LEMMA PassedWhole ==
    ASSUME TypeOK, Aligned, read < size, NEW r, NEW e, NEW rest, NextRecord(r, e, rest),
           Len(e) <= size - read, Handled(r, Len(e)),
           UNCHANGED <<sent, net, buf, size, asserted>>
    PROVE  Aligned'
<1>0. PICK f \in Nat \ {0} : f = Len(e)
  BY DEF NextRecord
<1>1. /\ size \in Nat /\ read \in Nat /\ size <= Cap /\ read + f <= size /\ read <= size
      /\ e \in Seq(StreamCell)
  BY <1>0, CapAssumption DEF TypeOK, NextRecord
<1>2. /\ read' = read + f /\ handled' = Append(handled, r) /\ asserted' = asserted /\ ~asserted
      /\ sent' = sent /\ net' = net /\ buf' = buf /\ size' = size
  BY <1>0 DEF Handled, Aligned
<1>c. PICK C : C = StreamCell \cup {Junk}
  OBVIOUS
<1>3. PICK b \in Seq(C) : b = buf /\ Len(b) = Cap
  <2>1. buf \in [1..Cap -> C] /\ Cap \in Nat
    BY <1>c, CapAssumption DEF TypeOK
  <2>2. buf \in Seq(C) /\ Len(buf) = Cap
    BY <2>1
  <2>3. QED
    BY <2>2
<1>4. \A i \in 1..Cap : b[i] \in C
  BY <1>3, ElementOfSeq
<1>5. PICK n0 \in Seq(C) : n0 = net
  BY <1>c, SeqMonotonic DEF TypeOK
<1>6. PICK x \in Seq(C) : x = Cells(rest)
  BY <1>c, CellsType, SeqMonotonic DEF NextRecord
<1>7. PICK g \in Seq(C) : g = e
  BY <1>1, <1>c, SeqMonotonic
<1>a. \A i \in read + f + 1..size : b[i] \in C
  BY <1>0, <1>1, <1>4, CapAssumption
<1>b. \A i \in read + 1..read + f : b[i] \in C
  BY <1>0, <1>1, <1>4, CapAssumption
<1>8. PICK t \in Seq(C) : t = SubSeq(b, read + f + 1, size)
  <2>1. read + f + 1 \in Int /\ size \in Int
    BY <1>0, <1>1
  <2>2. SubSeq(b, read + f + 1, size) \in Seq(C)
    BY <1>a, <2>1, SubSeqProperties
  <2>3. QED
    BY <2>2
<1>9. SubSeq(b, read + 1, read + f) = g
  <2>1. PICK p \in Int : p = read + 1
    BY <1>1
  <2>a. PICK q \in Int : q = read + f
    BY <1>0, <1>1
  <2>b. \A i \in p..q : b[i] \in C
    BY <1>b, <2>1, <2>a
  <2>c. /\ SubSeq(b, p, q) \in Seq(C)
        /\ Len(SubSeq(b, p, q)) = IF p <= q THEN q - p + 1 ELSE 0
        /\ \A i \in 1..q - p + 1 : SubSeq(b, p, q)[i] = b[p + i - 1]
    BY <2>b, SubSeqProperties
  <2>2. q - p + 1 = f /\ p <= q
    BY <1>0, <1>1, <2>1, <2>a
  <2>3. PICK y \in Seq(C) : y = SubSeq(b, p, q)
    BY <2>c
  <2>4. Len(y) = f
    BY <2>c, <2>2, <2>3
  <2>5. ASSUME NEW i \in 1..f PROVE y[i] = g[i]
    <3>1. i \in 1..q - p + 1 /\ p + i - 1 = read + i
      BY <1>0, <1>1, <2>1, <2>2
    <3>2. y[i] = b[read + i]
      BY <2>c, <2>3, <3>1
    <3>3. i - 1 \in Nat /\ i - 1 < f /\ read + 1 + (i - 1) <= size /\ 1 + (i - 1) = i
          /\ read + 1 + (i - 1) = read + i
      BY <1>0, <1>1
    <3>4. Cell(i - 1) = e[1 + (i - 1)]
      BY <1>0, <3>3 DEF NextRecord
    <3>5. Cell(i - 1) = buf[read + 1 + (i - 1)]
      BY <3>3, CellReceived
    <3>6. QED
      BY <1>3, <1>7, <3>2, <3>3, <3>4, <3>5
  <2>6. y = g
    BY <1>0, <1>7, <2>4, <2>5, SeqEqual
  <2>7. QED
    BY <2>1, <2>a, <2>3, <2>6
<1>10. ToHandle = g \o t
  <2>1. read + 1 \in 1..Len(b) + 1 /\ read + f \in (read + 1) - 1..Len(b) /\ size \in read + f..Len(b)
    BY <1>0, <1>1, <1>3, CapAssumption
  <2>2. SubSeq(b, read + 1, read + f) \o SubSeq(b, (read + f) + 1, size) = SubSeq(b, read + 1, size)
    BY <2>1, ConcatAdjacentSubSeq
  <2>3. QED
    BY <1>3, <1>8, <1>9, <2>2 DEF ToHandle
<1>12. t \o n0 = x
  <2>1. (g \o t) \o n0 = g \o x
    BY <1>5, <1>6, <1>7, <1>10 DEF NextRecord
  <2>2. SameBehind(g, t, n0, x)
    BY FrontDropped
  <2>3. QED
    BY <2>1, <2>2 DEF SameBehind
<1>13. ToHandle' = t
  <2>1. ToHandle' = SubSeq(buf', read' + 1, size')
    BY DEF ToHandle
  <2>2. QED
    BY <1>2, <1>3, <1>8, <2>1
<1>14. PICK h \in Nat : h = Len(handled) /\ h < Len(sent) /\ Len(sent) \in Nat
  BY LenProperties DEF TypeOK, NextRecord
<1>15. r = sent[h + 1] /\ rest = SubSeq(sent, h + 2, Len(sent)) /\ handled = SubSeq(sent, 1, h)
  BY <1>14 DEF NextRecord, Aligned
<1>16. Len(handled') = h + 1 /\ handled' = SubSeq(sent, 1, h + 1)
  <2>1. SubSeq(sent, 1, h + 1) = SubSeq(sent, 1, h) \o <<sent[h + 1]>>
    <3>1. 1 \in 1..Len(sent) /\ h + 1 \in 1..Len(sent) /\ (h + 1) - 1 = h
      BY <1>14
    <3>2. sent \in Seq(Rec)
      BY DEF TypeOK
    <3>3. QED
      BY <3>1, <3>2, SubSeqRecursiveSecond
  <2>2. handled \in Seq(Rec \cup {Garbled}) /\ r \in Rec \cup {Garbled}
    BY DEF TypeOK, NextRecord
  <2>3. Append(handled, r) = handled \o <<r>> /\ Len(Append(handled, r)) = Len(handled) + 1
    BY <2>2, AppendIsConcat, AppendProperties
  <2>4. QED
    BY <1>2, <1>14, <1>15, <2>1, <2>3
<1>17. /\ Len(handled') <= Len(sent') /\ handled' = SubSeq(sent', 1, Len(handled'))
       /\ ~asserted' /\ read' <= size'
  BY <1>1, <1>2, <1>14, <1>16
<1>18. ToHandle' \o net' = Cells(SubSeq(sent', Len(handled') + 1, Len(sent')))
  <2>1. (h + 1) + 1 = h + 2
    BY <1>14
  <2>2. QED
    BY <1>2, <1>5, <1>6, <1>12, <1>13, <1>15, <1>16, <2>1
<1>19. QED
  BY <1>17, <1>18 DEF Aligned

(* What is not all there is a body that was cut. *)
LEMMA CutIsBody ==
    ASSUME CutAtRead, cut \subseteq {"text"}, size \in Nat, read \in Nat, read < size,
           NEW r, NEW e, NEW rest, NextRecord(r, e, rest), size - read < Len(e)
    PROVE  /\ net # << >> /\ Head(net).kind = "text" /\ "text" \in cut
           /\ \E m \in Msg : r = Env(m)
           /\ e[size - read + 1].kind = "text"
<1>1. PICK f \in Nat \ {0} : f = Len(e)
  BY DEF NextRecord
<1>2. PICK k \in Nat : k = size - read + 1
  OBVIOUS
<1>3. k \in 1..f /\ k # 1
  BY <1>1, <1>2
<1>4. net # << >> /\ Head(net) = e[k]
  BY <1>2 DEF NextRecord
<1>5. e[k].kind \notin Starts
  <2>1. e = Encode(r) /\ r \in Rec
    BY DEF NextRecord
  <2>2. QED
    BY <1>1, <1>3, <2>1, RecordCells
<1>6. Head(net).kind = "text" /\ "text" \in cut
  BY <1>4, <1>5 DEF CutAtRead
<1>7. r # Preamble
  <2> SUFFICES ASSUME r = Preamble PROVE FALSE
    OBVIOUS
  <2>1. e = Encode(Preamble)
    BY DEF NextRecord
  <2>2. e[k].kind \in InPreamble
    BY <1>1, <1>3, <2>1, PreambleIsRecord, RecordCells
  <2>3. QED
    BY <1>4, <1>6, <2>2 DEF InPreamble
<1>8. r # EndRec
  <2> SUFFICES ASSUME r = EndRec PROVE FALSE
    OBVIOUS
  <2>1. e = <<Plain("end")>>
    BY EndCells DEF NextRecord
  <2>2. Len(e) = 1
    BY <2>1
  <2>3. QED
    BY <1>1, <1>3, <2>2
<1>9. \E m \in Msg : r = Env(m)
  BY <1>7, <1>8 DEF NextRecord, Rec
<1>10. QED
  BY <1>2, <1>4, <1>6, <1>9

(* Of an envelope whose size is there, ProcessRequest takes that size. *)
LEMMA EnvelopeSize ==
    ASSUME TypeOK, read < size, NEW m \in Msg, NEW e, NEW b, NEW rest, EnvelopeShape(m, e, b),
           NextRecord(Env(m), e, rest), 1 + Len(b) <= size - read
    PROVE  /\ Len(b) \in 1..Cap /\ SizedBy(0, Len(b))
           /\ \A n \in 1..Cap : SizedBy(0, n) => n = Len(b)
           /\ SizeAt(0, Len(b)) = TextLen[m]
<1>1. PICK c \in Nat \ {0} : c = Len(b)
  BY DEF EnvelopeShape
<1>2. size \in Nat /\ read \in Nat /\ size <= Cap
  BY CapAssumption DEF TypeOK
<1>3. PICK t \in Nat \ {0} : t = TextLen[m] /\ t \in 0..Word - 1
  BY DEF EnvelopeShape
<1>4. /\ Len(e) = 1 + c + t /\ \A i \in 1..c : e[1 + i] = Digit("size", b[i])
      /\ b = EncodePackedInt(t)
  BY <1>1, <1>3 DEF EnvelopeShape
<1>5. ASSUME NEW i \in 1..c
      PROVE  Cell(i).kind \in DigitKinds /\ Cell(i).byte = b[i]
  <2>1. i \in Nat /\ i < Len(e) /\ read + 1 + i <= size
    BY <1>1, <1>2, <1>3, <1>4
  <2>2. Cell(i) = e[1 + i]
    BY <2>1 DEF NextRecord
  <2>3. Cell(i) = Digit("size", b[i])
    BY <1>4, <2>2
  <2>4. QED
    BY <2>3, CellKinds DEF DigitKinds
<1>6. PICK z \in Nat : z = 0
  OBVIOUS
<1>7. \A k \in 1..Len(b) : Cell(z + k).kind \in DigitKinds /\ Cell(z + k).byte = b[k]
  <2> TAKE k \in 1..Len(b)
  <2>1. z + k = k /\ k \in 1..c
    BY <1>1, <1>6
  <2>2. QED
    BY <1>5, <2>1
<1>8. t \in 0..Word - 1 /\ b = EncodePackedInt(t) /\ Len(b) <= Cap
  BY <1>1, <1>2, <1>3, <1>4, CapAssumption
<1>9. /\ Len(b) \in 1..Cap /\ SizedBy(z, Len(b))
      /\ \A n \in 1..Cap : SizedBy(z, n) => n = Len(b)
      /\ SizeAt(z, Len(b)) = t
  BY <1>7, <1>8, SizeIsTaken
<1>10. QED
  BY <1>3, <1>6, <1>9

LEMMA AlignedIsLast ==
    ASSUME TypeOK, Aligned
    PROVE  \A i \in 1..Len(handled) : handled[i] # Garbled
<1>1. PICK h \in Nat : h = Len(handled) /\ h <= Len(sent) /\ handled = SubSeq(sent, 1, h)
  BY LenProperties DEF TypeOK, Aligned
<1>2. sent \in Seq(Rec) /\ Len(sent) \in Nat
  BY LenProperties DEF TypeOK
<1>3. \A i \in 1..h : sent[i] \in Rec
  <2>1. \A i \in 1..h : i \in 1..Len(sent)
    BY <1>1, <1>2
  <2>2. QED
    BY <1>2, <2>1, ElementOfSeq
<1>4. \A i \in 1..h : handled[i] = sent[i]
  <2>1. \A i \in 1..h - 1 + 1 : SubSeq(sent, 1, h)[i] = sent[1 + i - 1]
    BY <1>1, <1>3, SubSeqProperties
  <2>2. QED
    BY <1>1, <2>1
<1>5. QED
  BY <1>1, <1>3, <1>4, RecordKinds

LEMMA FirstCellKind ==
    ASSUME TypeOK, read < size, NEW r, NEW e, NEW rest, NextRecord(r, e, rest)
    PROVE  \/ r = Preamble /\ Values(Cell(0)) = {0}
           \/ (\E m \in Msg : r = Env(m)) /\ Values(Cell(0)) = {6}
           \/ r = EndRec /\ Values(Cell(0)) = {7}
<1>1. 0 < Len(e) /\ read + 1 + 0 <= size /\ 1 + 0 = 1 /\ 1 \in 1..Len(e)
  BY CapAssumption DEF TypeOK, NextRecord
<1>2. Cell(0) = e[1 + 0]
  BY <1>1 DEF NextRecord
<1>3. Cell(0) = e[1] /\ r \in Rec /\ e = Encode(r)
  BY <1>1, <1>2 DEF NextRecord
<1>4. CASE r = Preamble
  <2>1. Cell(0).kind = "version"
    BY <1>1, <1>3, <1>4, RecordCells
  <2>2. Values(Cell(0)) = {0}
    BY <2>1, CellValues
  <2>3. QED
    BY <1>4, <2>2
<1>5. CASE r = EndRec
  <2>1. Cell(0) = Plain("end")
    BY <1>3, <1>5, EndCells
  <2>2. Cell(0).kind = "end"
    BY <2>1, CellKinds
  <2>3. Values(Cell(0)) = {7}
    BY <2>2, CellValues
  <2>4. QED
    BY <1>5, <2>3
<1>6. ASSUME NEW m \in Msg, r = Env(m) PROVE Values(Cell(0)) = {6}
  <2>1. PICK x, b : EnvelopeShape(m, x, b)
    BY EnvelopeCells
  <2>2. Cell(0) = Plain("sized")
    BY <1>3, <1>6, <2>1 DEF EnvelopeShape
  <2>3. Cell(0).kind = "sized"
    BY <2>2, CellKinds
  <2>4. QED
    BY <2>3, CellValues
<1>7. QED
  BY <1>3, <1>4, <1>5, <1>6 DEF Rec

(* While reads have ended only between records or in a body, the handlers  *)
(* pass the next record whole, or the start of a body that was cut.        *)
LEMMA HandlersKeepStep ==
    ASSUME TypeOK, CutAtRead, cut \subseteq {"text"}, Aligned, OnRead
    PROVE  Aligned' \/ BodyCut'
<1>1. OnReadStep
  BY OnReadIsStep
<1>2. /\ read < size /\ read \in Nat /\ size \in Nat /\ size <= Cap
      /\ sent' = sent /\ net' = net /\ buf' = buf /\ size' = size /\ cut' = cut
  BY <1>1, CapAssumption DEF OnReadStep, TypeOK
<1>3. PICK r, e, rest : NextRecord(r, e, rest)
  BY <1>2, AlignedNext
<1>4. PICK f \in Nat \ {0} : f = Len(e)
  BY <1>3 DEF NextRecord
<1>5. PICK d \in Nat \ {0} : d = size - read
  BY <1>2
<1>6. \/ r = Preamble /\ Values(Cell(0)) = {0}
      \/ (\E m \in Msg : r = Env(m)) /\ Values(Cell(0)) = {6}
      \/ r = EndRec /\ Values(Cell(0)) = {7}
  BY <1>2, <1>3, FirstCellKind
<1>7. d < f => \E m \in Msg : r = Env(m)
  BY <1>2, <1>3, <1>4, <1>5, CutIsBody
<1>8. \A m \in Msg : Env(m) # Preamble /\ Env(m) # EndRec
  BY DEF Env, Preamble, EndRec
<1>9. f <= d /\ Handled(r, f) /\ asserted' = asserted => Aligned'
  BY <1>2, <1>3, <1>4, <1>5, PassedWhole
<1>10. CASE r = Preamble
  <2>1. PICK x, b : PreambleShape(x, b)
    BY PreambleCells
  <2>2. x = e
    BY <1>3, <1>10, <2>1 DEF PreambleShape, NextRecord
  <2>3. f <= d
    BY <1>4, <1>5, <1>7, <1>8, <1>10
  <2>4. Whole(e)
    <3>1. \A i \in Nat : i < Len(e) /\ read + 1 + i <= size => Cell(i) = e[1 + i]
      BY <1>3 DEF NextRecord
    <3>2. \A k \in Nat : k < Len(e) => read + 1 + k <= size
      BY <1>2, <1>4, <1>5, <2>3
    <3>3. QED
      BY <3>1, <3>2 DEF Whole
  <2>5. Len(e) <= Cap
    BY <1>2, <1>4, <1>5, <2>3, CapAssumption
  <2>6. PreambleShape(e, b)
    BY <2>1, <2>2
  <2>7. Handled(Preamble, Len(e)) /\ asserted' = asserted
    BY <2>4, <2>5, <2>6, PreambleIsTaken
  <2>8. QED
    BY <1>4, <1>9, <1>10, <2>3, <2>7
<1>11. ProcessHeader \/ ProcessHeaderAsserts => r = Preamble
  BY <1>6 DEF ProcessHeader, ProcessHeaderAsserts, Dispatch
<1>13. ASSUME NEW m \in Msg, r = Env(m)
       PROVE  \E c \in Nat : /\ c \in 1..Cap /\ SizedBy(0, c) /\ \A n \in 1..Cap : SizedBy(0, n) => n = c
                             /\ SizeAt(0, c) = TextLen[m]
                             /\ f = 1 + c + TextLen[m] /\ TextLen[m] \in Nat \ {0}
                             /\ f <= d => \A k \in 1..TextLen[m] : Cell(c + k) = Text(m, k)
  <2>1. PICK x, b : EnvelopeShape(m, x, b)
    BY EnvelopeCells
  <2>2. x = e /\ NextRecord(Env(m), e, rest)
    BY <1>3, <1>13, <2>1 DEF EnvelopeShape, NextRecord
  <2>3. EnvelopeShape(m, e, b)
    BY <2>1, <2>2
  <2>4. PICK c \in Nat \ {0} : c = Len(b)
    BY <2>3 DEF EnvelopeShape
  <2>5. PICK t \in Nat \ {0} : t = TextLen[m]
    BY <2>3 DEF EnvelopeShape
  <2>6. /\ f = 1 + c + t /\ e[1] = Plain("sized")
        /\ \A i \in 1..c : e[1 + i] = Digit("size", b[i])
        /\ \A i \in 1..t : e[1 + c + i] = Text(m, i)
    BY <1>4, <2>3, <2>4, <2>5 DEF EnvelopeShape
  <2>7. 1 + c <= d
    <3> SUFFICES ASSUME d < 1 + c PROVE FALSE
      BY <1>5, <2>4
    <3>1. d < f /\ d \in 1..c
      BY <1>5, <2>4, <2>5, <2>6
    <3>2. e[size - read + 1].kind = "text"
      BY <1>2, <1>3, <1>4, <1>5, <3>1, CutIsBody
    <3>3. e[d + 1].kind = "text"
      BY <1>5, <3>2
    <3>4. d + 1 = 1 + d /\ e[1 + d] = Digit("size", b[d])
      BY <1>5, <2>6, <3>1
    <3>5. Digit("size", b[d]).kind = "size"
      BY CellKinds
    <3>6. QED
      BY <3>3, <3>4, <3>5
  <2>8. /\ c \in 1..Cap /\ SizedBy(0, c)
        /\ \A n \in 1..Cap : SizedBy(0, n) => n = c
        /\ SizeAt(0, c) = t
    BY <1>2, <1>5, <2>2, <2>3, <2>4, <2>5, <2>7, EnvelopeSize
  <2>9. ASSUME f <= d, NEW k \in 1..t PROVE Cell(c + k) = Text(m, k)
    <3>1. c + k \in Nat /\ c + k < f /\ read + 1 + (c + k) <= size /\ 1 + (c + k) = 1 + c + k
      BY <1>2, <1>5, <2>4, <2>5, <2>6, <2>9
    <3>2. Cell(c + k) = e[1 + (c + k)]
      BY <1>3, <1>4, <3>1 DEF NextRecord
    <3>3. QED
      BY <2>6, <2>9, <3>1, <3>2
  <2>10. QED
    BY <2>5, <2>6, <2>8, <2>9
<1>14. CASE ProcessRequest
  <2>1. PICK m \in Msg : r = Env(m)
    BY <1>6, <1>14 DEF ProcessRequest, Dispatch
  <2>2. PICK c \in Nat : /\ c \in 1..Cap /\ SizedBy(0, c) /\ \A n \in 1..Cap : SizedBy(0, n) => n = c
                         /\ SizeAt(0, c) = TextLen[m]
                         /\ f = 1 + c + TextLen[m] /\ TextLen[m] \in Nat \ {0}
                         /\ f <= d => \A k \in 1..TextLen[m] : Cell(c + k) = Text(m, k)
    BY <1>13, <2>1
  <2>3. PICK t \in Nat \ {0} : t = TextLen[m]
    BY <2>2
  <2>4. Handled(GetData(c, t), f) /\ asserted' = asserted
    <3>1. PICK n \in 1..Cap : /\ SizedBy(0, n)
                              /\ Handled(GetData(n, SizeAt(0, n)), 1 + n + SizeAt(0, n))
      BY <1>14 DEF ProcessRequest
    <3>2. n = c
      BY <2>2, <3>1
    <3>3. Handled(GetData(c, t), 1 + c + t)
      BY <2>2, <2>3, <3>1, <3>2
    <3>4. asserted' = asserted
      BY <1>14 DEF ProcessRequest
    <3>5. QED
      BY <2>2, <2>3, <3>3, <3>4
  <2>5. CASE f <= d
    <3>1. \A k \in 1..t : Cell(c + k) = Text(m, k)
      BY <2>2, <2>3, <2>5
    <3>2. Cell(c + 1).of = m
      <4>1. 1 \in 1..t
        BY <2>3
      <4>2. Cell(c + 1) = Text(m, 1)
        BY <3>1, <4>1
      <4>3. QED
        BY <4>2 DEF Text
    <3>3. GetData(c, t) = Env(m)
      BY <2>3, <3>1, <3>2 DEF GetData
    <3>4. QED
      BY <1>9, <2>1, <2>4, <2>5, <3>3
  <2>6. CASE d < f
    <3>1. net # << >> /\ Head(net).kind = "text" /\ "text" \in cut
      BY <1>2, <1>3, <1>4, <1>5, <2>6, CutIsBody
    <3>2. read' >= size'
      <4>1. read' = read + f
        BY <2>4 DEF Handled
      <4>2. QED
        BY <1>2, <1>4, <1>5, <2>6, <4>1
    <3>3. GarbledIsLast'
      <4>1. handled' = Append(handled, GetData(c, t))
        BY <2>4 DEF Handled
      <4>2. \A i \in 1..Len(handled) : handled[i] # Garbled
        BY AlignedIsLast
      <4>3. handled \in Seq(Rec \cup {Garbled}) /\ GetData(c, t) \in Rec \cup {Garbled}
        BY <2>2, <2>3, GetDataIsRecord DEF TypeOK, Rec
      <4>4. PICK h \in Nat : h = Len(handled)
        BY <4>3, LenProperties
      <4>5. Len(handled') = h + 1 /\ \A i \in 1..h : handled'[i] = handled[i]
        BY <4>1, <4>3, <4>4, AppendProperties
      <4>6. \A i \in 1..h + 1 : i \in 1..h \/ i = h + 1
        BY <4>4
      <4>7. QED
        BY <4>2, <4>4, <4>5, <4>6 DEF GarbledIsLast
    <3>4. BodyCut'
      BY <1>2, <3>1, <3>2, <3>3 DEF BodyCut
    <3>5. QED
      BY <3>4
  <2>7. QED
    BY <1>4, <1>5, <2>5, <2>6
<1>15. CASE ProcessRequestUnsized
  <2>1. PICK m \in Msg : r = Env(m)
    BY <1>6, <1>15 DEF ProcessRequestUnsized, Dispatch
  <2>2. \E c \in 1..Cap : SizedBy(0, c)
    BY <1>13, <2>1
  <2>3. QED
    BY <1>15, <2>2 DEF ProcessRequestUnsized, HasSize
<1>16. CASE ProcessEnd
  <2>1. r = EndRec /\ Handled(EndRec, 1) /\ asserted' = asserted
    BY <1>6, <1>16 DEF ProcessEnd, Dispatch
  <2>2. e = <<Plain("end")>>
    BY <1>3, <2>1, EndCells DEF NextRecord
  <2>3. f = 1
    BY <1>4, <2>2
  <2>4. QED
    BY <1>5, <1>9, <2>1, <2>3
<1>17. CASE UnknownType
  BY <1>6, <1>17 DEF UnknownType
<1>18. QED
  BY <1>10, <1>11, <1>14, <1>15, <1>16, <1>17 DEF OnRead

LEMMA PeerKeepsStep ==
    ASSUME TypeOK, Aligned, PeerStep
    PROVE  Aligned'
<1>1. PICK r \in Rec : /\ sent' = Append(sent, r) /\ net' = net \o Encode(r)
                       /\ UNCHANGED <<buf, size, read, handled, asserted>>
  BY PeerStepFacts
<1>2. sent \in Seq(Rec)
  BY DEF TypeOK
<1>3. PICK l \in Nat : l = Len(sent)
  BY <1>2, LenProperties
<1>4. PICK h \in Nat : h = Len(handled) /\ h <= l /\ handled = SubSeq(sent, 1, h)
  BY <1>3, LenProperties DEF TypeOK, Aligned
<1>5. PICK more \in Seq(Rec) : more = Append(sent, r)
  BY <1>2, AppendProperties
<1>6. Len(more) = l + 1 /\ more[l + 1] = r /\ \A i \in 1..l : more[i] = sent[i]
  BY <1>2, <1>3, <1>5, AppendProperties
<1>7. more = sent \o <<r>> /\ <<r>> \in Seq(Rec)
  BY <1>2, <1>5, AppendIsConcat
<1>8. SubSeq(more, 1, h) = SubSeq(sent, 1, h)
  <2>1. CASE h = 0
    BY <2>1, SubSeqEmpty
  <2>2. CASE h > 0
    <3>1. 1 \in 1..Len(sent) /\ h \in 1..Len(sent)
      BY <1>3, <1>4, <2>2
    <3>2. QED
      BY <1>2, <1>7, <3>1, SubSeqOfConcat1
  <2>3. QED
    BY <1>4, <2>1, <2>2
<1>9. PICK recs \in Seq(Rec) : recs = SubSeq(sent, h + 1, l)
  <2>1. \A i \in h + 1..l : i \in 1..l
    BY <1>3, <1>4
  <2>2. \A i \in h + 1..l : sent[i] \in Rec
    BY <1>2, <1>3, <2>1, ElementOfSeq
  <2>3. PICK p \in Int : p = h + 1
    BY <1>4
  <2>4. SubSeq(sent, p, l) \in Seq(Rec)
    BY <1>3, <2>2, <2>3, SubSeqProperties
  <2>5. QED
    BY <2>3, <2>4
<1>10. SubSeq(more, h + 1, l + 1) = Append(recs, r)
  <2>1. h + 1 \in 1..Len(more) /\ l + 1 \in h + 1..Len(more) /\ (l + 1) - 1 = l
    BY <1>3, <1>4, <1>6
  <2>2. SubSeq(more, h + 1, l + 1) = SubSeq(more, h + 1, (l + 1) - 1) \o <<more[l + 1]>>
    BY <2>1, SubSeqRecursiveSecond
  <2>3. SubSeq(more, h + 1, l) = SubSeq(sent, h + 1, l)
    <3>1. CASE h = l
      BY <1>3, <3>1, SubSeqEmpty
    <3>2. CASE h < l
      <4>1. h + 1 \in 1..Len(sent) /\ l \in 1..Len(sent)
        BY <1>3, <1>4, <3>2
      <4>2. QED
        BY <1>2, <1>7, <4>1, SubSeqOfConcat1
    <3>3. QED
      BY <1>3, <1>4, <3>1, <3>2
  <2>4. Append(recs, r) = recs \o <<r>>
    BY AppendIsConcat
  <2>5. QED
    BY <1>6, <1>9, <2>1, <2>2, <2>3, <2>4
<1>11. Cells(SubSeq(more, h + 1, l + 1)) = Cells(recs) \o Encode(r)
  BY <1>10, CellsAppend
<1>12. PICK C : C = StreamCell \cup {Junk}
  OBVIOUS
<1>13. PICK t \in Seq(C) : t = ToHandle
  BY <1>12, ToHandleIs DEF Aligned
<1>14. PICK n0 \in Seq(C) : n0 = net
  BY <1>12, SeqMonotonic DEF TypeOK
<1>15. PICK e \in Seq(C) : e = Encode(r)
  BY <1>12, RecordCells, SeqMonotonic
<1>16. t \o n0 = Cells(recs)
  BY <1>3, <1>4, <1>9, <1>13, <1>14 DEF Aligned
<1>17. (t \o n0) \o e = t \o (n0 \o e)
  BY ConcatAssociative, SMTT(60)
<1>18. ToHandle' = t
  BY <1>1, <1>13 DEF ToHandle
<1>19. ToHandle' \o net' = Cells(SubSeq(more, h + 1, l + 1))
  BY <1>1, <1>11, <1>14, <1>15, <1>16, <1>17, <1>18
<1>20. sent' = more /\ Len(handled') = h /\ Len(sent') = l + 1 /\ handled' = handled
       /\ ~asserted' /\ read' <= size' /\ h <= l + 1
  BY <1>1, <1>3, <1>4, <1>5, <1>6 DEF Aligned
<1>21. QED
  BY <1>4, <1>8, <1>19, <1>20 DEF Aligned

LEMMA ReadKeepsStep ==
    ASSUME TypeOK, Aligned, Receives
    PROVE  Aligned'
<1>1. PICK n \in 1..Len(net) :
              /\ read >= size /\ n \in 0..Cap
              /\ ToHandle' = Received'
              /\ Received' \o net' = net
              /\ size' = n /\ read' = 0
              /\ UNCHANGED <<sent, handled, asserted>>
  BY ReceiveStep
<1>2. read = size
  BY <1>1, CapAssumption DEF TypeOK, Aligned
<1>3. ToHandle = << >>
  <2>1. size \in Nat /\ size + 1 \in Int /\ size \in Int /\ size < size + 1
    BY CapAssumption DEF TypeOK
  <2>2. SubSeq(buf, size + 1, size) = << >>
    BY <2>1, SubSeqEmpty
  <2>3. QED
    BY <1>2, <2>2 DEF ToHandle
<1>4. ToHandle \o net = net
  <2>1. net \in Seq(StreamCell)
    BY DEF TypeOK
  <2>2. << >> \o net = net
    BY <2>1, ConcatEmptySeq
  <2>3. QED
    BY <1>3, <2>2
<1>5. net = Cells(SubSeq(sent, Len(handled) + 1, Len(sent)))
  BY <1>4 DEF Aligned
<1>6. ToHandle' \o net' = Cells(SubSeq(sent', Len(handled') + 1, Len(sent')))
  BY <1>1, <1>5
<1>7. read' <= size'
  BY <1>1, CapAssumption
<1>8. QED
  BY <1>1, <1>6, <1>7 DEF Aligned

(* Over the rest of a cut body nothing but the end of the connection.      *)
LEMMA BodyCutStep ==
    ASSUME TypeOK, BodyCut, [Next]_vars
    PROVE  BodyCut'
<1>1. net \in Seq(StreamCell) /\ size \in Nat /\ read \in Nat /\ size <= Cap
  BY CapAssumption DEF TypeOK
<1>2. CASE PeerStep
  <2>1. PICK r \in Rec : /\ net' = net \o Encode(r)
                         /\ UNCHANGED <<buf, size, read, handled, stop, cut>>
    BY <1>2, PeerStepFacts
  <2>2. net # << >> => net' # << >> /\ Head(net') = Head(net)
    <3> SUFFICES ASSUME net # << >> PROVE net' # << >> /\ Head(net') = Head(net)
      OBVIOUS
    <3>1. PICK e \in Seq(StreamCell) : e = Encode(r)
      BY RecordCells
    <3>2. Len(net) \in Nat \ {0} /\ 1 \in 1..Len(net)
      BY <1>1, EmptySeq
    <3>3. Len(net \o e) = Len(net) + Len(e) /\ Len(e) \in Nat /\ (net \o e)[1] = net[1]
          /\ net \o e \in Seq(StreamCell)
      BY <1>1, <3>2, Joined
    <3>4. Len(net \o e) # 0
      BY <3>2, <3>3
    <3>5. net \o e # << >>
      BY <3>4, EmptySeq
    <3>6. Head(net \o e) = (net \o e)[1] /\ Head(net) = net[1]
      BY <3>5, HeadTailProperties
    <3>7. QED
      BY <2>1, <3>1, <3>3, <3>5, <3>6
  <2>3. QED
    BY <2>1, <2>2 DEF BodyCut, GarbledIsLast
<1>3. CASE Receives
  <2>1. PICK n \in 1..Len(net) :
              /\ n \in 0..Cap /\ read >= size /\ ~stop
              /\ \A i \in 1..Cap : buf'[i] = IF i <= n THEN net[i] ELSE buf[i]
              /\ size' = n /\ read' = 0 /\ cut \subseteq cut'
              /\ UNCHANGED <<handled, stop>>
    BY <1>3, ReceiveStep
  <2>2. net # << >> /\ Head(net).kind = "text"
    BY <1>1, <2>1 DEF BodyCut
  <2>3. Head(net) = net[1] /\ Len(net) \in Nat
    BY <1>1, <2>2, LenProperties
  <2>4. 1 \in 1..Cap /\ 1 <= n /\ n > 0
    BY <2>1, <2>3, CapAssumption
  <2>5. buf'[1] = net[1]
    BY <2>1, <2>4
  <2>6. QED
    BY <2>1, <2>2, <2>3, <2>4, <2>5 DEF BodyCut, GarbledIsLast
<1>4. CASE RunReturns \/ UNCHANGED vars
  <2>1. UNCHANGED <<net, buf, size, read, handled, stop, cut>>
    BY <1>4 DEF RunReturns, vars
  <2>2. QED
    BY <2>1 DEF BodyCut, GarbledIsLast
<1>5. CASE OnRead
  <2>1. OnReadStep
    BY <1>5, OnReadIsStep
  <2>2. read < size /\ ~(read >= size)
    BY <1>1, <2>1 DEF OnReadStep
  <2>3. "text" \in cut /\ GarbledIsLast /\ read = 0 /\ buf[1].kind = "text"
    BY <2>2 DEF BodyCut
  <2>4. Cell(0) = buf[1]
    <3>1. read + 1 + 0 <= size /\ read + 1 + 0 = 1
      BY <1>1, <2>2, <2>3
    <3>2. QED
      BY <3>1, CellReceived
  <2>5. UnknownType
    <3>1. Values(Cell(0)) = {32}
      BY <2>3, <2>4, CellValues
    <3>2. QED
      BY <1>5, <3>1 DEF OnRead, ProcessHeader, ProcessHeaderAsserts, ProcessRequest,
         ProcessRequestUnsized, ProcessEnd, Dispatch
  <2>6. stop' = TRUE /\ read' = size /\ UNCHANGED <<size, handled, cut>>
    BY <2>5 DEF UnknownType
  <2>7. read' >= size'
    BY <1>1, <2>6
  <2>8. QED
    BY <2>3, <2>6, <2>7 DEF BodyCut, GarbledIsLast
<1>6. QED
  BY <1>2, <1>3, <1>4, <1>5 DEF Next

LEMMA AlignedStep ==
    ASSUME TypeOK, CutAtRead, cut \subseteq {"text"}, Aligned, [Next]_vars
    PROVE  Aligned' \/ BodyCut'
<1>1. CASE RunReturns \/ UNCHANGED vars
  <2>1. UNCHANGED <<sent, net, buf, size, read, handled, asserted>>
    BY <1>1 DEF RunReturns, vars
  <2>2. ToHandle' = ToHandle
    BY <2>1 DEF ToHandle
  <2>3. QED
    BY <2>1, <2>2 DEF Aligned
<1>2. QED
  BY <1>1, PeerKeepsStep, ReadKeepsStep, HandlersKeepStep DEF Next

LEMMA CutsStay ==
    ASSUME TypeOK, [Next]_vars
    PROVE  cut \subseteq cut'
BY PeerStepFacts, ReceiveStep, OnReadIsStep DEF Next, RunReturns, OnReadStep, vars

LEMMA FrameInit == Init => FrameInv
<1> SUFFICES ASSUME Init PROVE FrameInv
  OBVIOUS
<1>1. /\ sent = << >> /\ net = << >> /\ handled = << >> /\ size = 0 /\ read = 0
      /\ buf = [i \in 1..Cap |-> Junk] /\ bound = "no" /\ stop = FALSE
      /\ running = TRUE /\ asserted = FALSE /\ cut = {}
  BY DEF Init
<1>2. Len(<< >>) = 0
  OBVIOUS
<1>3. TypeOK
  <2>1. << >> \in Seq(Rec) /\ << >> \in Seq(Rec \cup {Garbled}) /\ << >> \in Seq(StreamCell)
    BY EmptySeq
  <2>2. buf \in [1..Cap -> StreamCell \cup {Junk}]
    BY <1>1
  <2>3. size \in 0..Cap /\ read \in Nat
    BY <1>1, CapAssumption
  <2>4. {stop, running, asserted} \subseteq BOOLEAN /\ bound \in {"no", "asked", "other"}
    BY <1>1
  <2>5. QED
    BY <1>1, <2>1, <2>2, <2>3, <2>4 DEF TypeOK
<1>4. ~Acknowledged
  BY <1>1, <1>2 DEF Acknowledged
<1>5. PreambleFirst /\ CutAtRead
  BY <1>1, <1>2 DEF PreambleFirst, CutAtRead
<1>6. \A s : SubSeq(s, 1, 0) = << >>
  BY SubSeqEmpty
<1>7. << >> \o << >> = << >>
  OBVIOUS
<1>8. PreambleAhead
  <2>1. Received \o net = << >>
    BY <1>1, <1>6, <1>7 DEF Received
  <2>2. QED
    BY <1>1, <2>1 DEF PreambleAhead
<1>9. Aligned
  <2>1. ToHandle \o net = << >> /\ SubSeq(sent, Len(handled) + 1, Len(sent)) = << >>
    BY <1>1, <1>2, <1>6, <1>7 DEF ToHandle
  <2>2. handled = SubSeq(sent, 1, Len(handled))
    BY <1>1, <1>2, <1>6
  <2>3. Cells(SubSeq(sent, Len(handled) + 1, Len(sent))) = << >>
    BY <2>1, CellsOfNone
  <2>4. Len(handled) <= Len(sent) /\ read <= size /\ ~asserted
    BY <1>1, <1>2
  <2>5. QED
    BY <2>1, <2>2, <2>3, <2>4 DEF Aligned
<1>10. QED
  BY <1>1, <1>3, <1>4, <1>5, <1>8, <1>9 DEF FrameInv

LEMMA FrameStep == FrameInv /\ [Next]_vars => FrameInv'
<1> SUFFICES ASSUME FrameInv, [Next]_vars PROVE FrameInv'
  OBVIOUS
<1>1. /\ TypeOK /\ PreambleFirst /\ CutAtRead
      /\ Acknowledged => bound # "no"
      /\ cut \cap InPreamble = {} => PreambleAhead \/ PreamblePassed
      /\ cut \subseteq {"text"} => Aligned \/ BodyCut
  BY DEF FrameInv
<1>2. TypeOK' /\ PreambleFirst' /\ CutAtRead'
  BY <1>1, TypeStep, PreambleFirstStep, CutAtReadStep
<1>3. cut \subseteq cut'
  BY <1>1, CutsStay
<1>4. Acknowledged' => bound' # "no"
  BY <1>1, BoundStep
<1>5. cut' \cap InPreamble = {} => (PreambleAhead \/ PreamblePassed)'
  <2>1. cut' \cap InPreamble = {} => cut \cap InPreamble = {}
    BY <1>3
  <2>2. QED
    BY <1>1, <2>1, PreambleStep
<1>6. cut' \subseteq {"text"} => Aligned' \/ BodyCut'
  BY <1>1, <1>3, AlignedStep, BodyCutStep
<1>7. QED
  BY <1>2, <1>4, <1>5, <1>6 DEF FrameInv, InPreamble

-----------------------------------------------------------------------------

(* Whatever the peer sends and wherever reads end: a client that was       *)
(* acknowledged is bound to some name.  If no read ended inside its        *)
(* preamble, it was bound just when it was acknowledged, once, and to the  *)
(* name it asked for; and if none ended outside of a body, the handlers    *)
(* are in step with the records (SoapTcpFrame::OnRead, ProcessHeader).     *)
THEOREM FrameInvariant == Spec => []FrameInv
<1>1. QED
  BY FrameInit, FrameStep, PTL DEF Spec

(* As long as no read ends inside a record, the handlers see exactly what  *)
(* the peer sent, in order, and no assert of a record check fails          *)
(* (SoapTcpFrame::ProcessHeader, ProcessRequest, ProcessEnd).              *)
THEOREM WholeReadsAreHandledExactly == Spec => []WholeReadsAreExact
<1>1. FrameInv => WholeReadsAreExact
  BY DEF FrameInv, WholeReadsAreExact, Aligned, BodyCut
<1>2. QED
  BY <1>1, FrameInvariant, PTL

(* While reads end only between records or inside a body, what the handlers*)
(* take for a record and is none is the last they take: the rest of the    *)
(* body ends the connection (SoapTcpFrame::OnRead, its unknown types).     *)
THEOREM CutBodiesEndIt == Spec => []CutBodyIsLast
<1>1. FrameInv => CutBodyIsLast
  <2> SUFFICES ASSUME FrameInv, cut \subseteq {"text"} PROVE GarbledIsLast
    BY DEF CutBodyIsLast
  <2>1. TypeOK /\ (Aligned \/ BodyCut)
    BY DEF FrameInv
  <2>2. QED
    BY <2>1, AlignedIsLast DEF GarbledIsLast, BodyCut
<1>2. QED
  BY <1>1, FrameInvariant, PTL
=============================================================================
