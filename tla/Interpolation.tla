---------------------------- MODULE Interpolation ----------------------------
(****************************************************************************)
(* The mathematics that secret sharing rests on, for every prime and every  *)
(* number of points: what a fold over a finite set computes, the laws of    *)
(* the field, and Lagrange interpolation through the points of a polynomial *)
(* with the operators of Sharing.                                           *)
(*                                                                          *)
(* Induction is by the least counterexample: of a non-empty set of subsets  *)
(* of a finite set one has no other of them within it (LeastSubset).        *)
(****************************************************************************)
EXTENDS Sharing, FiniteSetTheorems, TLAPS

\* Induction over the subsets of a finite set, as the existence of a least one.
LEMMA LeastSubset ==
  ASSUME NEW S, IsFiniteSet(S), NEW T, T \subseteq SUBSET S, T # {}
  PROVE  \E s \in T : \A u \in T : ~(u \subseteq s /\ u # s)
<1>1. IsWellFoundedOn(StrictSubsetOrdering(S), FiniteSubsetsOf(S))
  BY FS_StrictSubsetOrderingWellFounded
<1>2. FiniteSubsetsOf(S) = SUBSET S
  BY FS_FiniteSubsetsOfFinite
<1>3. IsWellFoundedOn(StrictSubsetOrdering(S), SUBSET S)
  BY <1>1, <1>2
<1>4. PICK s \in T : \A u \in T : ~ (<<u, s>> \in StrictSubsetOrdering(S))
  BY <1>3, WFMin
<1> QED
  BY <1>4 DEF StrictSubsetOrdering

\* The same of natural numbers.
LEMMA LeastNat ==
  ASSUME NEW T, T \subseteq Nat, T # {}
  PROVE  \E n \in T : \A m \in T : n <= m
<1>1. PICK bound \in T : TRUE
  OBVIOUS
<1>2. ASSUME NEW n \in T, n <= bound
      PROVE  n \in Nat /\ bound \in Nat /\ 0..n \subseteq 0..bound
  BY <1>2
<1> DEFINE S == 0..bound
           U == {s \in SUBSET S : \E n \in T : n <= bound /\ s = 0..n}
<1>3. U \subseteq SUBSET S /\ U # {} /\ IsFiniteSet(S)
  <2>1. bound \in Nat /\ bound <= bound
    BY <1>1
  <2>2. S \in U
    BY <1>1, <2>1
  <2>3. IsFiniteSet(S)
    BY <2>1, FS_Interval
  <2> QED
    BY <2>2, <2>3
<1>4. PICK s \in U : \A u \in U : ~(u \subseteq s /\ u # s)
  <2> HIDE DEF U, S
  <2> QED
    BY <1>3, LeastSubset
<1>5. PICK n \in T : n <= bound /\ s = 0..n
  BY <1>4
<1>6. ASSUME NEW m \in T, m < n PROVE FALSE
  <2>1. m \in Nat /\ n \in Nat /\ bound \in Nat /\ m <= bound
    BY <1>1, <1>5, <1>6
  <2>2. 0..m \in U
    BY <1>2, <2>1
  <2>3. 0..m \subseteq 0..n /\ n \in 0..n /\ n \notin 0..m
    BY <1>6, <2>1
  <2> QED
    BY <1>4, <1>5, <2>2, <2>3
<1> QED
  BY <1>6

------------------------------------------------------------------------------
(* Folds *)

Elem(s) == CHOOSE e \in s : TRUE

\* g folds the subsets of D from base on; step has a function for each element.
Folds(g, base, step, D) ==
  g = [s \in SUBSET D |-> IF s = {} THEN base ELSE step[Elem(s)][g[s \ {Elem(s)}]]]

\* The fold of a set does not depend on what it is a subset of.
LEMMA FoldIsUnique ==
  ASSUME NEW D, IsFiniteSet(D), NEW E, NEW base, NEW step, NEW other, NEW g, NEW h,
         Folds(g, base, step, D), Folds(h, base, other, E),
         \A d \in D : d \in E => step[d] = other[d]
  PROVE  \A s \in SUBSET D : s \subseteq E => g[s] = h[s]
<1> DEFINE T == {s \in SUBSET D : s \subseteq E /\ g[s] # h[s]}
<1>1. SUFFICES ASSUME T # {} PROVE FALSE
  OBVIOUS
<1>2. PICK s \in T : \A u \in T : ~(u \subseteq s /\ u # s)
  <2>1. T \subseteq SUBSET D
    OBVIOUS
  <2> HIDE DEF T
  <2> QED
    BY <1>1, <2>1, LeastSubset
<1>3. /\ g[s] = IF s = {} THEN base ELSE step[Elem(s)][g[s \ {Elem(s)}]]
      /\ h[s] = IF s = {} THEN base ELSE other[Elem(s)][h[s \ {Elem(s)}]]
  BY DEF Folds
<1>4. s # {} => Elem(s) \in s
  BY DEF Elem
<1>5. s # {} => g[s \ {Elem(s)}] = h[s \ {Elem(s)}]
  BY <1>2, <1>4
<1> QED
  BY <1>3, <1>5

\* There is a fold of every finite set, so that the recursion defines one.
LEMMA FoldExists ==
  ASSUME NEW D, IsFiniteSet(D), NEW base, NEW step
  PROVE  \E g : Folds(g, base, step, D)
<1> DEFINE T == {s \in SUBSET D : ~ \E g : Folds(g, base, step, s)}
<1>1. SUFFICES ASSUME T # {} PROVE FALSE
  BY DEF Folds
<1>2. PICK s \in T : \A u \in T : ~(u \subseteq s /\ u # s)
  <2>1. T \subseteq SUBSET D
    OBVIOUS
  <2> HIDE DEF T
  <2> QED
    BY <1>1, <2>1, LeastSubset
<1> DEFINE part(u) == CHOOSE g : Folds(g, base, step, u)
           g == [u \in SUBSET s |-> IF u = {} THEN base ELSE step[Elem(u)][part(u \ {Elem(u)})[u \ {Elem(u)}]]]
<1>3. ASSUME NEW u \in SUBSET s, u # s PROVE Folds(part(u), base, step, u)
  BY <1>2, <1>3
<1> HIDE DEF part
<1>4. ASSUME NEW u \in SUBSET s, u # {} 
      PROVE  u \ {Elem(u)} \in SUBSET s /\ u \ {Elem(u)} # s /\ u \ {Elem(u)} # u
  BY <1>4 DEF Elem
<1>5. ASSUME NEW u \in SUBSET s, u # s PROVE part(u)[u] = g[u]
  <2>1. CASE u = {}
    BY <1>3, <1>5, <2>1 DEF Folds
  <2>2. CASE u # {}
    <3> DEFINE v == u \ {Elem(u)}
    <3>1. v \in SUBSET s /\ v # s
      BY <1>4, <2>2
    <3>2. Folds(part(u), base, step, u) /\ Folds(part(v), base, step, v)
      BY <1>3, <1>5, <3>1
    <3>3. IsFiniteSet(v)
      BY <3>1, FS_Subset
    <3>4. part(v)[v] = part(u)[v]
      BY <3>2, <3>3, FoldIsUnique
    <3>5. part(u)[u] = step[Elem(u)][part(u)[v]]
      BY <2>2, <3>2 DEF Folds
    <3> QED
      BY <2>2, <3>4, <3>5
  <2> QED
    BY <2>1, <2>2
<1>6. Folds(g, base, step, s)
  <2>1. ASSUME NEW u \in SUBSET s, u # {} PROVE part(u \ {Elem(u)})[u \ {Elem(u)}] = g[u \ {Elem(u)}]
    BY <1>4, <1>5, <2>1
  <2> QED
    BY <2>1 DEF Folds
<1> QED
  BY <1>2, <1>6

\* The steps may be done in any order.
AnyOrder(step, D, V) ==
  /\ step \in [D -> [V -> V]]
  /\ \A d, e \in D : \A v \in V : step[d][step[e][v]] = step[e][step[d][v]]

\* Any element of a set may be taken first.
TakesAny(g, base, step, D, V) ==
  /\ g \in [SUBSET D -> V] /\ g[{}] = base
  /\ \A s \in SUBSET D : \A d \in s : g[s] = step[d][g[s \ {d}]]

\* A fold whose steps may be done in any order may take any element first.
LEMMA FoldTakesAny ==
  ASSUME NEW D, IsFiniteSet(D), NEW V, NEW base, base \in V, NEW step, AnyOrder(step, D, V),
         NEW g, Folds(g, base, step, D)
  PROVE  TakesAny(g, base, step, D, V)
<1> USE DEF AnyOrder
<1>1. \A s \in SUBSET D : g[s] = IF s = {} THEN base ELSE step[Elem(s)][g[s \ {Elem(s)}]]
  BY DEF Folds
<1>2. \A s \in SUBSET D : s # {} => Elem(s) \in s
  BY DEF Elem
<1>3. \A s \in SUBSET D : g[s] \in V
  <2> DEFINE T == {s \in SUBSET D : g[s] \notin V}
  <2>1. SUFFICES ASSUME T # {} PROVE FALSE
    OBVIOUS
  <2>2. T \subseteq SUBSET D
    OBVIOUS
  <2>3. PICK s \in T : \A u \in T : ~(u \subseteq s /\ u # s)
    <3> HIDE DEF T
    <3> QED
      BY <2>1, <2>2, LeastSubset
  <2>4. s # {} => g[s \ {Elem(s)}] \in V
    BY <1>2, <2>3
  <2> QED
    BY <1>1, <1>2, <2>4
<1>4. \A s \in SUBSET D : \A d \in s : g[s] = step[d][g[s \ {d}]]
  <2> DEFINE T == {s \in SUBSET D : \E d \in s : g[s] # step[d][g[s \ {d}]]}
  <2>1. SUFFICES ASSUME T # {} PROVE FALSE
    OBVIOUS
  <2>2. T \subseteq SUBSET D
    OBVIOUS
  <2>3. PICK s \in T : \A u \in T : ~(u \subseteq s /\ u # s)
    <3> HIDE DEF T
    <3> QED
      BY <2>1, <2>2, LeastSubset
  <2>4. PICK d \in s : g[s] # step[d][g[s \ {d}]]
    OBVIOUS
  <2> DEFINE e == Elem(s)
             rest == s \ {d, e}
  <2>5. e \in s /\ g[s] = step[e][g[s \ {e}]] /\ d # e
    BY <1>1, <1>2, <2>4
  <2>6. g[s \ {e}] = step[d][g[rest]]
    <3>1. s \ {e} \in SUBSET D /\ s \ {e} \subseteq s /\ s \ {e} # s /\ d \in s \ {e}
      BY <2>4, <2>5
    <3>2. (s \ {e}) \ {d} = rest
      OBVIOUS
    <3> HIDE DEF rest
    <3> QED
      BY <2>3, <3>1, <3>2
  <2>7. g[s \ {d}] = step[e][g[rest]]
    <3>1. s \ {d} \in SUBSET D /\ s \ {d} \subseteq s /\ s \ {d} # s /\ e \in s \ {d}
      BY <2>4, <2>5
    <3>2. (s \ {d}) \ {e} = rest
      OBVIOUS
    <3> HIDE DEF rest
    <3> QED
      BY <2>3, <3>1, <3>2
  <2>8. g[rest] \in V /\ d \in D /\ e \in D
    BY <1>3, <2>4, <2>5
  <2> HIDE DEF e, rest
  <2> QED
    BY <2>4, <2>5, <2>6, <2>7, <2>8
<1> QED
  BY <1>1, <1>3, <1>4 DEF Folds, TakesAny

------------------------------------------------------------------------------
(* The field *)

\* What the remainder of a division is.
LEMMA Remainder ==
  ASSUME NEW z \in Int
  PROVE  z % P \in Field /\ \E k \in Int : z = (z % P) + k * P
<1>1. P \in Nat /\ P > 1
  BY SharingAssumption
<1>2. z % P \in Field
  BY <1>1 DEF Field
<1>3. z \div P \in Int
  BY <1>1
<1>4. PICK k \in Int : k = z \div P
  BY <1>3
<1>5. z - P * k = z % P
  BY <1>1, <1>4
<1>6. z = (z % P) + k * P
  BY <1>1, <1>2, <1>5 DEF Field
<1> QED
  BY <1>2, <1>6

\* Numbers of the field that differ by a multiple of P are the same.
LEMMA SameRemainder ==
  ASSUME NEW a \in Field, NEW b \in Field, NEW k \in Int, a = b + k * P
  PROVE  a = b
<1>1. P \in Nat /\ P > 1 /\ a \in Int /\ b \in Int /\ a >= 0 /\ b >= 0 /\ a < P /\ b < P
  BY SharingAssumption DEF Field
<1>2. CASE k >= 1
  <2>1. k * P >= P
    BY <1>1, <1>2
  <2> QED
    BY <1>1, <2>1
<1>3. CASE k <= -1
  <2>1. k * P <= -P
    BY <1>1, <1>3
  <2> QED
    BY <1>1, <2>1
<1> QED
  BY <1>1, <1>2, <1>3

\* The neutral numbers.
LEMMA Zeros == 0 \in Field /\ 1 \in Field /\ 0 # 1
  BY SharingAssumption DEF Field

\* Addition and subtraction.
LEMMA AddLaws ==
  ASSUME NEW a \in Field, NEW b \in Field, NEW c \in Field
  PROVE  /\ Add(a, b) \in Field /\ Add(a, b) = Add(b, a)
         /\ Add(Add(a, b), c) = Add(a, Add(b, c))
         /\ Add(a, 0) = a /\ Add(0, a) = a
         /\ Sub(a, b) \in Field /\ Add(Sub(a, b), b) = a /\ (Sub(a, b) = 0 <=> a = b)
         /\ (Add(a, b) = Add(c, b) => a = c)
  BY SharingAssumption DEF Add, Sub, Field

\* Multiplication.
LEMMA MulLaws ==
  ASSUME NEW a \in Field, NEW b \in Field, NEW c \in Field
  PROVE  /\ Mul(a, b) \in Field /\ Mul(a, b) = Mul(b, a)
         /\ Mul(a, 1) = a /\ Mul(1, a) = a /\ Mul(a, 0) = 0 /\ Mul(0, a) = 0
<1>1. P \in Nat /\ P > 1 /\ a \in Int /\ b \in Int /\ a >= 0 /\ a < P
  BY SharingAssumption DEF Field
<1>2. a * b \in Int /\ a * b = b * a /\ a * 1 = a /\ 1 * a = a /\ a * 0 = 0 /\ 0 * a = 0
  BY <1>1
<1>3. Mul(a, b) \in Field /\ Mul(a, b) = Mul(b, a)
  BY <1>2, Remainder DEF Mul
<1>4. a % P = a /\ 0 % P = 0
  BY <1>1
<1> QED
  BY <1>2, <1>3, <1>4 DEF Mul

\* A product differs by a multiple of P from that of the integers.
LEMMA MulRemainder ==
  ASSUME NEW a \in Field, NEW b \in Field
  PROVE  /\ Mul(a, b) \in Field /\ Mul(a, b) \in Int /\ a \in Int /\ b \in Int
         /\ \E k \in Int : a * b = Mul(a, b) + k * P
<1>1. a \in Int /\ b \in Int
  BY SharingAssumption DEF Field
<1>2. a * b \in Int
  BY <1>1
<1>3. (a * b) % P \in Field /\ \E k \in Int : a * b = ((a * b) % P) + k * P
  BY <1>2, Remainder
<1>4. Field \subseteq Int
  BY SharingAssumption DEF Field
<1> QED
  BY <1>1, <1>3, <1>4 DEF Mul

\* Multiplication is associative ...
LEMMA MulAssociates ==
  ASSUME NEW a \in Field, NEW b \in Field, NEW c \in Field
  PROVE  Mul(Mul(a, b), c) = Mul(a, Mul(b, c))
<1> DEFINE ab == Mul(a, b)
           bc == Mul(b, c)
<1>1. P \in Int /\ a \in Int /\ b \in Int /\ c \in Int
  BY SharingAssumption DEF Field
<1>2. ab \in Field /\ bc \in Field /\ ab \in Int /\ bc \in Int
      /\ Mul(ab, c) \in Field /\ Mul(a, bc) \in Field /\ Mul(ab, c) \in Int /\ Mul(a, bc) \in Int
  <2>1. ab \in Field /\ bc \in Field
    BY MulLaws
  <2>2. Mul(ab, c) \in Field /\ Mul(a, bc) \in Field
    BY <2>1, MulLaws
  <2> QED
    BY <2>1, <2>2, SharingAssumption DEF Field
<1>3. PICK i \in Int : a * b = ab + i * P
  BY MulRemainder
<1>4. PICK j \in Int : b * c = bc + j * P
  BY MulRemainder
<1>5. PICK k \in Int : ab * c = Mul(ab, c) + k * P
  BY <1>2, MulRemainder
<1>6. PICK l \in Int : a * bc = Mul(a, bc) + l * P
  BY <1>2, MulRemainder
<1> HIDE DEF ab, bc
<1>7. (a * b) * c = ab * c + i * P * c /\ a * (b * c) = a * bc + a * j * P
  BY <1>1, <1>2, <1>3, <1>4
<1>8. (a * b) * c = a * (b * c)
  BY <1>1
<1>9. Mul(ab, c) + k * P + i * P * c = Mul(a, bc) + l * P + a * j * P
  BY <1>5, <1>6, <1>7, <1>8
<1>10. Mul(ab, c) = Mul(a, bc) + (l + a * j - k - i * c) * P /\ l + a * j - k - i * c \in Int
  BY <1>1, <1>2, <1>9
<1>11. Mul(ab, c) = Mul(a, bc)
  BY <1>2, <1>10, SameRemainder
<1> QED
  BY <1>11 DEF ab, bc

\* ... and distributes over addition and subtraction.
LEMMA MulDistributes ==
  ASSUME NEW a \in Field, NEW b \in Field, NEW c \in Field
  PROVE  /\ Mul(a, Add(b, c)) = Add(Mul(a, b), Mul(a, c))
         /\ Mul(a, Sub(b, c)) = Sub(Mul(a, b), Mul(a, c))
<1> DEFINE ab == Mul(a, b)
           ac == Mul(a, c)
<1>1. P \in Int /\ a \in Int /\ b \in Int /\ c \in Int
  BY SharingAssumption DEF Field
<1>2. ab \in Field /\ ac \in Field /\ ab \in Int /\ ac \in Int
  BY MulRemainder
<1>3. PICK i \in Int : a * b = ab + i * P
  BY MulRemainder
<1>4. PICK j \in Int : a * c = ac + j * P
  BY MulRemainder
<1> HIDE DEF ab, ac
<1>5. ASSUME NEW s \in Field, NEW m \in Int, s = b + c + m * P,
             NEW r \in Field, NEW n \in Int, r = ab + ac + n * P
      PROVE  Mul(a, s) = r
  <2>1. Mul(a, s) \in Field /\ Mul(a, s) \in Int /\ s \in Int /\ r \in Int
    BY <1>5, MulRemainder
  <2>2. PICK k \in Int : a * s = Mul(a, s) + k * P
    BY <1>5, MulRemainder
  <2>3. a * s = a * b + a * c + a * m * P
    BY <1>1, <1>5
  <2>4. Mul(a, s) = r + (i + j + a * m - n - k) * P /\ i + j + a * m - n - k \in Int
    BY <1>1, <1>2, <1>3, <1>4, <1>5, <2>1, <2>2, <2>3
  <2> QED
    BY <1>5, <2>1, <2>4, SameRemainder
<1>6. ASSUME NEW s \in Field, NEW m \in Int, s = b - c + m * P,
             NEW r \in Field, NEW n \in Int, r = ab - ac + n * P
      PROVE  Mul(a, s) = r
  <2>1. Mul(a, s) \in Field /\ Mul(a, s) \in Int /\ s \in Int /\ r \in Int
    BY <1>6, MulRemainder
  <2>2. PICK k \in Int : a * s = Mul(a, s) + k * P
    BY <1>6, MulRemainder
  <2>3. a * s = a * b - a * c + a * m * P
    BY <1>1, <1>6
  <2>4. Mul(a, s) = r + (i - j + a * m - n - k) * P /\ i - j + a * m - n - k \in Int
    BY <1>1, <1>2, <1>3, <1>4, <1>6, <2>1, <2>2, <2>3
  <2> QED
    BY <1>6, <2>1, <2>4, SameRemainder
<1>7. ASSUME NEW u \in Field, NEW v \in Field
      PROVE  /\ Add(u, v) \in Field /\ \E m \in Int : Add(u, v) = u + v + m * P
             /\ Sub(u, v) \in Field /\ \E m \in Int : Sub(u, v) = u - v + m * P
  <2>1. Add(u, v) \in Field /\ Sub(u, v) \in Field
    BY AddLaws
  <2>2. Add(u, v) = u + v + 0 * P \/ Add(u, v) = u + v + (-1) * P
    BY <1>7, SharingAssumption DEF Add, Field
  <2>3. Sub(u, v) = u - v + 0 * P \/ Sub(u, v) = u - v + 1 * P
    BY <1>7, SharingAssumption DEF Sub, Field
  <2> QED
    BY <2>1, <2>2, <2>3
<1>8. Mul(a, Add(b, c)) = Add(ab, ac)
  <2>1. PICK m \in Int : Add(b, c) = b + c + m * P
    BY <1>7
  <2>2. PICK n \in Int : Add(ab, ac) = ab + ac + n * P
    BY <1>2, <1>7
  <2>3. Add(b, c) \in Field /\ Add(ab, ac) \in Field
    BY <1>2, <1>7
  <2> QED
    BY <1>5, <2>1, <2>2, <2>3
<1>9. Mul(a, Sub(b, c)) = Sub(ab, ac)
  <2>1. PICK m \in Int : Sub(b, c) = b - c + m * P
    BY <1>7
  <2>2. PICK n \in Int : Sub(ab, ac) = ab - ac + n * P
    BY <1>2, <1>7
  <2>3. Sub(b, c) \in Field /\ Sub(ab, ac) \in Field
    BY <1>2, <1>7
  <2> QED
    BY <1>6, <2>1, <2>2, <2>3
<1> QED
  BY <1>8, <1>9 DEF ab, ac

------------------------------------------------------------------------------
(* Sums and products *)

\* The step functions of a sum and of a product.
Plus(t)  == [d \in DOMAIN t |-> [v \in Field |-> Add(t[d], v)]]
Times(t) == [d \in DOMAIN t |-> [v \in Field |-> Mul(t[d], v)]]

\* The order of the steps does not matter.
LEMMA StepsCommute ==
  ASSUME NEW S, NEW t \in [S -> Field]
  PROVE  AnyOrder(Plus(t), S, Field) /\ AnyOrder(Times(t), S, Field)
<1>1. ASSUME NEW d \in S, NEW v \in Field
      PROVE  /\ Add(t[d], v) \in Field /\ Mul(t[d], v) \in Field
             /\ Plus(t)[d][v] = Add(t[d], v) /\ Times(t)[d][v] = Mul(t[d], v)
  BY AddLaws, MulLaws DEF Plus, Times
<1>2. Plus(t) \in [S -> [Field -> Field]] /\ Times(t) \in [S -> [Field -> Field]]
  BY <1>1 DEF Plus, Times
<1>3. ASSUME NEW d \in S, NEW e \in S, NEW v \in Field
      PROVE  Plus(t)[d][Plus(t)[e][v]] = Plus(t)[e][Plus(t)[d][v]]
  <2>1. Add(t[d], Add(t[e], v)) = Add(t[e], Add(t[d], v))
    BY SharingAssumption DEF Add, Field
  <2> QED
    BY <1>1, <2>1
<1>4. ASSUME NEW d \in S, NEW e \in S, NEW v \in Field
      PROVE  Times(t)[d][Times(t)[e][v]] = Times(t)[e][Times(t)[d][v]]
  <2>1. t[d] \in Field /\ t[e] \in Field
    OBVIOUS
  <2>2. Mul(t[d], Mul(t[e], v)) = Mul(Mul(t[d], t[e]), v)
    BY <2>1, MulAssociates
  <2>3. Mul(t[e], Mul(t[d], v)) = Mul(Mul(t[e], t[d]), v)
    BY <2>1, MulAssociates
  <2>4. Mul(t[d], t[e]) = Mul(t[e], t[d])
    BY <2>1, MulLaws
  <2> QED
    BY <1>1, <2>2, <2>3, <2>4
<1> QED
  BY <1>2, <1>3, <1>4 DEF AnyOrder

\* g gives the sum of t over each set, or the product, whichever element is taken first.
Sums(g, t, S) ==
  /\ g \in [SUBSET S -> Field] /\ g[{}] = 0
  /\ \A s \in SUBSET S : \A d \in s : g[s] = Add(t[d], g[s \ {d}])

Multiplies(g, t, S) ==
  /\ g \in [SUBSET S -> Field] /\ g[{}] = 1
  /\ \A s \in SUBSET S : \A d \in s : g[s] = Mul(t[d], g[s \ {d}])

\* The fold that Sum is defined by is a sum.
LEMMA FoldSums ==
  ASSUME NEW S, IsFiniteSet(S), NEW t, t \in [S -> Field], NEW g, Folds(g, 0, Plus(t), S)
  PROVE  Sums(g, t, S)
<1>1. TakesAny(g, 0, Plus(t), S, Field)
  BY StepsCommute, FoldTakesAny, Zeros
<1>2. ASSUME NEW s \in SUBSET S, NEW d \in s
      PROVE  Plus(t)[d][g[s \ {d}]] = Add(t[d], g[s \ {d}])
  <2>1. g[s \ {d}] \in Field /\ d \in DOMAIN t
    BY <1>1 DEF TakesAny
  <2> QED
    BY <2>1 DEF Plus
<1> QED
  BY <1>1, <1>2 DEF TakesAny, Sums

\* The fold that Product is defined by is a product.
LEMMA FoldMultiplies ==
  ASSUME NEW S, IsFiniteSet(S), NEW t, t \in [S -> Field], NEW g, Folds(g, 1, Times(t), S)
  PROVE  Multiplies(g, t, S)
<1>1. TakesAny(g, 1, Times(t), S, Field)
  BY StepsCommute, FoldTakesAny, Zeros
<1>2. ASSUME NEW s \in SUBSET S, NEW d \in s
      PROVE  Times(t)[d][g[s \ {d}]] = Mul(t[d], g[s \ {d}])
  <2>1. g[s \ {d}] \in Field /\ d \in DOMAIN t
    BY <1>1 DEF TakesAny
  <2> QED
    BY <2>1 DEF Times
<1> QED
  BY <1>1, <1>2 DEF TakesAny, Multiplies

\* FoldFunction, which Sum and Product are, takes the elements in the order of CHOOSE.
LEMMA SumFolds ==
  ASSUME NEW S, IsFiniteSet(S), NEW t \in [S -> Field], NEW g, Folds(g, 0, Plus(t), S)
  PROVE  Sum(t) = g[S]
<1>1. /\ g \in [SUBSET S -> Field] /\ g[{}] = 0
      /\ \A s \in SUBSET S : \A d \in s : g[s] = Add(t[d], g[s \ {d}])
  <2>1. Sums(g, t, S)
    BY FoldSums
  <2> QED
    BY <2>1 DEF Sums
<1> DEFINE IsSum(h) == h = [s \in SUBSET S |-> IF s = {} THEN 0 ELSE Add(t[Elem(s)], h[s \ {Elem(s)}])]
<1>2. Sum(t) = (CHOOSE h : IsSum(h))[S]
  BY Zenon DEF Sum, FoldFunction, FoldFunctionOnSet, MapThenFoldSet, Elem
<1>3. ASSUME NEW s \in SUBSET S, s # {}
      PROVE  Elem(s) \in S /\ Elem(s) \in s /\ s \ {Elem(s)} \in SUBSET S
  BY <1>3 DEF Elem
<1>4. ASSUME NEW s \in SUBSET S, s # {}
      PROVE  g[s] = Add(t[Elem(s)], g[s \ {Elem(s)}])
  BY <1>1, <1>3, <1>4
<1>5. IsSum(g)
  BY <1>1, <1>4
<1>6. ASSUME NEW h, IsSum(h) PROVE h[S] = g[S]
  <2> DEFINE T == {s \in SUBSET S : h[s] # g[s]}
  <2>1. SUFFICES ASSUME T # {} PROVE FALSE
    OBVIOUS
  <2>2. T \subseteq SUBSET S
    OBVIOUS
  <2>3. PICK s \in T : \A u \in T : ~(u \subseteq s /\ u # s)
    <3> HIDE DEF T
    <3> QED
      BY <2>1, <2>2, LeastSubset
  <2>4. s # {} => h[s \ {Elem(s)}] = g[s \ {Elem(s)}]
    BY <1>3, <2>3
  <2> QED
    BY <1>5, <1>6, <2>4
<1> HIDE DEF IsSum
<1>7. IsSum(CHOOSE h : IsSum(h))
  BY <1>5
<1> QED
  BY <1>2, <1>6, <1>7

\* The community modules' fold of multiplications is that fold.
LEMMA ProductFolds ==
  ASSUME NEW S, IsFiniteSet(S), NEW t \in [S -> Field], NEW g, Folds(g, 1, Times(t), S)
  PROVE  Product(t) = g[S]
<1> DEFINE IsProduct(h) == h = [s \in SUBSET S |-> IF s = {} THEN 1 ELSE Mul(t[Elem(s)], h[s \ {Elem(s)}])]
<1>1. Product(t) = (CHOOSE h : IsProduct(h))[S]
  BY Zenon DEF Product, FoldFunction, FoldFunctionOnSet, MapThenFoldSet, Elem
<1>2. /\ g \in [SUBSET S -> Field] /\ g[{}] = 1
      /\ \A s \in SUBSET S : \A d \in s : g[s] = Mul(t[d], g[s \ {d}])
  <2>1. Multiplies(g, t, S)
    BY FoldMultiplies
  <2> QED
    BY <2>1 DEF Multiplies
<1>3. ASSUME NEW s \in SUBSET S, s # {}
      PROVE  Elem(s) \in S /\ Elem(s) \in s /\ s \ {Elem(s)} \in SUBSET S
  BY <1>3 DEF Elem
<1>4. ASSUME NEW s \in SUBSET S, s # {}
      PROVE  g[s] = Mul(t[Elem(s)], g[s \ {Elem(s)}])
  BY <1>2, <1>3, <1>4
<1>5. IsProduct(g)
  BY <1>2, <1>4
<1>6. ASSUME NEW h, IsProduct(h) PROVE h[S] = g[S]
  <2> DEFINE T == {s \in SUBSET S : h[s] # g[s]}
  <2>1. SUFFICES ASSUME T # {} PROVE FALSE
    OBVIOUS
  <2>2. T \subseteq SUBSET S
    OBVIOUS
  <2>3. PICK s \in T : \A u \in T : ~(u \subseteq s /\ u # s)
    <3> HIDE DEF T
    <3> QED
      BY <2>1, <2>2, LeastSubset
  <2>4. s # {} => h[s \ {Elem(s)}] = g[s \ {Elem(s)}]
    BY <1>3, <2>3
  <2> QED
    BY <1>5, <1>6, <2>4
<1> HIDE DEF IsProduct
<1>7. IsProduct(CHOOSE h : IsProduct(h))
  BY <1>5
<1> QED
  BY <1>1, <1>6, <1>7

\* A sum is that of any term and the sum of the others.
LEMMA SumStep ==
  ASSUME NEW S, IsFiniteSet(S), NEW t \in [S -> Field]
  PROVE  /\ Sum(t) \in Field /\ (S = {} => Sum(t) = 0)
         /\ \A a \in S : Sum(t) = Add(t[a], Sum([j \in S \ {a} |-> t[j]]))
<1>1. PICK g : Folds(g, 0, Plus(t), S)
  BY FoldExists
<1>2. Sum(t) = g[S]
  BY <1>1, SumFolds
<1>3. /\ g \in [SUBSET S -> Field] /\ g[{}] = 0
      /\ \A s \in SUBSET S : \A d \in s : g[s] = Add(t[d], g[s \ {d}])
  <2>1. Sums(g, t, S)
    BY <1>1, FoldSums
  <2> QED
    BY <2>1 DEF Sums
<1>4. ASSUME NEW a \in S PROVE Sum(t) = Add(t[a], Sum([j \in S \ {a} |-> t[j]]))
  <2> DEFINE R == S \ {a}
             r == [j \in R |-> t[j]]
  <2>1. IsFiniteSet(R) /\ r \in [R -> Field]
    BY FS_RemoveElement
  <2>2. PICK h : Folds(h, 0, Plus(r), R)
    BY <2>1, FoldExists
  <2>3. Sum(r) = h[R]
    BY <2>1, <2>2, SumFolds
  <2>4. \A d \in R : d \in S => Plus(r)[d] = Plus(t)[d]
    BY DEF Plus
  <2>5. \A s \in SUBSET R : s \subseteq S => h[s] = g[s]
    <3> DEFINE step == Plus(t)
               other == Plus(r)
    <3>1. IsFiniteSet(R) /\ Folds(h, 0, other, R) /\ Folds(g, 0, step, S)
      BY <1>1, <2>1, <2>2
    <3>2. \A d \in R : d \in S => other[d] = step[d]
      BY <2>4
    <3> HIDE DEF R, step, other
    <3> QED
      BY <3>1, <3>2, FoldIsUnique
  <2>6. h[R] = g[R] /\ g[R] \in Field
    BY <1>3, <2>5
  <2>7. g[S] = Add(t[a], g[R])
    BY <1>3
  <2> QED
    BY <1>2, <2>3, <2>6, <2>7
<1> QED
  BY <1>2, <1>3, <1>4

\* A product is that of any factor and the product of the others.
LEMMA ProductStep ==
  ASSUME NEW S, IsFiniteSet(S), NEW t \in [S -> Field]
  PROVE  /\ Product(t) \in Field /\ (S = {} => Product(t) = 1)
         /\ \A a \in S : Product(t) = Mul(t[a], Product([j \in S \ {a} |-> t[j]]))
<1>1. PICK g : Folds(g, 1, Times(t), S)
  BY FoldExists
<1>2. Product(t) = g[S]
  BY <1>1, ProductFolds
<1>3. /\ g \in [SUBSET S -> Field] /\ g[{}] = 1
      /\ \A s \in SUBSET S : \A d \in s : g[s] = Mul(t[d], g[s \ {d}])
  <2>1. Multiplies(g, t, S)
    BY <1>1, FoldMultiplies
  <2> QED
    BY <2>1 DEF Multiplies
<1>4. ASSUME NEW a \in S PROVE Product(t) = Mul(t[a], Product([j \in S \ {a} |-> t[j]]))
  <2> DEFINE R == S \ {a}
             r == [j \in R |-> t[j]]
  <2>1. IsFiniteSet(R) /\ r \in [R -> Field]
    BY FS_RemoveElement
  <2>2. PICK h : Folds(h, 1, Times(r), R)
    BY <2>1, FoldExists
  <2>3. Product(r) = h[R]
    BY <2>1, <2>2, ProductFolds
  <2>4. \A d \in R : d \in S => Times(r)[d] = Times(t)[d]
    BY DEF Times
  <2>5. \A s \in SUBSET R : s \subseteq S => h[s] = g[s]
    <3> DEFINE step == Times(t)
               other == Times(r)
    <3>1. IsFiniteSet(R) /\ Folds(h, 1, other, R) /\ Folds(g, 1, step, S)
      BY <1>1, <2>1, <2>2
    <3>2. \A d \in R : d \in S => other[d] = step[d]
      BY <2>4
    <3> HIDE DEF R, step, other
    <3> QED
      BY <3>1, <3>2, FoldIsUnique
  <2>6. h[R] = g[R] /\ g[R] \in Field
    BY <1>3, <2>5
  <2>7. g[S] = Mul(t[a], g[R])
    BY <1>3
  <2> QED
    BY <1>2, <2>3, <2>6, <2>7
<1> QED
  BY <1>2, <1>3, <1>4

------------------------------------------------------------------------------
(* Sums and products of parts *)

\* Numbers of the field, one for each element of S.
Terms(t, S) == t \in [S -> Field]

\* A sum over a part of S is that of any of its terms and the sum of the others.
LEMMA PartialSums ==
  ASSUME NEW S, IsFiniteSet(S), NEW t, Terms(t, S), NEW s, s \subseteq S
  PROVE  /\ Sum(Restrict(t, s)) \in Field /\ (s = {} => Sum(Restrict(t, s)) = 0)
         /\ \A a \in s : Sum(Restrict(t, s)) = Add(t[a], Sum(Restrict(t, s \ {a})))
         /\ Restrict(t, S) = t
<1> DEFINE r == Restrict(t, s)
<1>1. IsFiniteSet(s)
  BY FS_Subset
<1>2. r \in [s -> Field] /\ (\A a \in s : r[a] = t[a]) /\ Restrict(t, S) = t
  BY DEF Terms, Restrict
<1>3. \A a \in s : [j \in s \ {a} |-> r[j]] = Restrict(t, s \ {a})
  BY <1>2 DEF Restrict
<1> HIDE DEF r
<1>4. Sum(r) \in Field /\ (s = {} => Sum(r) = 0)
  BY <1>1, <1>2, SumStep
<1>5. \A a \in s : Sum(r) = Add(r[a], Sum([j \in s \ {a} |-> r[j]]))
  BY <1>1, <1>2, SumStep
<1> QED
  BY <1>2, <1>3, <1>4, <1>5 DEF r

\* A product over a part of S is that of any of its factors and the product of the others.
LEMMA PartialProducts ==
  ASSUME NEW S, IsFiniteSet(S), NEW t, Terms(t, S), NEW s, s \subseteq S
  PROVE  /\ Product(Restrict(t, s)) \in Field /\ (s = {} => Product(Restrict(t, s)) = 1)
         /\ \A a \in s : Product(Restrict(t, s)) = Mul(t[a], Product(Restrict(t, s \ {a})))
         /\ Restrict(t, S) = t
<1> DEFINE r == Restrict(t, s)
<1>1. IsFiniteSet(s)
  BY FS_Subset
<1>2. r \in [s -> Field] /\ (\A a \in s : r[a] = t[a]) /\ Restrict(t, S) = t
  BY DEF Terms, Restrict
<1>3. \A a \in s : [j \in s \ {a} |-> r[j]] = Restrict(t, s \ {a})
  BY <1>2 DEF Restrict
<1> HIDE DEF r
<1>4. Product(r) \in Field /\ (s = {} => Product(r) = 1)
  BY <1>1, <1>2, ProductStep
<1>5. \A a \in s : Product(r) = Mul(r[a], Product([j \in s \ {a} |-> r[j]]))
  BY <1>1, <1>2, ProductStep
<1> QED
  BY <1>2, <1>3, <1>4, <1>5 DEF r

\* h times the one minus k times the other.
Blend(h, u, k, v) == [j \in DOMAIN u |-> Sub(Mul(h, u[j]), Mul(k, v[j]))]

\* Sums are linear.
LEMMA SumBlend ==
  ASSUME NEW S, IsFiniteSet(S), NEW u, Terms(u, S), NEW v, Terms(v, S), NEW h \in Field, NEW k \in Field
  PROVE  /\ Terms(Blend(h, u, k, v), S)
         /\ Sum(Blend(h, u, k, v)) = Sub(Mul(h, Sum(u)), Mul(k, Sum(v)))
<1> DEFINE b == Blend(h, u, k, v)
           U(s) == Sum(Restrict(u, s))
           V(s) == Sum(Restrict(v, s))
           B(s) == Sum(Restrict(b, s))
           T == {s \in SUBSET S : B(s) # Sub(Mul(h, U(s)), Mul(k, V(s)))}
<1>1. /\ \A j \in S : u[j] \in Field /\ v[j] \in Field /\ Mul(h, u[j]) \in Field /\ Mul(k, v[j]) \in Field
      /\ \A j \in S : b[j] = Sub(Mul(h, u[j]), Mul(k, v[j]))
      /\ Terms(b, S)
  BY AddLaws, MulLaws DEF Blend, Terms
<1> HIDE DEF b
<1>2. ASSUME NEW s, s \subseteq S
      PROVE  /\ U(s) \in Field /\ V(s) \in Field /\ B(s) \in Field
             /\ s = {} => U(s) = 0 /\ V(s) = 0 /\ B(s) = 0
             /\ \A a \in s : /\ U(s) = Add(u[a], U(s \ {a})) /\ V(s) = Add(v[a], V(s \ {a}))
                             /\ B(s) = Add(b[a], B(s \ {a}))
  <2>1. /\ U(s) \in Field /\ (s = {} => U(s) = 0)
        /\ \A a \in s : U(s) = Add(u[a], U(s \ {a}))
    BY <1>2, PartialSums
  <2>2. /\ V(s) \in Field /\ (s = {} => V(s) = 0)
        /\ \A a \in s : V(s) = Add(v[a], V(s \ {a}))
    BY <1>2, PartialSums
  <2>3. /\ B(s) \in Field /\ (s = {} => B(s) = 0)
        /\ \A a \in s : B(s) = Add(b[a], B(s \ {a}))
    BY <1>1, <1>2, PartialSums
  <2> HIDE DEF U, V, B
  <2> QED
    BY <2>1, <2>2, <2>3
<1>3. U(S) = Sum(u) /\ V(S) = Sum(v) /\ B(S) = Sum(b)
  BY <1>1, PartialSums
<1> HIDE DEF U, V, B
<1>4. SUFFICES ASSUME T # {} PROVE FALSE
  BY <1>1, <1>3 DEF b
<1>5. PICK s \in T : \A w \in T : ~(w \subseteq s /\ w # s)
  <2>1. T \subseteq SUBSET S
    OBVIOUS
  <2> HIDE DEF T
  <2> QED
    BY <1>4, <2>1, LeastSubset
<1>6. s \subseteq S /\ B(s) # Sub(Mul(h, U(s)), Mul(k, V(s)))
  OBVIOUS
<1>7. s # {}
  <2>1. 0 \in Field /\ Mul(h, 0) = 0 /\ Mul(k, 0) = 0 /\ Sub(0, 0) = 0
    BY Zeros, MulLaws, AddLaws
  <2>2. s = {} => U(s) = 0 /\ V(s) = 0 /\ B(s) = 0
    BY <1>2, <1>6
  <2> QED
    BY <1>6, <2>1, <2>2
<1>8. PICK a \in s : TRUE
  BY <1>7
<1> DEFINE r == s \ {a}
<1>9. B(r) = Sub(Mul(h, U(r)), Mul(k, V(r))) /\ r \subseteq S
  BY <1>5, <1>6
<1>10. /\ U(r) \in Field /\ V(r) \in Field
       /\ U(s) = Add(u[a], U(r)) /\ V(s) = Add(v[a], V(r)) /\ B(s) = Add(b[a], B(r))
  BY <1>2, <1>6, <1>9
<1>11. /\ u[a] \in Field /\ v[a] \in Field /\ Mul(h, u[a]) \in Field /\ Mul(k, v[a]) \in Field
       /\ b[a] = Sub(Mul(h, u[a]), Mul(k, v[a]))
  BY <1>1, <1>6
<1> HIDE DEF r
<1>12. /\ Mul(h, U(s)) = Add(Mul(h, u[a]), Mul(h, U(r)))
       /\ Mul(k, V(s)) = Add(Mul(k, v[a]), Mul(k, V(r)))
  BY <1>10, <1>11, MulDistributes
<1>13. ASSUME NEW a1 \in Field, NEW a2 \in Field, NEW b1 \in Field, NEW b2 \in Field
       PROVE  Add(Sub(a1, b1), Sub(a2, b2)) = Sub(Add(a1, a2), Add(b1, b2))
  BY SharingAssumption DEF Add, Sub, Field
<1>14. Mul(h, U(r)) \in Field /\ Mul(k, V(r)) \in Field
  BY <1>10, MulLaws
<1> QED
  BY <1>6, <1>9, <1>10, <1>11, <1>12, <1>13, <1>14

------------------------------------------------------------------------------
(* Inverses: the field of a prime, by Fermat's little theorem *)

\* Factors of a product may be paired in any way.
LEMMA MulPairs ==
  ASSUME NEW a \in Field, NEW b \in Field, NEW c \in Field, NEW d \in Field
  PROVE  Mul(Mul(a, b), Mul(c, d)) = Mul(Mul(a, c), Mul(b, d))
<1>1. Mul(b, Mul(c, d)) = Mul(c, Mul(b, d))
  <2>1. Mul(b, Mul(c, d)) = Mul(Mul(b, c), d)
    BY MulAssociates
  <2>2. Mul(c, Mul(b, d)) = Mul(Mul(c, b), d)
    BY MulAssociates
  <2> QED
    BY <2>1, <2>2, MulLaws
<1>2. Mul(Mul(a, b), Mul(c, d)) = Mul(a, Mul(b, Mul(c, d)))
  BY MulLaws, MulAssociates
<1>3. Mul(Mul(a, c), Mul(b, d)) = Mul(a, Mul(c, Mul(b, d)))
  BY MulLaws, MulAssociates
<1> QED
  BY <1>1, <1>2, <1>3

\* There are no divisors of zero: the least one would have the remainder of P below it.
LEMMA NoDivisorsOfZero ==
  ASSUME NEW a \in Field, a # 0, NEW b \in Field, Mul(a, b) = 0
  PROVE  b = 0
<1> DEFINE T == {d \in 1..P - 1 : Mul(d, b) = 0}
<1>1. P \in Nat /\ P > 1 /\ Field \subseteq Int /\ 0 \in Field
  BY SharingAssumption DEF Field
<1>2. a \in T /\ T \subseteq Nat
  BY <1>1 DEF Field
<1>3. PICK d \in T : \A m \in T : d <= m
  <2> HIDE DEF T
  <2> QED
    BY <1>2, LeastNat
<1>4. d \in Nat /\ d >= 1 /\ d < P /\ d \in Field /\ Mul(d, b) = 0
  BY <1>1, <1>3 DEF Field
<1>5. CASE d = 1
  BY <1>4, <1>5, Zeros, MulLaws
<1>6. CASE d > 1
  <2> DEFINE r == P % d
             q == P \div d
  <2>1. r \in Nat /\ r < d /\ q \in Int /\ P = d * q + r
    BY <1>1, <1>4
  <2>2. r # 0
    BY <1>1, <1>4, <1>6, PrimeAssumption
  <2> HIDE DEF r, q
  <2>3. r \in 1..P - 1 /\ r \in Field
    BY <1>1, <1>4, <2>1, <2>2 DEF Field
  <2>4. PICK k \in Int : d * b = 0 + k * P
    BY <1>4, MulRemainder
  <2>5. PICK l \in Int : r * b = Mul(r, b) + l * P
    BY <2>3, MulRemainder
  <2>6. b \in Int /\ d \in Int /\ r \in Int /\ P \in Int /\ Mul(r, b) \in Field /\ Mul(r, b) \in Int
    BY <1>1, <1>4, <2>1, <2>3, MulRemainder
  <2>7. (d * q + r) * b = q * (d * b) + r * b
    BY <2>1, <2>6
  <2>8. P * b = q * (k * P) + (Mul(r, b) + l * P)
    BY <2>1, <2>4, <2>5, <2>6, <2>7
  <2>9. Mul(r, b) = 0 + (b - q * k - l) * P /\ b - q * k - l \in Int
    BY <2>1, <2>6, <2>8
  <2>10. Mul(r, b) = 0
    BY <1>1, <2>6, <2>9, SameRemainder
  <2> QED
    BY <1>3, <2>1, <1>4, <2>3, <2>10
<1> QED
  BY <1>4, <1>5, <1>6

\* A product of numbers that are not zero is not zero.
LEMMA ProductsAreUnits ==
  ASSUME NEW a \in Field, a # 0, NEW b \in Field, b # 0
  PROVE  Mul(a, b) \in Field /\ Mul(a, b) # 0
BY NoDivisorsOfZero, MulLaws

\* What a cancels from.
LEMMA Cancels ==
  ASSUME NEW a \in Field, a # 0, NEW b \in Field, NEW c \in Field, Mul(a, b) = Mul(a, c)
  PROVE  b = c
<1>1. Mul(a, Sub(b, c)) = Sub(Mul(a, b), Mul(a, c)) /\ Sub(b, c) \in Field
  BY MulDistributes, AddLaws
<1>2. Mul(a, b) \in Field /\ Mul(a, c) \in Field
  BY MulLaws
<1>3. Sub(Mul(a, b), Mul(a, c)) = 0
  BY <1>2, AddLaws
<1>4. Sub(b, c) = 0
  BY <1>1, <1>3, NoDivisorsOfZero
<1> QED
  BY <1>4, AddLaws

\* The numbers but zero.
Units == 1..P - 1

\* The products of a with the numbers in s, and the numbers themselves.
Multiples(a, s) == {Mul(a, k) : k \in s}
Same(s) == [k \in s |-> k]

\* They are finitely many.
LEMMA UnitsAre == IsFiniteSet(Units) /\ Units \subseteq Field /\ \A a \in Field : a \in Units <=> a # 0
<1>1. P \in Nat /\ P > 1
  BY SharingAssumption
<1>2. IsFiniteSet(Units)
  BY <1>1, FS_Interval DEF Units
<1> QED
  BY <1>1, <1>2 DEF Units, Field

\* Multiplication permutes them.
LEMMA MultiplesAreAll ==
  ASSUME NEW a \in Field, a # 0
  PROVE  Multiples(a, Units) = Units
<1> DEFINE f == [k \in Units |-> Mul(a, k)]
<1>1. ASSUME NEW k \in Units PROVE Mul(a, k) \in Units
  BY UnitsAre, ProductsAreUnits
<1>2. ASSUME NEW k \in Units, NEW m \in Units, Mul(a, k) = Mul(a, m) PROVE k = m
  BY <1>2, UnitsAre, Cancels
<1>3. f \in Injection(Units, Units)
  BY <1>1, <1>2 DEF Injection, IsInjective
<1>4. f \in Surjection(Units, Units)
  <2> HIDE DEF f
  <2> QED
    BY <1>3, UnitsAre, FS_Injection
<1> QED
  BY <1>1, <1>4 DEF Surjection, Multiples

\* The product of the multiples, taken in either way.
LEMMA ProductOfMultiples ==
  ASSUME NEW a \in Field, a # 0, NEW S, S \subseteq Units
  PROVE  Product(Same(Multiples(a, S))) = Product([k \in S |-> Mul(a, k)])
<1> DEFINE T == {s \in SUBSET Units : Product(Same(Multiples(a, s))) # Product([k \in s |-> Mul(a, k)])}
<1>1. SUFFICES ASSUME T # {} PROVE FALSE
  OBVIOUS
<1>2. PICK s \in T : \A w \in T : ~(w \subseteq s /\ w # s)
  <2>1. T \subseteq SUBSET Units
    OBVIOUS
  <2> HIDE DEF T
  <2> QED
    BY <1>1, <2>1, UnitsAre, LeastSubset
<1>3. s \subseteq Units /\ Product(Same(Multiples(a, s))) # Product([k \in s |-> Mul(a, k)])
  BY <1>2
<1> DEFINE t == [k \in s |-> Mul(a, k)]
           M == Multiples(a, s)
<1>4. IsFiniteSet(s) /\ t \in [s -> Field]
  BY <1>3, UnitsAre, FS_Subset, MulLaws
<1>5. M \subseteq Units
  BY <1>3, UnitsAre, ProductsAreUnits DEF Multiples
<1>6. IsFiniteSet(M) /\ Same(M) \in [M -> Field]
  BY <1>5, UnitsAre, FS_Subset DEF Same
<1>7. CASE s = {}
  <2>1. M = {}
    BY <1>7 DEF Multiples
  <2> HIDE DEF t, M
  <2>2. Product(t) = 1 /\ Product(Same(M)) = 1
    BY <1>4, <1>6, <1>7, <2>1, ProductStep
  <2> QED
    BY <1>3, <2>2 DEF t, M
<1>8. CASE s # {}
  <2>1. PICK m \in s : TRUE
    BY <1>8
  <2>2. Mul(a, m) \in M /\ M \ {Mul(a, m)} = Multiples(a, s \ {m})
    <3>1. \A k \in s : Mul(a, k) = Mul(a, m) => k = m
      BY <1>3, <2>1, UnitsAre, Cancels
    <3> QED
      BY <2>1, <3>1 DEF Multiples
  <2>3. Product(Same(Multiples(a, s \ {m}))) = Product([k \in s \ {m} |-> Mul(a, k)])
    BY <1>2, <2>1
  <2>4. [j \in M \ {Mul(a, m)} |-> Same(M)[j]] = Same(Multiples(a, s \ {m}))
    BY <2>2 DEF Same
  <2>5. [j \in s \ {m} |-> t[j]] = [k \in s \ {m} |-> Mul(a, k)]
    OBVIOUS
  <2>6. Same(M)[Mul(a, m)] = Mul(a, m) /\ t[m] = Mul(a, m)
    BY <2>1, <2>2 DEF Same
  <2> HIDE DEF t, M
  <2>7. Product(Same(M)) = Mul(Same(M)[Mul(a, m)], Product([j \in M \ {Mul(a, m)} |-> Same(M)[j]]))
    BY <1>6, <2>2, ProductStep
  <2>8. Product(t) = Mul(t[m], Product([j \in s \ {m} |-> t[j]]))
    BY <1>4, <2>1, ProductStep
  <2> QED
    BY <1>3, <2>3, <2>4, <2>5, <2>6, <2>7, <2>8 DEF t, M
<1> QED
  BY <1>7, <1>8

\* The factors of a product may be multiplied each.
LEMMA ProductOfPairs ==
  ASSUME NEW a \in Field, NEW S, S \subseteq Units
  PROVE  Product([k \in S |-> Mul(a, k)]) = Mul(Product([k \in S |-> a]), Product(Same(S)))
<1> DEFINE T == {s \in SUBSET Units : Product([k \in s |-> Mul(a, k)])
                                        # Mul(Product([k \in s |-> a]), Product(Same(s)))}
<1>1. SUFFICES ASSUME T # {} PROVE FALSE
  OBVIOUS
<1>2. PICK s \in T : \A w \in T : ~(w \subseteq s /\ w # s)
  <2>1. T \subseteq SUBSET Units
    OBVIOUS
  <2> HIDE DEF T
  <2> QED
    BY <1>1, <2>1, UnitsAre, LeastSubset
<1> DEFINE t == [k \in s |-> Mul(a, k)]
           u == [k \in s |-> a]
           v == Same(s)
<1>3. s \subseteq Units /\ Product(t) # Mul(Product(u), Product(v))
  BY <1>2
<1>4. IsFiniteSet(s) /\ t \in [s -> Field] /\ u \in [s -> Field] /\ v \in [s -> Field]
  BY <1>3, UnitsAre, FS_Subset, MulLaws DEF Same
<1>5. CASE s = {}
  <2> HIDE DEF t, u, v
  <2>1. Product(t) = 1 /\ Product(u) = 1 /\ Product(v) = 1
    BY <1>4, <1>5, ProductStep
  <2> QED
    BY <1>3, <2>1, Zeros, MulLaws
<1>6. CASE s # {}
  <2>1. PICK m \in s : TRUE
    BY <1>6
  <2> DEFINE r == s \ {m}
  <2>2. Product([k \in r |-> Mul(a, k)]) = Mul(Product([k \in r |-> a]), Product(Same(r)))
    BY <1>2, <2>1
  <2>3. /\ [j \in r |-> t[j]] = [k \in r |-> Mul(a, k)] /\ [j \in r |-> u[j]] = [k \in r |-> a]
        /\ [j \in r |-> v[j]] = Same(r) /\ t[m] = Mul(a, m) /\ u[m] = a /\ v[m] = m
    BY <2>1 DEF Same
  <2> DEFINE x == Product([j \in r |-> u[j]])
             y == Product([j \in r |-> v[j]])
  <2>4. x \in Field /\ y \in Field
    <3>1. IsFiniteSet(r) /\ [j \in r |-> u[j]] \in [r -> Field] /\ [j \in r |-> v[j]] \in [r -> Field]
      BY <1>3, <1>4, FS_Subset, UnitsAre DEF Same
    <3> HIDE DEF r, u, v
    <3> QED
      BY <3>1, ProductStep
  <2> HIDE DEF t, u, v
  <2>5. /\ Product(t) = Mul(t[m], Product([j \in r |-> t[j]]))
        /\ Product(u) = Mul(u[m], x) /\ Product(v) = Mul(v[m], y)
    BY <1>4, <2>1, ProductStep
  <2>6. m \in Field
    BY <1>3, <2>1, UnitsAre
  <2> HIDE DEF x, y, r
  <2>7. Mul(Mul(a, m), Mul(x, y)) = Mul(Mul(a, x), Mul(m, y))
    BY <2>4, <2>6, MulPairs
  <2> QED
    BY <1>3, <2>2, <2>3, <2>5, <2>7 DEF x, y
<1> QED
  BY <1>5, <1>6

\* The product of the units is one of them.
LEMMA ProductOfUnits == Product(Same(Units)) \in Field /\ Product(Same(Units)) # 0
<1> DEFINE T == {s \in SUBSET Units : ~(Product(Same(s)) \in Field /\ Product(Same(s)) # 0)}
<1>1. SUFFICES ASSUME T # {} PROVE FALSE
  OBVIOUS
<1>2. PICK s \in T : \A w \in T : ~(w \subseteq s /\ w # s)
  <2>1. T \subseteq SUBSET Units
    OBVIOUS
  <2> HIDE DEF T
  <2> QED
    BY <1>1, <2>1, UnitsAre, LeastSubset
<1>3. IsFiniteSet(s) /\ Same(s) \in [s -> Field]
  BY <1>2, UnitsAre, FS_Subset DEF Same
<1>4. CASE s = {}
  BY <1>2, <1>3, <1>4, ProductStep, Zeros
<1>5. CASE s # {}
  <2>1. PICK m \in s : TRUE
    BY <1>5
  <2>2. Product(Same(s \ {m})) \in Field /\ Product(Same(s \ {m})) # 0
    BY <1>2, <2>1
  <2>3. [j \in s \ {m} |-> Same(s)[j]] = Same(s \ {m}) /\ Same(s)[m] = m
    BY <2>1 DEF Same
  <2>4. Product(Same(s)) = Mul(m, Product(Same(s \ {m})))
    BY <1>3, <2>1, <2>3, ProductStep
  <2> QED
    BY <1>2, <2>1, <2>2, <2>4, UnitsAre, ProductsAreUnits
<1> QED
  BY <1>4, <1>5

\* a to the n-th, as a product of n factors.
Power(a, n) == Product([k \in 1..n |-> a])

\* A power is the one before it, multiplied once more.
LEMMA PowerStep ==
  ASSUME NEW a \in Field, NEW n \in Nat
  PROVE  /\ Power(a, 0) = 1 /\ Power(a, n) \in Field
         /\ Power(a, n + 1) = Mul(a, Power(a, n))
<1>1. ASSUME NEW m \in Nat PROVE IsFiniteSet(1..m) /\ [k \in 1..m |-> a] \in [1..m -> Field]
  BY FS_Interval
<1>2. Power(a, 0) = 1
  <2>1. 1..0 = {}
    OBVIOUS
  <2> QED
    BY <1>1, <2>1, ProductStep DEF Power
<1>3. Power(a, n) \in Field
  BY <1>1, ProductStep DEF Power
<1> DEFINE D == 1..n + 1
           m == n + 1
           t == [k \in D |-> a]
<1>4. D \ {m} = 1..n /\ m \in D
  OBVIOUS
<1>5. IsFiniteSet(D) /\ t \in [D -> Field]
  BY <1>1
<1>6. t[m] = a /\ [j \in D \ {m} |-> t[j]] = [k \in 1..n |-> a]
  BY <1>4
<1>7. Product(t) = Power(a, n + 1)
  BY DEF Power
<1> HIDE DEF t, D, m
<1>8. Product(t) = Mul(t[m], Product([j \in D \ {m} |-> t[j]]))
  BY <1>4, <1>5, ProductStep
<1>9. Power(a, n + 1) = Mul(a, Product([k \in 1..n |-> a]))
  BY <1>6, <1>7, <1>8
<1> QED
  BY <1>2, <1>3, <1>9 DEF Power

\* Exponents add up.
LEMMA PowerSum ==
  ASSUME NEW a \in Field, NEW m \in Nat, NEW n \in Nat
  PROVE  Power(a, m + n) = Mul(Power(a, m), Power(a, n))
<1> DEFINE T == {l \in Nat : Power(a, m + l) # Mul(Power(a, m), Power(a, l))}
<1>1. SUFFICES ASSUME T # {} PROVE FALSE
  OBVIOUS
<1>2. PICK l \in T : \A w \in T : l <= w
  <2>1. T \subseteq Nat
    OBVIOUS
  <2> HIDE DEF T
  <2> QED
    BY <1>1, <2>1, LeastNat
<1>3. l \in Nat /\ Power(a, m + l) # Mul(Power(a, m), Power(a, l)) /\ Power(a, m) \in Field
  BY <1>2, PowerStep
<1>4. l # 0
  BY <1>3, PowerStep, MulLaws
<1> DEFINE p == l - 1
<1>5. p \in Nat /\ l = p + 1 /\ m + p \in Nat /\ m + l = (m + p) + 1 /\ ~(l <= p)
  BY <1>3, <1>4
<1>6. Power(a, m + p) = Mul(Power(a, m), Power(a, p))
  BY <1>2, <1>5
<1> HIDE DEF p
<1>7. Power(a, m + l) = Mul(a, Power(a, m + p)) /\ Power(a, l) = Mul(a, Power(a, p)) /\ Power(a, p) \in Field
  BY <1>5, PowerStep
<1>8. Mul(a, Mul(Power(a, m), Power(a, p))) = Mul(Power(a, m), Mul(a, Power(a, p)))
  <2>1. Mul(Mul(a, Power(a, m)), Power(a, p)) = Mul(a, Mul(Power(a, m), Power(a, p)))
    BY <1>3, <1>7, MulAssociates
  <2>2. Mul(Mul(Power(a, m), a), Power(a, p)) = Mul(Power(a, m), Mul(a, Power(a, p)))
    BY <1>3, <1>7, MulAssociates
  <2>3. Mul(a, Power(a, m)) = Mul(Power(a, m), a)
    BY <1>3, MulLaws
  <2> QED
    BY <2>1, <2>2, <2>3
<1> QED
  BY <1>3, <1>6, <1>7, <1>8

\* Fermat: the multiples of a are a permutation of the units.
THEOREM Fermat ==
  ASSUME NEW a \in Field, a # 0
  PROVE  Power(a, P - 1) = 1
<1> DEFINE u == Product(Same(Units))
           w == Power(a, P - 1)
<1>1. u = Product([k \in Units |-> Mul(a, k)])
  BY MultiplesAreAll, ProductOfMultiples
<1>2. Product([k \in Units |-> Mul(a, k)]) = Mul(w, u)
  BY ProductOfPairs DEF Power, Units
<1>3. u \in Field /\ u # 0
  BY ProductOfUnits
<1>4. w \in Field
  BY SharingAssumption, PowerStep
<1> HIDE DEF u, w
<1>5. Mul(u, w) = Mul(u, 1)
  BY <1>1, <1>2, <1>3, <1>4, MulLaws, Zeros
<1>6. w = 1
  BY <1>3, <1>4, <1>5, Zeros, Cancels
<1> QED
  BY <1>6 DEF w

\* The loop of Inv squares.
Squares(f, a) ==
  f = [n \in Nat |-> IF n = 0 THEN 1
                     ELSE LET half == f[n \div 2]
                          IN  IF n % 2 = 0 THEN Mul(half, half) ELSE Mul(a, Mul(half, half))]

\* One turn of it is a power too.
LEMMA PowerSquares ==
  ASSUME NEW a \in Field, NEW n \in Nat, n # 0
  PROVE  LET half == Power(a, n \div 2)
         IN  Power(a, n) = IF n % 2 = 0 THEN Mul(half, half) ELSE Mul(a, Mul(half, half))
<1> DEFINE h == n \div 2
<1>1. h \in Nat /\ (n % 2 = 0 => n = h + h) /\ (n % 2 # 0 => n = (h + h) + 1)
  OBVIOUS
<1> HIDE DEF h
<1>2. Power(a, h + h) = Mul(Power(a, h), Power(a, h))
  BY <1>1, PowerSum
<1>3. Power(a, (h + h) + 1) = Mul(a, Power(a, h + h))
  BY <1>1, PowerStep
<1> QED
  BY <1>1, <1>2, <1>3 DEF h

\* There is no other function that the loop computes.
LEMMA SquaresIsPower ==
  ASSUME NEW a \in Field, NEW f, Squares(f, a), NEW n \in Nat
  PROVE  f[n] = Power(a, n)
<1> DEFINE T == {l \in Nat : f[l] # Power(a, l)}
<1>1. SUFFICES ASSUME T # {} PROVE FALSE
  OBVIOUS
<1>2. PICK l \in T : \A w \in T : l <= w
  <2>1. T \subseteq Nat
    OBVIOUS
  <2> HIDE DEF T
  <2> QED
    BY <1>1, <2>1, LeastNat
<1>3. f[0] = 1 /\ Power(a, 0) = 1
  BY PowerStep DEF Squares
<1>4. l \in Nat /\ l # 0 /\ l \div 2 \in Nat /\ l \div 2 < l
  BY <1>2, <1>3
<1>5. f[l \div 2] = Power(a, l \div 2)
  BY <1>2, <1>4
<1>6. f[l] = LET half == f[l \div 2] IN IF l % 2 = 0 THEN Mul(half, half) ELSE Mul(a, Mul(half, half))
  BY <1>4 DEF Squares
<1>7. f[l] = Power(a, l)
  BY <1>4, <1>5, <1>6, PowerSquares
<1> QED
  BY <1>2, <1>7

\* pow(a, -1, P) is a to the P - 2.
LEMMA InvIsPower ==
  ASSUME NEW a \in Field
  PROVE  Inv(a) = Power(a, P - 2)
<1>1. Inv(a) = (CHOOSE f : Squares(f, a))[P - 2]
  BY Zenon DEF Inv, Squares
<1> DEFINE g == [n \in Nat |-> Power(a, n)]
<1>2. Squares(g, a)
  <2> DEFINE r == [n \in Nat |-> IF n = 0 THEN 1
                                 ELSE LET half == g[n \div 2]
                                      IN  IF n % 2 = 0 THEN Mul(half, half) ELSE Mul(a, Mul(half, half))]
  <2>1. ASSUME NEW n \in Nat PROVE g[n] = r[n]
    <3>1. CASE n = 0
      BY <3>1, PowerStep
    <3>2. CASE n # 0
      <4>1. n \div 2 \in Nat
        OBVIOUS
      <4> QED
        BY <3>2, <4>1, PowerSquares
    <3> QED
      BY <3>1, <3>2
  <2>2. g = r
    BY <2>1
  <2> HIDE DEF g
  <2> QED
    BY <2>2 DEF Squares
<1> HIDE DEF g
<1>3. Squares(CHOOSE f : Squares(f, a), a)
  BY <1>2
<1>4. P - 2 \in Nat
  BY SharingAssumption
<1> QED
  BY <1>1, <1>3, <1>4, SquaresIsPower

\* Every number but zero has an inverse, and there are no divisors of zero.
THEOREM Inverses ==
  ASSUME NEW a \in Field, a # 0
  PROVE  /\ Inv(a) \in Field /\ Inv(a) # 0 /\ Mul(a, Inv(a)) = 1 /\ Mul(Inv(a), a) = 1
         /\ \A b \in Field : Mul(a, b) = 1 => b = Inv(a)
         /\ \A b \in Field : b # 0 => Mul(a, b) # 0
         /\ \A b, c \in Field : Mul(a, b) = Mul(a, c) => b = c
<1>1. P - 2 \in Nat /\ (P - 2) + 1 = P - 1
  BY SharingAssumption
<1>2. Inv(a) \in Field /\ Mul(a, Inv(a)) = 1
  BY <1>1, InvIsPower, PowerStep, Fermat
<1>3. Mul(Inv(a), a) = 1 /\ Inv(a) # 0
  BY <1>2, MulLaws, Zeros
<1>4. ASSUME NEW b \in Field, Mul(a, b) = 1 PROVE b = Inv(a)
  BY <1>2, <1>4, Cancels
<1> QED
  BY <1>2, <1>3, <1>4, Cancels, NoDivisorsOfZero

------------------------------------------------------------------------------
(* The points' basis *)

\* The inverse of a product.
LEMMA InverseOfProduct ==
  ASSUME NEW a \in Field, a # 0, NEW b \in Field, b # 0
  PROVE  Mul(a, b) \in Field /\ Mul(a, b) # 0 /\ Inv(Mul(a, b)) = Mul(Inv(a), Inv(b))
<1>1. /\ Inv(a) \in Field /\ Inv(b) \in Field /\ Mul(a, b) \in Field /\ Mul(a, b) # 0
      /\ Mul(Inv(a), Inv(b)) \in Field /\ Mul(a, Inv(a)) = 1 /\ Mul(b, Inv(b)) = 1
  BY Inverses, MulLaws
<1>2. Mul(Mul(a, b), Mul(Inv(a), Inv(b))) = Mul(1, 1)
  BY <1>1, MulPairs
<1>3. Mul(1, 1) = 1
  BY Zeros, MulLaws
<1> QED
  BY <1>1, <1>2, <1>3, Inverses

\* Coordinates: a point of the field for each element of D, no two the same in S.
Apart(x, S) == \A j, k \in S : j # k => x[j] # x[k]

\* The polynomial that is zero at the points of S ...
Zero(x, S, q) == Product([k \in S |-> Sub(q, x[k])])

\* ... and the one that is zero at those but j's, where it is 1.
Basis(x, S, j, q) == Mul(Zero(x, S \ {j}, q), Inv(Zero(x, S \ {j}, x[j])))

\* One factor at a time.
LEMMA ZeroStep ==
  ASSUME NEW D, IsFiniteSet(D), NEW x, Terms(x, D), NEW S, S \subseteq D, NEW q \in Field
  PROVE  /\ Zero(x, S, q) \in Field /\ (S = {} => Zero(x, S, q) = 1)
         /\ \A a \in S : Zero(x, S, q) = Mul(Sub(q, x[a]), Zero(x, S \ {a}, q))
<1> DEFINE t == [k \in D |-> Sub(q, x[k])]
<1>1. Terms(t, D)
  BY AddLaws DEF Terms
<1>2. /\ \A s \in SUBSET D : Restrict(t, s) = [k \in s |-> Sub(q, x[k])]
      /\ \A a \in D : t[a] = Sub(q, x[a])
  BY DEF Restrict
<1>3. \A s \in SUBSET D : Product(Restrict(t, s)) = Zero(x, s, q)
  BY <1>2 DEF Zero
<1>4. S \in SUBSET D /\ \A a \in S : S \ {a} \in SUBSET D /\ a \in D
  OBVIOUS
<1> HIDE DEF t
<1>5. /\ Product(Restrict(t, S)) \in Field /\ (S = {} => Product(Restrict(t, S)) = 1)
      /\ \A a \in S : Product(Restrict(t, S)) = Mul(t[a], Product(Restrict(t, S \ {a})))
  BY <1>1, PartialProducts
<1> QED
  BY <1>2, <1>3, <1>4, <1>5

\* It is zero nowhere else.
LEMMA ZeroElsewhere ==
  ASSUME NEW D, IsFiniteSet(D), NEW x, Terms(x, D), NEW S, S \subseteq D, NEW q \in Field,
         \A k \in S : x[k] # q
  PROVE  Zero(x, S, q) # 0
<1> DEFINE T == {s \in SUBSET S : Zero(x, s, q) = 0}
<1>1. SUFFICES ASSUME T # {} PROVE FALSE
  OBVIOUS
<1>2. PICK s \in T : \A w \in T : ~(w \subseteq s /\ w # s)
  <2>1. T \subseteq SUBSET S /\ IsFiniteSet(S)
    BY FS_Subset
  <2> HIDE DEF T
  <2> QED
    BY <1>1, <2>1, LeastSubset
<1>3. s \subseteq S /\ s \subseteq D /\ Zero(x, s, q) = 0
  OBVIOUS
<1>4. s # {}
  BY <1>3, Zeros, ZeroStep
<1>5. PICK a \in s : TRUE
  BY <1>4
<1> DEFINE r == s \ {a}
<1>6. Zero(x, r, q) # 0 /\ r \subseteq D
  BY <1>2, <1>3
<1>7. Zero(x, s, q) = Mul(Sub(q, x[a]), Zero(x, r, q)) /\ Zero(x, r, q) \in Field
  BY <1>3, <1>6, ZeroStep
<1>8. x[a] \in Field /\ x[a] # q
  BY <1>3 DEF Terms
<1>9. Sub(q, x[a]) \in Field /\ Sub(q, x[a]) # 0
  BY <1>8, AddLaws
<1> HIDE DEF r
<1> QED
  BY <1>3, <1>6, <1>7, <1>9, Inverses

\* Two numbers differ by something.
LEMMA Differ ==
  ASSUME NEW a \in Field, NEW b \in Field, a # b
  PROVE  Sub(a, b) \in Field /\ Sub(a, b) # 0
  BY AddLaws

\* Negative numbers.
LEMMA Negatives ==
  ASSUME NEW a \in Field, NEW b \in Field, a # b, NEW z \in Field
  PROVE  /\ Sub(a, b) \in Field /\ Sub(a, b) # 0 /\ Sub(b, a) \in Field /\ Sub(b, a) # 0
         /\ Mul(Sub(a, b), z) = Sub(0, Mul(Sub(b, a), z))
         /\ Mul(Mul(z, Inv(Sub(b, a))), Sub(a, b)) = Sub(0, z)
         /\ Mul(Mul(z, Inv(Sub(a, b))), Sub(a, b)) = z
<1> DEFINE m == Sub(a, b)
           n == Sub(b, a)
<1>1. m \in Field /\ m # 0 /\ n \in Field /\ n # 0 /\ 0 \in Field
  BY AddLaws, Zeros
<1>2. m = Sub(0, n)
  BY SharingAssumption DEF Sub, Field
<1> HIDE DEF m, n
<1>3. ASSUME NEW y \in Field PROVE Mul(m, y) = Sub(0, Mul(n, y)) /\ Mul(n, y) \in Field
  <2>1. Mul(y, m) = Sub(Mul(y, 0), Mul(y, n))
    BY <1>1, <1>2, MulDistributes
  <2> QED
    BY <1>1, <2>1, MulLaws
<1>4. Inv(n) \in Field /\ Mul(Inv(n), n) = 1 /\ Inv(m) \in Field /\ Mul(Inv(m), m) = 1
  BY <1>1, Inverses
<1>5. Mul(z, Inv(n)) \in Field /\ Mul(z, 1) = z
  BY <1>4, MulLaws
<1>6. Mul(Mul(z, Inv(n)), n) = z /\ Mul(Mul(z, Inv(m)), m) = z
  BY <1>1, <1>4, <1>5, MulAssociates
<1>7. Mul(Mul(z, Inv(n)), m) = Sub(0, z)
  <2>1. Mul(m, Mul(z, Inv(n))) = Sub(0, Mul(n, Mul(z, Inv(n))))
    BY <1>3, <1>5
  <2> QED
    BY <1>1, <1>5, <1>6, <2>1, MulLaws
<1> QED
  BY <1>1, <1>3, <1>6, <1>7 DEF m, n

\* A fraction of differences is 1 less another.
LEMMA FractionStep ==
  ASSUME NEW q \in Field, NEW b \in Field, NEW y \in Field, b # y
  PROVE  Mul(Sub(q, b), Inv(Sub(y, b))) = Sub(1, Mul(Sub(q, y), Inv(Sub(b, y))))
<1> DEFINE m == Sub(y, b)
           z == Mul(Sub(q, y), Inv(Sub(b, y)))
           w == Mul(Sub(q, b), Inv(m))
<1>1. /\ Sub(q, y) \in Field /\ Sub(q, b) \in Field /\ m \in Field /\ m # 0
      /\ Sub(b, y) \in Field /\ Sub(b, y) # 0 /\ 0 \in Field /\ 1 \in Field
  BY AddLaws, Zeros
<1>2. z \in Field /\ w \in Field /\ Sub(1, z) \in Field
  BY <1>1, Inverses, MulLaws, AddLaws
<1>3. Mul(z, m) = Sub(0, Sub(q, y)) /\ Mul(w, m) = Sub(q, b)
  BY <1>1, Negatives
<1> HIDE DEF z, w
<1>4. Mul(m, Sub(1, z)) = Sub(m, Sub(0, Sub(q, y)))
  <2>1. Mul(m, Sub(1, z)) = Sub(Mul(m, 1), Mul(m, z))
    BY <1>1, <1>2, MulDistributes
  <2> HIDE DEF m
  <2> QED
    BY <1>1, <1>2, <1>3, <2>1, MulLaws
<1>5. Sub(m, Sub(0, Sub(q, y))) = Sub(q, b)
  BY SharingAssumption DEF Sub, Field
<1>6. Mul(m, w) = Mul(m, Sub(1, z))
  <2> HIDE DEF m
  <2> QED
    BY <1>1, <1>2, <1>3, <1>4, <1>5, MulLaws
<1>7. w = Sub(1, z)
  BY <1>1, <1>2, <1>6, Inverses
<1> QED
  BY <1>7 DEF z, w

\* What a polynomial of the basis is made of.
LEMMA BasisParts ==
  ASSUME NEW D, IsFiniteSet(D), NEW x, Terms(x, D), NEW S, S \subseteq D, Apart(x, S),
         NEW j \in S, NEW q \in Field
  PROVE  /\ x[j] \in Field /\ Zero(x, S \ {j}, q) \in Field
         /\ Zero(x, S \ {j}, x[j]) \in Field /\ Zero(x, S \ {j}, x[j]) # 0
         /\ Inv(Zero(x, S \ {j}, x[j])) \in Field /\ Basis(x, S, j, q) \in Field
<1> DEFINE V == S \ {j}
<1>1. x[j] \in Field
  BY DEF Terms
<1>2. V \subseteq D /\ \A k \in V : x[k] # x[j]
  BY DEF Apart
<1> HIDE DEF V
<1>3. Zero(x, V, q) \in Field /\ Zero(x, V, x[j]) \in Field
  BY <1>1, <1>2, ZeroStep
<1>4. Zero(x, V, x[j]) # 0
  BY <1>1, <1>2, ZeroElsewhere
<1>5. Inv(Zero(x, V, x[j])) \in Field
  BY <1>3, <1>4, Inverses
<1>6. Mul(Zero(x, V, q), Inv(Zero(x, V, x[j]))) \in Field
  BY <1>3, <1>5, MulLaws
<1> QED
  BY <1>1, <1>3, <1>4, <1>5, <1>6 DEF V, Basis

\* The basis with another point.
LEMMA BasisStep ==
  ASSUME NEW D, IsFiniteSet(D), NEW x, Terms(x, D), NEW S, S \subseteq D, Apart(x, S),
         NEW a \in S, NEW j \in S, j # a, NEW q \in Field
  PROVE  /\ Basis(x, S, j, q) = Mul(Basis(x, S \ {a}, j, q), Mul(Sub(q, x[a]), Inv(Sub(x[j], x[a]))))
         /\ Basis(x, S \ {a}, j, q) \in Field
         /\ x[a] \in Field /\ x[j] \in Field /\ Sub(x[j], x[a]) # 0
<1> DEFINE V == S \ {j}
           U == (S \ {a}) \ {j}
           w == Zero(x, U, q)
           d == Zero(x, U, x[j])
           m == Sub(q, x[a])
           n == Sub(x[j], x[a])
<1>1. V \subseteq D /\ a \in V /\ V \ {a} = U /\ Apart(x, S \ {a}) /\ S \ {a} \subseteq D /\ j \in S \ {a}
  BY DEF Apart
<1>2. x[a] \in Field /\ x[j] \in Field /\ x[j] # x[a]
  BY DEF Terms, Apart
<1>3. m \in Field /\ n \in Field /\ n # 0
  <2>1. m \in Field
    BY <1>2, AddLaws
  <2>2. n \in Field /\ n # 0
    BY <1>2, Differ
  <2> QED
    BY <2>1, <2>2
<1>4. w \in Field /\ d \in Field /\ d # 0 /\ Inv(d) \in Field /\ Basis(x, S \ {a}, j, q) \in Field
  BY <1>1, BasisParts
<1>5. Zero(x, V, q) = Mul(m, w) /\ Zero(x, V, x[j]) = Mul(n, d)
  <2> HIDE DEF V, U
  <2> QED
    BY <1>1, <1>2, ZeroStep
<1>6. Basis(x, S, j, q) = Mul(Zero(x, V, q), Inv(Zero(x, V, x[j])))
      /\ Basis(x, S \ {a}, j, q) = Mul(w, Inv(d))
  BY DEF Basis
<1> HIDE DEF V, U, w, d, m, n
<1>7. Inv(Mul(n, d)) = Mul(Inv(n), Inv(d)) /\ Inv(n) \in Field
  BY <1>3, <1>4, InverseOfProduct, Inverses
<1>8. Mul(Mul(m, w), Mul(Inv(n), Inv(d))) = Mul(Mul(m, Inv(n)), Mul(w, Inv(d)))
  BY <1>3, <1>4, <1>7, MulPairs
<1>9. Mul(Mul(m, Inv(n)), Mul(w, Inv(d))) = Mul(Mul(w, Inv(d)), Mul(m, Inv(n)))
  <2>1. Mul(m, Inv(n)) \in Field /\ Mul(w, Inv(d)) \in Field
    BY <1>3, <1>4, <1>7, MulLaws
  <2> QED
    BY <2>1, MulLaws
<1>10. Basis(x, S, j, q) = Mul(Basis(x, S \ {a}, j, q), Mul(m, Inv(n)))
  BY <1>5, <1>6, <1>7, <1>8, <1>9
<1> QED
  BY <1>2, <1>3, <1>4, <1>10 DEF m, n

\* The basis without a point, less the share of that point's own.
LEMMA BasisLess ==
  ASSUME NEW D, IsFiniteSet(D), NEW x, Terms(x, D), NEW S, S \subseteq D, Apart(x, S),
         NEW b \in S, NEW j \in S, j # b, NEW q \in Field
  PROVE  Basis(x, S, j, q) =
           Sub(Basis(x, S \ {b}, j, q), Mul(Basis(x, S, b, q), Basis(x, S \ {b}, j, x[b])))
<1> DEFINE T == S \ {b}
           V == T \ {j}
           w == Zero(x, V, q)
           wb == Zero(x, V, x[b])
           d == Zero(x, V, x[j])
           m == Sub(q, x[j])
           n == Sub(x[b], x[j])
           e == Mul(w, Inv(d))
           f == Mul(m, Inv(n))
<1>1. /\ T \subseteq D /\ j \in T /\ Apart(x, T) /\ V \subseteq D
      /\ \A k \in V : x[k] # x[b]
  BY DEF Apart
<1>2. x[b] \in Field /\ x[j] \in Field /\ x[j] # x[b]
  BY DEF Terms, Apart
<1>3. m \in Field /\ n \in Field /\ n # 0 /\ Inv(n) \in Field /\ f \in Field
  <2>1. m \in Field
    BY <1>2, AddLaws
  <2>2. n \in Field /\ n # 0
    BY <1>2, Differ
  <2> HIDE DEF m, n
  <2>3. Inv(n) \in Field
    BY <2>2, Inverses
  <2> QED
    BY <2>1, <2>2, <2>3, MulLaws
<1>4. w \in Field /\ d \in Field /\ d # 0 /\ Inv(d) \in Field
  BY <1>1, BasisParts
<1>5. wb \in Field /\ wb # 0 /\ Inv(wb) \in Field /\ Mul(Inv(wb), wb) = 1
  <2> HIDE DEF V
  <2>1. wb \in Field
    BY <1>1, <1>2, ZeroStep
  <2>2. wb # 0
    BY <1>1, <1>2, ZeroElsewhere
  <2> HIDE DEF wb
  <2> QED
    BY <2>1, <2>2, Inverses
<1>6. Zero(x, T, q) = Mul(m, w) /\ Zero(x, T, x[b]) = Mul(n, wb)
  <2> HIDE DEF T
  <2> QED
    BY <1>1, <1>2, ZeroStep
<1>7. /\ Basis(x, S, b, q) = Mul(Zero(x, T, q), Inv(Zero(x, T, x[b])))
      /\ Basis(x, T, j, q) = e /\ Basis(x, T, j, x[b]) = Mul(wb, Inv(d))
  BY DEF Basis
<1>8. Basis(x, S, j, q) = Mul(e, Mul(Sub(q, x[b]), Inv(Sub(x[j], x[b]))))
  BY <1>7, BasisStep
<1> HIDE DEF T, V, w, wb, d
<1>9. e \in Field /\ Mul(w, Inv(wb)) \in Field
  BY <1>4, <1>5, MulLaws
<1>10. Basis(x, S, b, q) = Mul(f, Mul(w, Inv(wb)))
  <2> HIDE DEF m, n
  <2>1. Inv(Mul(n, wb)) = Mul(Inv(n), Inv(wb))
    BY <1>3, <1>5, InverseOfProduct
  <2>2. Mul(Mul(m, w), Mul(Inv(n), Inv(wb))) = Mul(f, Mul(w, Inv(wb)))
    BY <1>3, <1>4, <1>5, MulPairs
  <2> QED
    BY <1>6, <1>7, <2>1, <2>2
<1>11. Mul(Mul(w, Inv(wb)), Mul(wb, Inv(d))) = e
  <2>1. Mul(wb, Inv(d)) = Mul(Inv(d), wb)
    BY <1>4, <1>5, MulLaws
  <2>2. Mul(Mul(w, Inv(wb)), Mul(Inv(d), wb)) = Mul(e, Mul(Inv(wb), wb))
    BY <1>4, <1>5, MulPairs
  <2>3. Mul(e, 1) = e
    BY <1>9, MulLaws
  <2> QED
    BY <1>5, <2>1, <2>2, <2>3
<1>12. Mul(Basis(x, S, b, q), Basis(x, T, j, x[b])) = Mul(f, e)
  <2>1. Mul(wb, Inv(d)) \in Field
    BY <1>4, <1>5, MulLaws
  <2>2. Mul(Mul(f, Mul(w, Inv(wb))), Mul(wb, Inv(d))) = Mul(f, Mul(Mul(w, Inv(wb)), Mul(wb, Inv(d))))
    <3> HIDE DEF f
    <3> QED
      BY <1>3, <1>9, <2>1, MulAssociates
  <2> QED
    BY <1>7, <1>10, <1>11, <2>2
<1>13. Mul(Sub(q, x[b]), Inv(Sub(x[j], x[b]))) = Sub(1, f)
  BY <1>2, FractionStep
<1> HIDE DEF e, f
<1>14. Mul(e, Sub(1, f)) = Sub(e, Mul(f, e))
  <2>1. 1 \in Field /\ Mul(e, 1) = e /\ Mul(e, f) = Mul(f, e)
    BY <1>3, <1>9, Zeros, MulLaws
  <2>2. Mul(e, Sub(1, f)) = Sub(Mul(e, 1), Mul(e, f))
    BY <1>3, <1>9, <2>1, MulDistributes
  <2> QED
    BY <2>1, <2>2
<1> QED
  BY <1>7, <1>8, <1>12, <1>13, <1>14 DEF T

\* The basis at q, a number for each point.
BasisAt(x, S, q) == [j \in S |-> Basis(x, S, j, q)]

\* At every q the numbers add up to 1.
THEOREM Unity ==
  ASSUME NEW D, IsFiniteSet(D), NEW x, Terms(x, D), NEW S, S \subseteq D, Apart(x, S), S # {}, NEW q \in Field
  PROVE  Sum(BasisAt(x, S, q)) = 1
<1> DEFINE T == {s \in SUBSET S : s # {} /\ \E p \in Field : Sum(BasisAt(x, s, p)) # 1}
<1>1. SUFFICES ASSUME T # {} PROVE FALSE
  OBVIOUS
<1>2. PICK s \in T : \A w \in T : ~(w \subseteq s /\ w # s)
  <2>1. T \subseteq SUBSET S /\ IsFiniteSet(S)
    BY FS_Subset
  <2> HIDE DEF T
  <2> QED
    BY <1>1, <2>1, LeastSubset
<1>3. PICK p \in Field : Sum(BasisAt(x, s, p)) # 1
  OBVIOUS
<1>4. PICK b \in s : TRUE
  OBVIOUS
<1> DEFINE r == s \ {b}
           k == Basis(x, s, b, p)
           u == BasisAt(x, r, p)
           v == BasisAt(x, r, x[b])
<1>5. /\ s \subseteq D /\ IsFiniteSet(s) /\ Apart(x, s)
      /\ r \subseteq D /\ IsFiniteSet(r) /\ Apart(x, r) /\ r \subseteq s
  BY FS_Subset DEF Apart
<1>6. x[b] \in Field /\ k \in Field
  BY <1>5, BasisParts
<1>7. \A w \in SUBSET s : \A z \in Field : Terms(BasisAt(x, w, z), w)
  <2>1. ASSUME NEW w, w \subseteq s, NEW z \in Field, NEW j \in w PROVE Basis(x, w, j, z) \in Field
    <3>1. w \subseteq D /\ Apart(x, w)
      BY <1>5, <2>1 DEF Apart
    <3> QED
      BY <3>1, BasisParts
  <2> QED
    BY <2>1 DEF BasisAt, Terms
<1>8. /\ Sum(BasisAt(x, s, p)) = Add(k, Sum(Restrict(BasisAt(x, s, p), r)))
      /\ r = {} => Sum(Restrict(BasisAt(x, s, p), r)) = 0
  <2> DEFINE t == BasisAt(x, s, p)
  <2>1. Terms(t, s) /\ t[b] = k
    BY <1>7 DEF BasisAt
  <2> HIDE DEF t, r
  <2>2. Restrict(t, s) = t /\ Sum(Restrict(t, s)) = Add(t[b], Sum(Restrict(t, s \ {b})))
    BY <1>5, <2>1, PartialSums
  <2>3. r = {} => Sum(Restrict(t, r)) = 0
    BY <1>5, <2>1, PartialSums
  <2> QED
    BY <2>1, <2>2, <2>3 DEF t, r
<1>9. CASE r = {}
  <2>1. Zero(x, r, p) = 1 /\ Zero(x, r, x[b]) = 1
    BY <1>5, <1>6, <1>9, ZeroStep
  <2>2. Inv(1) = 1
    BY Zeros, MulLaws, Inverses
  <2>3. k = 1
    BY <2>1, <2>2, Zeros, MulLaws DEF Basis
  <2> HIDE DEF r, k
  <2> QED
    BY <1>3, <1>8, <1>9, <2>3, Zeros, AddLaws
<1>10. CASE r # {}
  <2>1. Sum(u) = 1 /\ Sum(v) = 1
    BY <1>2, <1>6, <1>10
  <2>2. Terms(u, r) /\ Terms(v, r) /\ 1 \in Field
    BY <1>6, <1>7, Zeros
  <2>3. Restrict(BasisAt(x, s, p), r) = Blend(1, u, k, v)
    <3>1. ASSUME NEW j \in r PROVE Basis(x, s, j, p) = Sub(Mul(1, u[j]), Mul(k, v[j]))
      <4>1. Basis(x, s, j, p) = Sub(Basis(x, r, j, p), Mul(k, Basis(x, r, j, x[b])))
        BY <1>5, BasisLess
      <4>2. u[j] = Basis(x, r, j, p) /\ v[j] = Basis(x, r, j, x[b])
        BY DEF BasisAt
      <4>3. u[j] \in Field
        BY <2>2 DEF Terms
      <4> HIDE DEF u, v, k, r
      <4> QED
        BY <4>1, <4>2, <4>3, <2>2, MulLaws
    <3> QED
      BY <3>1 DEF Restrict, Blend, BasisAt
  <2> HIDE DEF u, v, k, r
  <2>4. Sum(Blend(1, u, k, v)) = Sub(Mul(1, 1), Mul(k, 1))
    BY <1>5, <1>6, <2>1, <2>2, SumBlend
  <2>5. Mul(1, 1) = 1 /\ Mul(k, 1) = k
    BY <1>6, <2>2, MulLaws
  <2>6. Sub(1, k) \in Field /\ Add(Sub(1, k), k) = 1 /\ Add(Sub(1, k), k) = Add(k, Sub(1, k))
    BY <1>6, <2>2, AddLaws
  <2> QED
    BY <1>3, <1>8, <2>3, <2>4, <2>5, <2>6
<1> QED
  BY <1>9, <1>10

------------------------------------------------------------------------------
(* Polynomials *)

\* Induction downwards from n, and upwards from 0.
LEMMA Downwards ==
  ASSUME NEW n \in Nat, NEW T, n \in T, \A j \in 0..n - 1 : j + 1 \in T => j \in T
  PROVE  \A j \in 0..n : j \in T
<1> DEFINE U == {m \in 0..n : n - m \notin T}
<1>1. SUFFICES ASSUME NEW j \in 0..n, j \notin T PROVE FALSE
  OBVIOUS
<1>2. PICK k \in 0..n : j = n - k
  <2>1. n - j \in 0..n /\ j = n - (n - j)
    OBVIOUS
  <2> QED
    BY <2>1
<1>3. U \subseteq Nat /\ k \in U
  BY <1>1, <1>2
<1>4. PICK m \in U : \A i \in U : m <= i
  <2> HIDE DEF U
  <2> QED
    BY <1>3, LeastNat
<1>5. m \in 0..n /\ n - m \notin T /\ m # 0
  OBVIOUS
<1>6. m - 1 \in 0..n /\ ~(m <= m - 1)
  BY <1>5
<1>7. n - (m - 1) \in T
  BY <1>4, <1>6
<1>8. n - m \in 0..n - 1 /\ (n - m) + 1 = n - (m - 1)
  BY <1>5
<1> QED
  BY <1>5, <1>7, <1>8

\* Induction upwards, for all numbers.
LEMMA Upwards ==
  ASSUME NEW T, 0 \in T, \A n \in Nat : n \in T => n + 1 \in T
  PROVE  Nat \subseteq T
<1> DEFINE U == Nat \ T
<1>1. SUFFICES ASSUME U # {} PROVE FALSE
  OBVIOUS
<1>2. PICK n \in U : \A m \in U : n <= m
  <2>1. U \subseteq Nat
    OBVIOUS
  <2> HIDE DEF U
  <2> QED
    BY <1>1, <2>1, LeastNat
<1>3. n \in Nat /\ n \notin T /\ n # 0
  OBVIOUS
<1>4. n - 1 \in Nat /\ ~(n <= n - 1) /\ (n - 1) + 1 = n
  BY <1>3
<1>5. n - 1 \in T
  BY <1>2, <1>4
<1> QED
  BY <1>3, <1>4, <1>5

\* The coefficients of a polynomial of degree n, or less.
Coeffs(c, n) == n \in Nat /\ c \in [0..n -> Field]

\* Horner's loop for it at q: its value is acc[0].
Horner(acc, c, n, q) ==
  acc = [j \in 0..n + 1 |-> IF j > n THEN 0 ELSE Add(Mul(acc[j + 1], q), c[j])]

\* What the loop holds at each turn.
LEMMA HornerStep ==
  ASSUME NEW c, NEW n, Coeffs(c, n), NEW q \in Field, NEW acc, Horner(acc, c, n, q)
  PROVE  /\ acc[n + 1] = 0
         /\ \A j \in 0..n : /\ acc[j] \in Field /\ acc[j + 1] \in Field /\ c[j] \in Field
                            /\ acc[j] = Add(Mul(acc[j + 1], q), c[j])
<1>1. n \in Nat /\ \A j \in 0..n : c[j] \in Field
  BY DEF Coeffs
<1>2. acc[n + 1] = 0
  <2>1. n + 1 \in 0..n + 1 /\ n + 1 > n
    BY <1>1
  <2> QED
    BY <2>1 DEF Horner
<1>3. ASSUME NEW j \in 0..n PROVE acc[j] = Add(Mul(acc[j + 1], q), c[j])
  <2>1. j \in 0..n + 1 /\ ~(j > n)
    BY <1>1
  <2> QED
    BY <2>1 DEF Horner
<1> DEFINE T == {j \in 0..n : acc[j] \in Field /\ acc[j + 1] \in Field}
<1>4. ASSUME NEW j \in 0..n, acc[j + 1] \in Field PROVE j \in T
  <2>1. Mul(acc[j + 1], q) \in Field
    BY <1>4, MulLaws
  <2>2. Add(Mul(acc[j + 1], q), c[j]) \in Field
    BY <1>1, <2>1, AddLaws
  <2> QED
    BY <1>3, <1>4, <2>2
<1>5. n \in T
  BY <1>1, <1>2, <1>4, Zeros
<1>6. \A j \in 0..n - 1 : j + 1 \in T => j \in T
  BY <1>1, <1>4
<1>7. \A j \in 0..n : j \in T
  <2> HIDE DEF T
  <2> QED
    BY <1>1, <1>5, <1>6, Downwards
<1> QED
  BY <1>1, <1>2, <1>3, <1>7

\* The loop computes something for every polynomial, at every q.
LEMMA HornerExists ==
  ASSUME NEW c, NEW n, Coeffs(c, n), NEW q \in Field
  PROVE  \E acc : Horner(acc, c, n, q)
<1> DEFINE T == {m \in Nat : \A d : Coeffs(d, m) => \E acc : Horner(acc, d, m, q)}
<1>1. 0 \in T
  <2>1. ASSUME NEW d PROVE \E acc : Horner(acc, d, 0, q)
    <3> DEFINE acc == [j \in 0..1 |-> IF j = 1 THEN 0 ELSE Add(Mul(0, q), d[0])]
    <3>1. \A j \in 0..1 : j > 0 <=> j = 1
      OBVIOUS
    <3>2. \A j \in 0..1 : j # 1 => j = 0
      OBVIOUS
    <3>3. acc[1] = 0 /\ 0 + 1 = 1
      OBVIOUS
    <3>4. acc = [j \in 0..1 |-> IF j > 0 THEN 0 ELSE Add(Mul(acc[j + 1], q), d[j])]
      BY <3>1, <3>2, <3>3
    <3> HIDE DEF acc
    <3> QED
      BY <3>3, <3>4 DEF Horner
  <2> QED
    BY <2>1
<1>2. ASSUME NEW m \in Nat, m \in T PROVE m + 1 \in T
  <2>1. ASSUME NEW d, Coeffs(d, m + 1) PROVE \E acc : Horner(acc, d, m + 1, q)
    <3> DEFINE e == [j \in 0..m |-> d[j + 1]]
    <3>1. Coeffs(e, m)
      BY <2>1 DEF Coeffs
    <3>2. PICK tail : Horner(tail, e, m, q)
      BY <1>2, <3>1
    <3> DEFINE acc == [j \in 0..m + 2 |-> IF j = 0 THEN Add(Mul(tail[0], q), d[0]) ELSE tail[j - 1]]
    <3>3. ASSUME NEW j \in 0..m + 2
          PROVE  acc[j] = IF j > m + 1 THEN 0 ELSE Add(Mul(acc[j + 1], q), d[j])
      <4>1. CASE j = 0
        BY <4>1
      <4>2. CASE j > m + 1
        <5>1. j - 1 = m + 1 /\ j # 0 /\ tail[m + 1] = 0
          BY <3>1, <3>2, <4>2, HornerStep
        <5> QED
          BY <4>2, <5>1
      <4>3. CASE j # 0 /\ ~(j > m + 1)
        <5>1. j - 1 \in 0..m /\ (j - 1) + 1 = j /\ j + 1 \in 0..m + 2 /\ j + 1 # 0 /\ (j + 1) - 1 = j
          BY <4>3
        <5>2. tail[j - 1] = Add(Mul(tail[j], q), e[j - 1]) /\ e[j - 1] = d[j]
          BY <3>1, <3>2, <5>1, HornerStep
        <5>3. acc[j + 1] = tail[j] /\ acc[j] = tail[j - 1]
          BY <4>3, <5>1
        <5> QED
          BY <4>3, <5>2, <5>3
      <4> QED
        BY <4>1, <4>2, <4>3
    <3>4. (m + 1) + 1 = m + 2
      OBVIOUS
    <3>5. acc = [j \in 0..m + 2 |-> IF j > m + 1 THEN 0 ELSE Add(Mul(acc[j + 1], q), d[j])]
      BY <3>3
    <3> HIDE DEF acc
    <3> QED
      BY <3>4, <3>5 DEF Horner
  <2> QED
    BY <2>1
<1>3. Nat \subseteq T
  <2> HIDE DEF T
  <2> QED
    BY <1>1, <1>2, Upwards
<1> QED
  BY <1>3 DEF Coeffs

\* Division by q - a: what the loop at a passes through are the coefficients of the quotient,
\* and what it ends with is the remainder.
Quotient(A, n) == [j \in 0..n - 1 |-> A[j + 1]]

\* The value at q is the remainder and q - a times the quotient's value.
LEMMA SyntheticDivision ==
  ASSUME NEW c, NEW n, Coeffs(c, n), n # 0, NEW a \in Field, NEW q \in Field,
         NEW A, Horner(A, c, n, a), NEW F, Horner(F, c, n, q),
         NEW d, d = Quotient(A, n), NEW G, Horner(G, d, n - 1, q)
  PROVE  /\ Coeffs(d, n - 1) /\ d[n - 1] = c[n]
         /\ F[0] \in Field /\ A[0] \in Field /\ G[0] \in Field
         /\ F[0] = Add(A[0], Mul(Sub(q, a), G[0]))
<1>1. n \in Nat /\ n - 1 \in Nat /\ (n - 1) + 1 = n /\ 0 \in 0..n /\ n \in 0..n /\ 0 \in 0..n - 1
  BY DEF Coeffs
<1>2. /\ A[n + 1] = 0
      /\ \A j \in 0..n : /\ A[j] \in Field /\ A[j + 1] \in Field /\ c[j] \in Field
                         /\ A[j] = Add(Mul(A[j + 1], a), c[j])
  BY HornerStep
<1>3. /\ F[n + 1] = 0
      /\ \A j \in 0..n : /\ F[j] \in Field /\ F[j + 1] \in Field
                         /\ F[j] = Add(Mul(F[j + 1], q), c[j])
  BY HornerStep
<1>4. Coeffs(d, n - 1)
  BY <1>1, <1>2 DEF Coeffs, Quotient
<1>5. /\ G[n] = 0
      /\ \A j \in 0..n - 1 : /\ G[j] \in Field /\ G[j + 1] \in Field
                             /\ G[j] = Add(Mul(G[j + 1], q), A[j + 1])
  <2>1. ASSUME NEW k, k = n - 1
        PROVE  /\ G[k + 1] = 0
               /\ \A j \in 0..k : /\ G[j] \in Field /\ G[j + 1] \in Field
                                 /\ G[j] = Add(Mul(G[j + 1], q), d[j])
    <3>1. Coeffs(d, k) /\ Horner(G, d, k, q) /\ q \in Field
      BY <1>4, <2>1
    <3> QED
      BY ONLY <3>1, HornerStep
  <2>2. \A j \in 0..n - 1 : d[j] = A[j + 1]
    BY DEF Quotient
  <2> QED
    BY <1>1, <2>1, <2>2
<1> DEFINE m == Sub(q, a)
           T == {j \in 0..n : F[j] = Add(A[j], Mul(m, G[j]))}
<1>6. m \in Field
  BY AddLaws
<1>7. A[n] = c[n] /\ F[n] = c[n] /\ c[n] \in Field
  <2>1. A[n] = Add(Mul(0, a), c[n]) /\ F[n] = Add(Mul(0, q), c[n]) /\ c[n] \in Field
    BY <1>1, <1>2, <1>3
  <2> QED
    BY <2>1, MulLaws, AddLaws
<1>8. n \in T
  <2>1. Mul(m, 0) = 0 /\ Add(c[n], 0) = c[n]
    BY <1>6, <1>7, MulLaws, AddLaws
  <2> QED
    BY <1>1, <1>5, <1>7, <2>1
<1>9. ASSUME NEW u \in Field, NEW v \in Field, NEW w \in Field
      PROVE  Add(Mul(Add(u, Mul(m, v)), q), w) = Add(Add(Mul(u, a), w), Mul(m, Add(Mul(v, q), u)))
  <2> DEFINE uq == Mul(q, u)
             ua == Mul(u, a)
             mvq == Mul(Mul(m, v), q)
             mu == Mul(m, u)
  <2>1. Mul(m, v) \in Field /\ Mul(v, q) \in Field /\ mu \in Field /\ mvq \in Field /\ uq \in Field /\ ua \in Field
    BY <1>6, MulLaws
  <2>2. Add(u, Mul(m, v)) \in Field /\ Add(Mul(v, q), u) \in Field
    BY <2>1, AddLaws
  <2>3. Mul(Add(u, Mul(m, v)), q) = Add(uq, mvq)
    <3>1. Mul(q, Add(u, Mul(m, v))) = Add(Mul(q, u), Mul(q, Mul(m, v)))
      BY <2>1, MulDistributes
    <3> QED
      BY <2>1, <2>2, <3>1, MulLaws
  <2>4. Mul(m, Add(Mul(v, q), u)) = Add(mvq, mu)
    <3>1. Mul(m, Add(Mul(v, q), u)) = Add(Mul(m, Mul(v, q)), Mul(m, u))
      BY <1>6, <2>1, MulDistributes
    <3>2. Mul(m, Mul(v, q)) = Mul(Mul(m, v), q)
      BY <1>6, MulAssociates
    <3> QED
      BY <3>1, <3>2
  <2>5. mu = Sub(uq, ua)
    <3>1. Mul(u, Sub(q, a)) = Sub(Mul(u, q), Mul(u, a))
      BY MulDistributes
    <3>2. Mul(u, q) = uq /\ Mul(u, m) = mu
      BY <1>6, MulLaws
    <3> QED
      BY <3>1, <3>2
  <2> HIDE DEF uq, ua, mvq, mu, m
  <2>6. Add(Add(uq, mvq), w) = Add(Add(ua, w), Add(mvq, Sub(uq, ua)))
    BY <2>1, SharingAssumption DEF Add, Sub, Field
  <2> QED
    BY <2>3, <2>4, <2>5, <2>6 DEF ua
<1>10. ASSUME NEW j \in 0..n - 1, j + 1 \in T PROVE j \in T
  <2>1. /\ j \in 0..n /\ A[j] = Add(Mul(A[j + 1], a), c[j]) /\ F[j] = Add(Mul(F[j + 1], q), c[j])
        /\ G[j] = Add(Mul(G[j + 1], q), A[j + 1])
        /\ A[j + 1] \in Field /\ G[j + 1] \in Field /\ c[j] \in Field
    BY <1>1, <1>2, <1>3, <1>5
  <2>2. F[j + 1] = Add(A[j + 1], Mul(m, G[j + 1]))
    BY <1>10
  <2> HIDE DEF m
  <2>3. F[j] = Add(A[j], Mul(m, G[j]))
    BY <1>9, <2>1, <2>2
  <2> QED
    BY <2>1, <2>3
<1>11. \A j \in 0..n : j \in T
  <2> HIDE DEF T
  <2> QED
    BY <1>1, <1>8, <1>10, Downwards
<1>12. d[n - 1] = c[n]
  BY <1>1, <1>7 DEF Quotient
<1> QED
  BY <1>1, <1>2, <1>3, <1>4, <1>5, <1>11, <1>12

------------------------------------------------------------------------------
(* Interpolation *)

\* The loop at every number of the field.
Curve(F, c, n) == \A q \in Field : Horner(F[q], c, n, q)

\* The values at the points, each times its polynomial of the basis.
Weighted(F, x, S, q) == [j \in S |-> Mul(F[x[j]][0], Basis(x, S, j, q))]

\* What one point more adds to a weight.
LEMMA WeightStep ==
  ASSUME NEW A \in Field, NEW g \in Field, NEW e \in Field, NEW m \in Field, NEW n \in Field, n # 0
  PROVE  Mul(Add(A, Mul(n, g)), Mul(e, Mul(m, Inv(n))))
           = Sub(Mul(m, Mul(g, e)), Mul(Sub(0, A), Mul(e, Mul(m, Inv(n)))))
<1> DEFINE f == Mul(m, Inv(n))
           b == Mul(e, f)
           mge == Mul(m, Mul(g, e))
           Ab == Mul(A, b)
<1>1. Inv(n) \in Field /\ Mul(n, Inv(n)) = 1 /\ 0 \in Field
  BY Inverses, Zeros
<1>2. f \in Field
  BY <1>1, MulLaws
<1>3. b \in Field /\ Mul(n, g) \in Field /\ Mul(g, e) \in Field
  BY <1>2, MulLaws
<1>4. mge \in Field /\ Ab \in Field /\ Mul(b, 0) = 0
  BY <1>1, <1>3, MulLaws
<1>5. Mul(Mul(n, g), b) = mge
  <2>1. Mul(Mul(n, g), Mul(e, f)) = Mul(Mul(n, g), Mul(f, e))
    BY <1>2, MulLaws
  <2>2. Mul(Mul(n, g), Mul(f, e)) = Mul(Mul(n, f), Mul(g, e))
    BY <1>2, MulPairs
  <2>3. Mul(n, f) = m
    <3>1. Mul(n, Mul(m, Inv(n))) = Mul(n, Mul(Inv(n), m))
      BY <1>1, MulLaws
    <3>2. Mul(n, Mul(Inv(n), m)) = Mul(Mul(n, Inv(n)), m)
      BY <1>1, MulAssociates
    <3> QED
      BY <1>1, <3>1, <3>2, MulLaws
  <2> QED
    BY <2>1, <2>2, <2>3
<1> HIDE DEF b, f, mge
<1>6. Mul(Add(A, Mul(n, g)), b) = Add(Ab, mge)
  <2>1. Mul(b, Add(A, Mul(n, g))) = Add(Mul(b, A), Mul(b, Mul(n, g)))
    BY <1>3, MulDistributes
  <2>2. Mul(b, A) = Ab /\ Mul(b, Mul(n, g)) = mge
    BY <1>3, <1>5, MulLaws
  <2>3. Add(A, Mul(n, g)) \in Field
    BY <1>3, AddLaws
  <2> QED
    BY <1>3, <2>1, <2>2, <2>3, MulLaws
<1>7. Mul(Sub(0, A), b) = Sub(0, Ab)
  <2>1. Mul(b, Sub(0, A)) = Sub(Mul(b, 0), Mul(b, A))
    BY <1>1, <1>3, MulDistributes
  <2>2. Mul(b, A) = Ab
    BY <1>3, MulLaws
  <2>3. Sub(0, A) \in Field
    BY <1>1, AddLaws
  <2> QED
    BY <1>3, <1>4, <2>1, <2>2, <2>3, MulLaws
<1> HIDE DEF Ab
<1>8. Add(Ab, mge) = Sub(mge, Sub(0, Ab))
  BY <1>4, SharingAssumption DEF Add, Sub, Field
<1> QED
  BY <1>6, <1>7, <1>8 DEF b, f, mge

\* The sum of it all.
LEMMA SumOfWeights ==
  ASSUME NEW A \in Field, NEW k \in Field, NEW m \in Field, NEW g \in Field
  PROVE  Add(Mul(A, k), Sub(Mul(m, g), Mul(Sub(0, A), Sub(1, k)))) = Add(A, Mul(m, g))
<1>1. 0 \in Field /\ 1 \in Field /\ Sub(0, A) \in Field /\ Sub(1, k) \in Field
  BY Zeros, AddLaws
<1> DEFINE Ak == Mul(A, k)
           mg == Mul(m, g)
           r == Sub(1, k)
<1>2. Ak \in Field /\ mg \in Field
  BY MulLaws
<1>3. Mul(A, r) = Sub(A, Ak) /\ Mul(A, r) \in Field
  <2>1. Mul(A, Sub(1, k)) = Sub(Mul(A, 1), Mul(A, k))
    BY <1>1, MulDistributes
  <2>2. Mul(A, r) \in Field
    BY <1>1, MulLaws
  <2> QED
    BY <2>1, <2>2, MulLaws
<1>4. Mul(Sub(0, A), r) = Sub(0, Mul(A, r))
  <2> HIDE DEF r
  <2>1. Mul(r, Sub(0, A)) = Sub(Mul(r, 0), Mul(r, A))
    BY <1>1, MulDistributes DEF r
  <2>2. Mul(r, A) = Mul(A, r) /\ Mul(r, 0) = 0 /\ Mul(r, Sub(0, A)) = Mul(Sub(0, A), r)
    BY <1>1, MulLaws DEF r
  <2> QED
    BY <2>1, <2>2
<1> HIDE DEF Ak, mg, r
<1>5. Add(Ak, Sub(mg, Sub(0, Sub(A, Ak)))) = Add(A, mg)
  BY <1>2, SharingAssumption DEF Add, Sub, Field
<1> QED
  BY <1>3, <1>4, <1>5 DEF Ak, mg, r

\* What the weights leave is the leading coefficient times what is zero at all the points.
Interpolated(F, c, n, x, S, q) ==
  F[q][0] = Add(Sum(Weighted(F, x, S, q)), Mul(c[n], Zero(x, S, q)))

\* If the quotient by q - x[a] is interpolated at the other points, so is the polynomial.
LEMMA AnotherPoint ==
  ASSUME NEW D, IsFiniteSet(D), NEW x, Terms(x, D), NEW S, S \subseteq D, Apart(x, S), NEW a \in S,
         NEW c, NEW n, Coeffs(c, n), n # 0, NEW F, Curve(F, c, n), NEW q \in Field,
         \A d, G : Coeffs(d, n - 1) /\ Curve(G, d, n - 1) => Interpolated(G, d, n - 1, x, S \ {a}, q)
  PROVE  Interpolated(F, c, n, x, S, q)
<1> DEFINE R == S \ {a}
           p == x[a]
           A == F[p][0]
           m == Sub(q, p)
           k == Basis(x, S, a, q)
           d == Quotient(F[p], n)
           G == [z \in Field |-> CHOOSE acc : Horner(acc, d, n - 1, z)]
           V == Weighted(F, x, S, q)
           W == Weighted(G, x, R, q)
           B == BasisAt(x, S, q)
           b == Restrict(B, R)
<1>1. p \in Field /\ \A j \in S : x[j] \in Field
  BY DEF Terms
<1>2. m \in Field
  BY <1>1, AddLaws
<1>3. Coeffs(d, n - 1) /\ Curve(G, d, n - 1)
  <2>1. PICK acc : Horner(acc, c, n, p) /\ acc = F[p]
    BY <1>1 DEF Curve
  <2>2. n \in Nat /\ n - 1 \in Nat /\ \A j \in 0..n - 1 : j + 1 \in 0..n + 1 /\ j + 1 \in 0..n
    BY DEF Coeffs
  <2>3. \A j \in 0..n : acc[j] \in Field
    BY <2>1, <1>1, HornerStep
  <2>4. Coeffs(d, n - 1)
    BY <2>1, <2>2, <2>3 DEF Coeffs, Quotient
  <2> HIDE DEF d
  <2>5. \A z \in Field : \E acc2 : Horner(acc2, d, n - 1, z)
    BY <2>4, HornerExists
  <2> QED
    BY <2>4, <2>5 DEF Curve
<1>4. ASSUME NEW z \in Field
      PROVE  /\ F[z][0] \in Field /\ A \in Field /\ G[z][0] \in Field /\ d[n - 1] = c[n]
             /\ F[z][0] = Add(A, Mul(Sub(z, p), G[z][0]))
  <2>1. /\ Horner(F[p], c, n, p) /\ Horner(F[z], c, n, z) /\ Horner(G[z], d, n - 1, z)
        /\ Coeffs(c, n) /\ n # 0 /\ p \in Field /\ z \in Field
    BY <1>1, <1>3 DEF Curve
  <2>2. d = Quotient(F[p], n)
    OBVIOUS
  <2> HIDE DEF d, G, p, A
  <2>3. /\ d[n - 1] = c[n] /\ F[z][0] \in Field /\ F[p][0] \in Field /\ G[z][0] \in Field
        /\ F[z][0] = Add(F[p][0], Mul(Sub(z, p), G[z][0]))
    BY ONLY <2>1, <2>2, SyntheticDivision
  <2> QED
    BY <2>3 DEF A
<1>5. Interpolated(G, d, n - 1, x, R, q)
  BY <1>3
<1>6. A \in Field /\ k \in Field /\ c[n] \in Field
  <2>1. c[n] \in Field
    BY DEF Coeffs
  <2>2. k \in Field
    BY BasisParts
  <2>3. A \in Field
    BY <1>1, <1>4
  <2> QED
    BY <2>1, <2>2, <2>3
<1>7. IsFiniteSet(S) /\ IsFiniteSet(R) /\ R \subseteq D /\ R \subseteq S /\ Apart(x, R)
  BY FS_Subset DEF Apart
<1>8. \A j \in S : Basis(x, S, j, q) \in Field
  BY BasisParts
<1>9. \A j \in R : Basis(x, R, j, q) \in Field
  BY <1>7, BasisParts
<1>10. \A j \in S : V[j] = Mul(F[x[j]][0], Basis(x, S, j, q)) /\ V[j] \in Field
  BY <1>1, <1>4, <1>8, MulLaws DEF Weighted
<1>11. \A j \in R : W[j] = Mul(G[x[j]][0], Basis(x, R, j, q)) /\ W[j] \in Field
  BY <1>1, <1>4, <1>9, MulLaws DEF Weighted
<1>12. Terms(V, S) /\ Terms(W, R) /\ Terms(B, S) /\ Terms(b, R)
  BY <1>8, <1>10, <1>11 DEF Terms, Weighted, BasisAt, Restrict
<1>13. Restrict(V, R) = Blend(m, W, Sub(0, A), b)
  <2>1. ASSUME NEW j \in R PROVE V[j] = Sub(Mul(m, W[j]), Mul(Sub(0, A), b[j]))
    <3> DEFINE e == Basis(x, R, j, q)
               r == Sub(x[j], p)
               g == G[x[j]][0]
    <3>1. Basis(x, S, j, q) = Mul(e, Mul(m, Inv(r))) /\ r # 0 /\ e \in Field /\ j \in S
      BY BasisStep
    <3>2. F[x[j]][0] = Add(A, Mul(r, g)) /\ g \in Field /\ r \in Field
      BY <1>1, <1>4, AddLaws
    <3>3. V[j] = Mul(Add(A, Mul(r, g)), Mul(e, Mul(m, Inv(r))))
      BY <1>10, <3>1, <3>2
    <3>4. W[j] = Mul(g, e)
      BY <1>11
    <3>5. b[j] = Mul(e, Mul(m, Inv(r)))
      BY <3>1 DEF BasisAt, Restrict
    <3> HIDE DEF e, r, g, A, m, V, W, b
    <3>6. Mul(Add(A, Mul(r, g)), Mul(e, Mul(m, Inv(r))))
            = Sub(Mul(m, Mul(g, e)), Mul(Sub(0, A), Mul(e, Mul(m, Inv(r)))))
      BY <1>2, <1>6, <3>1, <3>2, WeightStep
    <3> QED
      BY <3>3, <3>4, <3>5, <3>6
  <2>2. DOMAIN W = R
    BY DEF Weighted
  <2> QED
    BY <2>1, <2>2 DEF Restrict, Blend
<1>14. Sum(V) = Add(Mul(A, k), Sum(Restrict(V, R)))
  <2>1. V[a] = Mul(A, k)
    BY <1>10
  <2> HIDE DEF V, R, A, k
  <2>2. Restrict(V, S) = V /\ Sum(Restrict(V, S)) = Add(V[a], Sum(Restrict(V, S \ {a})))
    BY <1>7, <1>12, PartialSums
  <2> QED
    BY <2>1, <2>2 DEF R
<1>15. Sum(b) = Sub(1, k)
  <2>1. Sum(B) = 1
    BY Unity
  <2>2. B[a] = k
    BY DEF BasisAt
  <2> HIDE DEF B, k
  <2>3. Restrict(B, S) = B /\ Sum(Restrict(B, S)) = Add(B[a], Sum(Restrict(B, S \ {a})))
        /\ Sum(Restrict(B, R)) \in Field
    BY <1>7, <1>12, PartialSums
  <2>4. Add(k, Sum(b)) = 1 /\ Sum(b) \in Field
    BY <2>1, <2>2, <2>3
  <2> HIDE DEF b
  <2>5. \A y \in Field, w \in Field : Add(y, w) = 1 => w = Sub(1, y)
    BY SharingAssumption DEF Add, Sub, Field
  <2> QED
    BY <1>6, <2>4, <2>5
<1> HIDE DEF R, A, m, k, d, G, V, W, B, b, p
<1>16. Sum(W) \in Field
  <2>1. Sum(Restrict(W, R)) \in Field /\ Restrict(W, R) = W
    BY <1>7, <1>12, PartialSums
  <2> QED
    BY <2>1
<1>17. Sum(Restrict(V, R)) = Sub(Mul(m, Sum(W)), Mul(Sub(0, A), Sub(1, k)))
  <2>1. Sub(0, A) \in Field
    BY <1>6, Zeros, AddLaws
  <2> QED
    BY <1>2, <1>7, <1>12, <1>13, <1>15, <2>1, SumBlend
<1>18. Sum(V) = Add(A, Mul(m, Sum(W)))
  BY <1>2, <1>6, <1>14, <1>16, <1>17, SumOfWeights
<1>19. Zero(x, S, q) = Mul(m, Zero(x, R, q)) /\ Zero(x, R, q) \in Field
  BY <1>7, ZeroStep DEF R, m, p
<1>20. G[q][0] = Add(Sum(W), Mul(c[n], Zero(x, R, q)))
  BY <1>4, <1>5 DEF Interpolated, W
<1>21. Mul(m, G[q][0]) = Add(Mul(m, Sum(W)), Mul(c[n], Zero(x, S, q)))
  <2> DEFINE z == Zero(x, R, q)
  <2>1. Mul(c[n], z) \in Field
    BY <1>6, <1>19, MulLaws
  <2>2. Mul(m, Add(Sum(W), Mul(c[n], z))) = Add(Mul(m, Sum(W)), Mul(m, Mul(c[n], z)))
    BY <1>2, <1>16, <2>1, MulDistributes
  <2>3. Mul(m, Mul(c[n], z)) = Mul(Mul(m, c[n]), z)
    BY <1>2, <1>6, <1>19, MulAssociates
  <2>4. Mul(c[n], Mul(m, z)) = Mul(Mul(c[n], m), z)
    BY <1>2, <1>6, <1>19, MulAssociates
  <2>5. Mul(m, c[n]) = Mul(c[n], m)
    BY <1>2, <1>6, MulLaws
  <2> QED
    BY <1>19, <1>20, <2>2, <2>3, <2>4, <2>5
<1>22. F[q][0] = Add(A, Mul(m, G[q][0]))
  BY <1>4 DEF m
<1>23. Add(A, Add(Mul(m, Sum(W)), Mul(c[n], Zero(x, S, q))))
         = Add(Add(A, Mul(m, Sum(W))), Mul(c[n], Zero(x, S, q)))
  <2>1. Mul(m, Sum(W)) \in Field /\ Zero(x, S, q) \in Field
    BY <1>2, <1>16, <1>19, MulLaws
  <2>2. Mul(c[n], Zero(x, S, q)) \in Field
    BY <1>6, <2>1, MulLaws
  <2> QED
    BY <1>6, <2>1, <2>2, AddLaws
<1> QED
  BY <1>18, <1>21, <1>22, <1>23 DEF Interpolated, V

\* Lagrange: as many points as the degree leave the leading coefficient.
THEOREM Lagrange ==
  ASSUME NEW D, IsFiniteSet(D), NEW x, Terms(x, D), NEW S, S \subseteq D, Apart(x, S),
         NEW c, Coeffs(c, Cardinality(S)), NEW F, Curve(F, c, Cardinality(S)), NEW q \in Field
  PROVE  Interpolated(F, c, Cardinality(S), x, S, q)
<1> DEFINE Holds(s) == \A d, G : Coeffs(d, Cardinality(s)) /\ Curve(G, d, Cardinality(s))
                                   => Interpolated(G, d, Cardinality(s), x, s, q)
           T == {s \in SUBSET S : ~Holds(s)}
<1>1. SUFFICES ASSUME T # {} PROVE FALSE
  OBVIOUS
<1>2. PICK s \in T : \A w \in T : ~(w \subseteq s /\ w # s)
  <2>1. T \subseteq SUBSET S /\ IsFiniteSet(S)
    BY FS_Subset
  <2> HIDE DEF T
  <2> QED
    BY <1>1, <2>1, LeastSubset
<1>3. PICK d, G : /\ Coeffs(d, Cardinality(s)) /\ Curve(G, d, Cardinality(s))
                  /\ ~Interpolated(G, d, Cardinality(s), x, s, q)
  OBVIOUS
<1>4. s \subseteq D /\ Apart(x, s) /\ IsFiniteSet(s)
  BY FS_Subset DEF Apart
<1>5. CASE s = {}
  <2>1. Cardinality(s) = 0 /\ Zero(x, s, q) = 1
    BY <1>4, <1>5, FS_EmptySet, ZeroStep
  <2>2. Sum(Weighted(G, x, s, q)) = 0
    <3>1. Weighted(G, x, s, q) \in [s -> Field]
      BY <1>5 DEF Weighted
    <3> QED
      BY <1>4, <1>5, <3>1, SumStep
  <2>3. Horner(G[q], d, 0, q) /\ Coeffs(d, 0)
    BY <1>3, <2>1 DEF Curve
  <2>4. G[q][1] = 0 /\ G[q][0] = Add(Mul(G[q][1], q), d[0]) /\ d[0] \in Field
    BY <2>3, HornerStep
  <2>5. Mul(0, q) = 0 /\ Mul(d[0], 1) = d[0]
    BY <2>4, Zeros, MulLaws
  <2> QED
    BY <1>3, <2>1, <2>2, <2>4, <2>5 DEF Interpolated
<1>6. CASE s # {}
  <2>1. PICK a \in s : TRUE
    BY <1>6
  <2> DEFINE r == s \ {a}
  <2>2. Cardinality(r) = Cardinality(s) - 1 /\ Cardinality(s) # 0
    BY <1>4, <2>1, FS_RemoveElement, FS_EmptySet
  <2>3. Holds(r)
    BY <1>2, <2>1
  <2>4. \A e, H : Coeffs(e, Cardinality(s) - 1) /\ Curve(H, e, Cardinality(s) - 1)
                    => Interpolated(H, e, Cardinality(s) - 1, x, r, q)
    <3> HIDE DEF r
    <3> QED
      BY <2>2, <2>3
  <2> QED
    BY <1>3, <1>4, <2>1, <2>2, <2>4, AnotherPoint
<1> QED
  BY <1>5, <1>6

\* A polynomial is one of any higher degree, whose leading coefficient is 0.
LEMMA HigherDegree ==
  ASSUME NEW c, NEW n, Coeffs(c, n), NEW F, Curve(F, c, n)
  PROVE  \E d, G : /\ Coeffs(d, n + 1) /\ Curve(G, d, n + 1) /\ d[n + 1] = 0
                   /\ \A q \in Field : G[q][0] = F[q][0]
<1> DEFINE d == [j \in 0..n + 1 |-> IF j > n THEN 0 ELSE c[j]]
           G == [q \in Field |-> [j \in 0..n + 2 |-> IF j > n + 1 THEN 0 ELSE F[q][j]]]
<1>1. n \in Nat /\ \A j \in 0..n : c[j] \in Field
  BY DEF Coeffs
<1>2. Coeffs(d, n + 1) /\ d[n + 1] = 0
  BY <1>1, Zeros DEF Coeffs
<1>3. ASSUME NEW q \in Field PROVE Horner(G[q], d, n + 1, q) /\ G[q][0] = F[q][0]
  <2> DEFINE g == [j \in 0..n + 2 |-> IF j > n + 1 THEN 0 ELSE F[q][j]]
  <2>1. F[q][n + 1] = 0 /\ \A j \in 0..n : F[q][j] = Add(Mul(F[q][j + 1], q), c[j])
    BY HornerStep DEF Curve
  <2>2. ASSUME NEW j \in 0..n + 2
        PROVE  g[j] = IF j > n + 1 THEN 0 ELSE Add(Mul(g[j + 1], q), d[j])
    <3>1. CASE j > n + 1
      BY <1>1, <3>1
    <3>2. CASE j = n + 1
      <4>1. j + 1 \in 0..n + 2 /\ j + 1 > n + 1 /\ ~(j > n + 1) /\ j > n /\ j \in 0..n + 1
        BY <1>1, <3>2
      <4>2. g[j + 1] = 0 /\ g[j] = 0 /\ d[j] = 0
        BY <2>1, <3>2, <4>1
      <4>3. Mul(0, q) = 0 /\ Add(0, 0) = 0
        BY Zeros, MulLaws, AddLaws
      <4> QED
        BY <4>1, <4>2, <4>3
    <3>3. CASE j < n + 1
      <4>1. j \in 0..n /\ ~(j > n) /\ ~(j > n + 1) /\ ~(j + 1 > n + 1) /\ j + 1 \in 0..n + 2 /\ j \in 0..n + 1
        BY <1>1, <3>3
      <4>2. g[j + 1] = F[q][j + 1] /\ g[j] = F[q][j] /\ d[j] = c[j]
        BY <4>1
      <4> QED
        BY <2>1, <4>1, <4>2
    <3> QED
      BY <1>1, <3>1, <3>2, <3>3
  <2>3. (n + 1) + 1 = n + 2 /\ G[q] = g
    BY <1>1
  <2>4. g = [j \in 0..n + 2 |-> IF j > n + 1 THEN 0 ELSE Add(Mul(g[j + 1], q), d[j])]
    BY <2>2
  <2>5. g[0] = F[q][0]
    BY <1>1
  <2> HIDE DEF g, d, G
  <2> QED
    BY <2>3, <2>4, <2>5 DEF Horner
<1> HIDE DEF d, G
<1> QED
  BY <1>2, <1>3 DEF Curve

\* The weights are numbers of the field, whatever the polynomial.
LEMMA WeightsAreNumbers ==
  ASSUME NEW D, IsFiniteSet(D), NEW x, Terms(x, D), NEW S, S \subseteq D, Apart(x, S),
         NEW c, NEW n, Coeffs(c, n), NEW F, Curve(F, c, n), NEW q \in Field
  PROVE  Sum(Weighted(F, x, S, q)) \in Field
<1>1. IsFiniteSet(S)
  BY FS_Subset
<1>2. ASSUME NEW j \in S PROVE Mul(F[x[j]][0], Basis(x, S, j, q)) \in Field
  <2>1. x[j] \in Field /\ Basis(x, S, j, q) \in Field
    BY BasisParts
  <2>2. Horner(F[x[j]], c, n, x[j])
    BY <2>1 DEF Curve
  <2>3. F[x[j]][0] \in Field
    <3>1. 0 \in 0..n
      BY DEF Coeffs
    <3> QED
      BY <2>1, <2>2, <3>1, HornerStep
  <2> QED
    BY <2>1, <2>3, MulLaws
<1>3. Weighted(F, x, S, q) \in [S -> Field]
  BY <1>2 DEF Weighted
<1> QED
  BY <1>1, <1>3, SumStep

\* One point more than the degree determines the polynomial ...
THEOREM EnoughPoints ==
  ASSUME NEW D, IsFiniteSet(D), NEW x, Terms(x, D), NEW S, S \subseteq D, Apart(x, S),
         NEW c, NEW n, Coeffs(c, n), NEW F, Curve(F, c, n), Cardinality(S) = n + 1, NEW q \in Field
  PROVE  Sum(Weighted(F, x, S, q)) = F[q][0]
<1>1. PICK d, G : /\ Coeffs(d, n + 1) /\ Curve(G, d, n + 1) /\ d[n + 1] = 0
                  /\ \A z \in Field : G[z][0] = F[z][0]
  BY HigherDegree
<1>2. Interpolated(G, d, n + 1, x, S, q)
  BY <1>1, Lagrange
<1>3. Weighted(G, x, S, q) = Weighted(F, x, S, q)
  BY <1>1 DEF Weighted, Terms
<1>4. Zero(x, S, q) \in Field
  BY ZeroStep
<1>5. Sum(Weighted(F, x, S, q)) \in Field
  BY WeightsAreNumbers
<1>6. G[q][0] = Add(Sum(Weighted(F, x, S, q)), Mul(0, Zero(x, S, q)))
  BY <1>1, <1>2, <1>3 DEF Interpolated
<1>7. Mul(0, Zero(x, S, q)) = 0
  BY <1>4, Zeros, MulLaws
<1>8. Add(Sum(Weighted(F, x, S, q)), 0) = Sum(Weighted(F, x, S, q))
  BY <1>5, AddLaws
<1> QED
  BY <1>1, <1>6, <1>7, <1>8

\* ... and as many points as the degree do not, unless it is of a lower degree.
THEOREM TooFewPoints ==
  ASSUME NEW D, IsFiniteSet(D), NEW x, Terms(x, D), NEW S, S \subseteq D, Apart(x, S),
         NEW c, NEW n, Coeffs(c, n), NEW F, Curve(F, c, n), Cardinality(S) = n,
         NEW q \in Field, \A k \in S : x[k] # q
  PROVE  Sum(Weighted(F, x, S, q)) = F[q][0] <=> c[n] = 0
<1>1. Interpolated(F, c, n, x, S, q)
  BY Lagrange
<1>2. Zero(x, S, q) \in Field /\ Zero(x, S, q) # 0
  BY ZeroStep, ZeroElsewhere
<1>3. c[n] \in Field
  BY DEF Coeffs
<1>4. Sum(Weighted(F, x, S, q)) \in Field
  BY WeightsAreNumbers
<1> DEFINE s == Sum(Weighted(F, x, S, q))
           r == Mul(c[n], Zero(x, S, q))
<1>5. F[q][0] = Add(s, r) /\ r \in Field /\ (r = 0 <=> c[n] = 0)
  <2>1. r = 0 => c[n] = 0
    BY <1>2, <1>3, Inverses
  <2>2. c[n] = 0 => r = 0
    BY <1>2, MulLaws
  <2>3. r \in Field
    BY <1>2, <1>3, MulLaws
  <2> QED
    BY <1>1, <2>1, <2>2, <2>3 DEF Interpolated
<1> HIDE DEF s, r
<1>6. s = Add(s, r) <=> r = 0
  BY <1>4, <1>5, SharingAssumption DEF s, Add, Field
<1> QED
  BY <1>5, <1>6 DEF s

\* The key is taken from the points with all signs turned, which comes to the same.
LEMMA Signs ==
  ASSUME NEW D, IsFiniteSet(D), NEW x, Terms(x, D), NEW V, V \subseteq D,
         NEW v \in Field, \A k \in V : x[k] # v
  PROVE  Mul(Product([k \in V |-> x[k]]), Inv(Product([k \in V |-> Sub(x[k], v)])))
           = Mul(Zero(x, V, 0), Inv(Zero(x, V, v)))
<1> DEFINE t == [k \in D |-> Sub(x[k], v)]
           N(s) == Product(Restrict(x, s))
           M(s) == Product(Restrict(t, s))
           Holds(s) == M(s) # 0 /\ Mul(N(s), Inv(M(s))) = Mul(Zero(x, s, 0), Inv(Zero(x, s, v)))
           T == {s \in SUBSET V : ~Holds(s)}
<1>1. N(V) = Product([k \in V |-> x[k]]) /\ M(V) = Product([k \in V |-> Sub(x[k], v)])
  <2>1. Restrict(x, V) = [k \in V |-> x[k]] /\ Restrict(t, V) = [k \in V |-> Sub(x[k], v)]
    BY DEF Restrict
  <2> QED
    BY <2>1
<1>2. Terms(t, D) /\ 0 \in Field
  BY AddLaws, Zeros DEF Terms
<1>3. \A a \in D : t[a] = Sub(x[a], v) /\ x[a] \in Field
  BY DEF Terms
<1> HIDE DEF t
<1>4. ASSUME NEW s, s \subseteq D
      PROVE  /\ N(s) \in Field /\ M(s) \in Field /\ (s = {} => N(s) = 1 /\ M(s) = 1)
             /\ \A a \in s : N(s) = Mul(x[a], N(s \ {a})) /\ M(s) = Mul(t[a], M(s \ {a}))
  BY <1>2, <1>4, PartialProducts
<1> HIDE DEF N, M
<1>5. SUFFICES ASSUME T # {} PROVE FALSE
  BY <1>1
<1>6. PICK s \in T : \A w \in T : ~(w \subseteq s /\ w # s)
  <2>1. T \subseteq SUBSET V /\ IsFiniteSet(V)
    BY FS_Subset
  <2> HIDE DEF T
  <2> QED
    BY <1>5, <2>1, LeastSubset
<1>7. s \subseteq V /\ s \subseteq D /\ ~Holds(s)
  OBVIOUS
<1>8. CASE s = {}
  <2>1. N(s) = 1 /\ M(s) = 1 /\ Zero(x, s, 0) = 1 /\ Zero(x, s, v) = 1
    BY <1>2, <1>4, <1>7, <1>8, ZeroStep
  <2> QED
    BY <1>7, <2>1, Zeros
<1>9. CASE s # {}
  <2>1. PICK a \in s : TRUE
    BY <1>9
  <2> DEFINE r == s \ {a}
             z0 == Zero(x, r, 0)
             zv == Zero(x, r, v)
  <2>2. /\ Holds(r) /\ r \subseteq D /\ a \in D /\ x[a] \in Field /\ x[a] # v
        /\ \A k \in r : x[k] # v
    BY <1>3, <1>6, <1>7, <2>1
  <2>3. /\ N(s) = Mul(x[a], N(r)) /\ M(s) = Mul(t[a], M(r))
        /\ N(r) \in Field /\ M(r) \in Field /\ M(r) # 0
    <3> HIDE DEF r
    <3>1. N(r) \in Field /\ M(r) \in Field /\ M(r) # 0
      BY <1>4, <2>2
    <3> QED
      BY <1>4, <1>7, <2>1, <3>1 DEF r
  <2>4. /\ Zero(x, s, 0) = Mul(Sub(0, x[a]), z0) /\ Zero(x, s, v) = Mul(Sub(v, x[a]), zv)
        /\ z0 \in Field /\ zv \in Field /\ zv # 0
    <3>1. z0 \in Field /\ zv \in Field
      <4> HIDE DEF r
      <4> QED
        BY <1>2, <2>2, ZeroStep
    <3>2. zv # 0
      <4> HIDE DEF r
      <4> QED
        BY <2>2, ZeroElsewhere
    <3>3. Zero(x, s, 0) = Mul(Sub(0, x[a]), z0) /\ Zero(x, s, v) = Mul(Sub(v, x[a]), zv)
      BY <1>2, <1>7, <2>1, ZeroStep
    <3> QED
      BY <3>1, <3>2, <3>3
  <2> DEFINE g == Sub(x[a], v)
             h == Sub(v, x[a])
             y == Sub(0, x[a])
  <2>5. /\ g \in Field /\ g # 0 /\ h \in Field /\ h # 0 /\ y \in Field /\ t[a] = g
        /\ Inv(g) \in Field /\ Inv(h) \in Field
    <3>1. g \in Field /\ g # 0 /\ h \in Field /\ h # 0
      BY <2>2, Differ
    <3>2. y \in Field
      BY <1>2, <2>2, AddLaws
    <3>3. t[a] = g
      BY <1>3, <2>2
    <3> HIDE DEF g, h
    <3> QED
      BY <3>1, <3>2, <3>3, Inverses
  <2>6. Mul(x[a], Inv(g)) = Mul(y, Inv(h))
    <3>1. Mul(Mul(x[a], Inv(g)), g) = x[a]
      BY <2>2, Negatives
    <3>2. Mul(Mul(y, Inv(h)), g) = Sub(0, y)
      BY <2>2, <2>5, Negatives
    <3>3. Sub(0, y) = x[a]
      BY <2>2, SharingAssumption DEF Sub, Field
    <3>4. Mul(x[a], Inv(g)) \in Field /\ Mul(y, Inv(h)) \in Field
      BY <2>2, <2>5, MulLaws
    <3> HIDE DEF g, h, y
    <3>5. Mul(g, Mul(x[a], Inv(g))) = Mul(g, Mul(y, Inv(h)))
      BY <2>5, <3>1, <3>2, <3>3, <3>4, MulLaws
    <3> QED
      BY <2>5, <3>4, <3>5, Inverses
  <2> HIDE DEF g, h, y, r, z0, zv
  <2>7. Mul(g, M(r)) # 0 /\ Inv(Mul(g, M(r))) = Mul(Inv(g), Inv(M(r)))
        /\ Inv(Mul(h, zv)) = Mul(Inv(h), Inv(zv))
    BY <2>3, <2>4, <2>5, InverseOfProduct
  <2>8. Inv(M(r)) \in Field /\ Inv(zv) \in Field
    BY <2>3, <2>4, Inverses
  <2>9. /\ Mul(Mul(x[a], N(r)), Mul(Inv(g), Inv(M(r)))) = Mul(Mul(x[a], Inv(g)), Mul(N(r), Inv(M(r))))
        /\ Mul(Mul(y, z0), Mul(Inv(h), Inv(zv))) = Mul(Mul(y, Inv(h)), Mul(z0, Inv(zv)))
    <3>1. x[a] \in Field /\ N(r) \in Field /\ y \in Field /\ z0 \in Field
      BY <2>2, <2>3, <2>4, <2>5
    <3>2. Inv(g) \in Field /\ Inv(h) \in Field
      BY <2>5
    <3>3. Mul(Mul(x[a], N(r)), Mul(Inv(g), Inv(M(r)))) = Mul(Mul(x[a], Inv(g)), Mul(N(r), Inv(M(r))))
      BY ONLY <2>8, <3>1, <3>2, MulPairs
    <3>4. Mul(Mul(y, z0), Mul(Inv(h), Inv(zv))) = Mul(Mul(y, Inv(h)), Mul(z0, Inv(zv)))
      BY ONLY <2>8, <3>1, <3>2, MulPairs
    <3> QED
      BY <3>3, <3>4
  <2>10. Mul(N(r), Inv(M(r))) = Mul(z0, Inv(zv))
    BY <2>2 DEF z0, zv
  <2>11. Holds(s)
    BY <2>3, <2>4, <2>5, <2>6, <2>7, <2>9, <2>10, SMTT(30) DEF y, h
  <2> QED
    BY <1>7, <2>11
<1> QED
  BY <1>8, <1>9
==============================================================================
