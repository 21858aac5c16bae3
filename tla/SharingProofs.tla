---------------------------- MODULE SharingProofs -----------------------------
(****************************************************************************)
(* Theorems about Sharing: what comes out of a recovery is what was shared, *)
(* for every prime, every hash and random source, every number of slots and *)
(* every machine.  The mathematics is in Interpolation.                     *)
(****************************************************************************)
EXTENDS Interpolation, RecoveryProofs, SequenceTheorems

------------------------------------------------------------------------------
(* The code's loops and Interpolation's *)

\* The length of a list of coefficients.
LEMMA LengthOf ==
  ASSUME NEW n \in Nat, NEW coeff \in [1..n -> Field]
  PROVE  Len(coeff) = n
<1>1. coeff \in Seq(Field)
  BY SMT
<1>2. Len(coeff) \in Nat /\ DOMAIN coeff = 1..Len(coeff) /\ DOMAIN coeff = 1..n
  BY <1>1, LenProperties
<1> QED
  BY <1>2

\* A key and the coefficients that were drawn, as one polynomial.
Polynomial(key, coeff, n) == [j \in 0..n |-> IF j = 0 THEN key ELSE coeff[j]]

\* Evaluate is Horner's loop.
THEOREM EvaluateIsHorner ==
  ASSUME NEW key \in Field, NEW n \in Nat, NEW coeff \in [1..n -> Field], NEW q \in Field
  PROVE  /\ Coeffs(Polynomial(key, coeff, n), n)
         /\ \E acc : Horner(acc, Polynomial(key, coeff, n), n, q) /\ acc[0] = Evaluate(key, coeff, q)
<1> DEFINE c == Polynomial(key, coeff, n)
           Loop(acc) == acc = [j \in 0..Len(coeff) + 1 |->
                                 IF j > Len(coeff) THEN 0
                                 ELSE Add(Mul(acc[j + 1], q), IF j = 0 THEN key ELSE coeff[j])]
<1>1. Coeffs(c, n)
  <2>1. \A j \in 0..n : j # 0 => j \in 1..n
    OBVIOUS
  <2> QED
    BY <2>1 DEF Coeffs, Polynomial
<1>2. Evaluate(key, coeff, q) = (CHOOSE acc : Loop(acc))[0]
  BY Zenon DEF Evaluate
<1>3. ASSUME NEW acc PROVE Loop(acc) <=> Horner(acc, c, n, q)
  <2>1. Len(coeff) = n
    BY LengthOf
  <2>2. \A j \in 0..n + 1 : ~(j > n) => c[j] = IF j = 0 THEN key ELSE coeff[j]
    BY DEF Polynomial
  <2>3. [j \in 0..n + 1 |-> IF j > n THEN 0 ELSE Add(Mul(acc[j + 1], q), c[j])]
          = [j \in 0..n + 1 |-> IF j > n THEN 0
                                ELSE Add(Mul(acc[j + 1], q), IF j = 0 THEN key ELSE coeff[j])]
    BY <2>2
  <2> QED
    BY <2>1, <2>3 DEF Horner
<1>4. \E acc : Loop(acc)
  BY <1>1, <1>3, HornerExists
<1> HIDE DEF Loop, c
<1>5. Loop(CHOOSE acc : Loop(acc))
  BY <1>4
<1> QED
  BY <1>1, <1>2, <1>3, <1>5 DEF c

\* So there is a curve with the key at zero.
LEMMA EvaluateIsCurve ==
  ASSUME NEW key \in Field, NEW n \in Nat, NEW coeff \in [1..n -> Field]
  PROVE  \E F : /\ Curve(F, Polynomial(key, coeff, n), n)
                /\ \A q \in Field : F[q][0] = Evaluate(key, coeff, q) /\ F[q][0] \in Field
                /\ F[0][0] = key
<1> DEFINE c == Polynomial(key, coeff, n)
           F == [q \in Field |-> CHOOSE acc : Horner(acc, c, n, q) /\ acc[0] = Evaluate(key, coeff, q)]
<1>1. Coeffs(c, n) /\ \A q \in Field : \E acc : Horner(acc, c, n, q) /\ acc[0] = Evaluate(key, coeff, q)
  BY EvaluateIsHorner, Zeros
<1>2. c[0] = key
  BY DEF Polynomial
<1> HIDE DEF c
<1>3. \A q \in Field : Horner(F[q], c, n, q) /\ F[q][0] = Evaluate(key, coeff, q)
  BY <1>1
<1> HIDE DEF F
<1>4. ASSUME NEW q \in Field PROVE F[q][0] \in Field /\ F[q][1] \in Field /\ F[q][0] = Add(Mul(F[q][1], q), c[0])
  <2>1. 0 \in 0..n /\ 0 + 1 = 1
    OBVIOUS
  <2>2. Horner(F[q], c, n, q)
    BY <1>3
  <2> QED
    BY <1>1, <2>1, <2>2, HornerStep
<1>5. F[0][0] = key
  <2>1. 0 \in Field /\ F[0][1] \in Field /\ F[0][0] = Add(Mul(F[0][1], 0), key)
    BY <1>2, <1>4, Zeros
  <2>2. Mul(F[0][1], 0) = 0 /\ Add(0, key) = key
    BY <2>1, MulLaws, AddLaws
  <2> QED
    BY <2>1, <2>2
<1> QED
  BY <1>3, <1>4, <1>5 DEF Curve, c

------------------------------------------------------------------------------
(* A helper and what it was shared over *)

\* Factors as a machine has them.
Machine(factors) == DOMAIN factors \subseteq Names /\ \A s \in DOMAIN factors : factors[s] \in Values

\* h has the shares of what e says, and lead the leading coefficients of its polynomials.
Shared(h, e, lead) ==
  /\ Machine(e.slots) /\ DOMAIN h.shares = DOMAIN e.slots
  /\ e.key \in [1..Limbs -> Field] /\ h.cw = e.key
  /\ h.salt \in 0..254 /\ Distinct(e.slots, h.salt)
  /\ h.mandatory = e.mandatory /\ e.mandatory \subseteq DOMAIN e.slots
  /\ h.t = e.t /\ h.t \in Nat /\ h.t > 1
  /\ Cardinality(e.mandatory) < h.t /\ h.t <= Cardinality(DOMAIN e.slots)
  /\ \E coeff \in [1..Limbs -> [1..h.t - 1 -> Field]] :
       /\ lead = [limb \in 1..Limbs |-> coeff[limb][h.t - 1]]
       /\ \A s \in DOMAIN e.slots : \A limb \in 1..Limbs :
            h.shares[s][limb] = Evaluate(e.key[limb], coeff[limb], DeriveX(s, e.slots[s], h.salt))

\* No factor's coordinate is where the key is.
LEMMA CoordinateIsNumber ==
  ASSUME NEW s \in Names, NEW value \in Values, NEW salt \in 0..254
  PROVE  DeriveX(s, value, salt) \in Field /\ DeriveX(s, value, salt) # 0
<1>1. Hash(s, value, salt) \in Nat /\ P \in Nat /\ P - 1 \in Nat /\ P - 1 > 0
  BY SharingAssumption
<1>2. ASSUME NEW z \in Nat, NEW p \in Nat, p > 0 PROVE z % p \in 0..p - 1
  BY <1>2
<1>3. Hash(s, value, salt) % (P - 1) \in 0..(P - 1) - 1
  BY <1>1, <1>2
<1> QED
  BY <1>1, <1>3 DEF DeriveX, Field

\* x has coordinates for the slots of e that the factors are there for.
Placed(x, h, e, factors) ==
  /\ DOMAIN x = DOMAIN e.slots \cap DOMAIN factors /\ IsFiniteSet(DOMAIN x)
  /\ Terms(x, DOMAIN x) /\ \A s \in DOMAIN x : x[s] # 0
  /\ Live(e, factors) \subseteq DOMAIN x /\ Apart(x, Live(e, factors))
  /\ \A s \in Live(e, factors) : x[s] = DeriveX(s, e.slots[s], h.salt)

\* So it is with the coordinates of a recovery.
LEMMA CoordinatesArePlaced ==
  ASSUME NEW h, NEW e, NEW lead, Shared(h, e, lead), NEW factors, Machine(factors)
  PROVE  Placed(Coordinates(h, factors), h, e, factors)
<1> DEFINE x == Coordinates(h, factors)
<1>1. DOMAIN x = DOMAIN e.slots \cap DOMAIN factors
  BY DEF Coordinates, Shared
<1>2. \A s \in DOMAIN x : x[s] = DeriveX(s, factors[s], h.salt)
  BY DEF Coordinates
<1>3. IsFiniteSet(DOMAIN x)
  BY <1>1, SharingAssumption, FS_Subset DEF Machine
<1>4. ASSUME NEW s \in DOMAIN x PROVE x[s] \in Field /\ x[s] # 0
  <2>1. s \in Names /\ factors[s] \in Values /\ h.salt \in 0..254
    BY <1>1 DEF Machine, Shared
  <2> QED
    BY <1>2, <2>1, CoordinateIsNumber
<1>5. x = [s \in DOMAIN x |-> x[s]]
  BY DEF Coordinates
<1>6. Terms(x, DOMAIN x)
  BY <1>4, <1>5 DEF Terms
<1>7. /\ Live(e, factors) \subseteq DOMAIN x
      /\ \A s \in Live(e, factors) : factors[s] = e.slots[s]
  BY <1>1 DEF Live, Present, Slots
<1>8. \A s \in Live(e, factors) : x[s] = DeriveX(s, e.slots[s], h.salt)
  BY <1>2, <1>7
<1>9. Apart(x, Live(e, factors))
  BY <1>1, <1>7, <1>8 DEF Apart, Shared, Distinct
<1> QED
  BY <1>1, <1>3, <1>4, <1>6, <1>7, <1>8, <1>9 DEF Placed

\* The points of unchanged factors are on a curve for each limb, with the key at zero.
LEMMA LiveOnCurve ==
  ASSUME NEW h, NEW e, NEW lead, Shared(h, e, lead), NEW factors,
         NEW x, Placed(x, h, e, factors), NEW limb, limb \in 1..Limbs
  PROVE  \E F, c : /\ Coeffs(c, h.t - 1) /\ Curve(F, c, h.t - 1)
                   /\ c[h.t - 1] = lead[limb] /\ F[0][0] = e.key[limb]
                   /\ \A s \in Live(e, factors) : F[x[s]][0] = h.shares[s][limb]
<1>0. /\ DOMAIN x = DOMAIN e.slots \cap DOMAIN factors /\ Terms(x, DOMAIN x)
      /\ Live(e, factors) \subseteq DOMAIN x
      /\ \A r \in Live(e, factors) : x[r] = DeriveX(r, e.slots[r], h.salt)
  BY DEF Placed
<1> DEFINE n == h.t - 1
           key == e.key[limb]
<1>1. PICK coeff \in [1..Limbs -> [1..n -> Field]] :
        /\ lead = [l \in 1..Limbs |-> coeff[l][n]]
        /\ \A s \in DOMAIN e.slots : \A l \in 1..Limbs :
             h.shares[s][l] = Evaluate(e.key[l], coeff[l], DeriveX(s, e.slots[s], h.salt))
  BY DEF Shared
<1> DEFINE a == coeff[limb]
           c == Polynomial(key, a, n)
<1>2. n \in Nat /\ n # 0 /\ key \in Field /\ a \in [1..n -> Field]
  <2>1. h.t \in Nat /\ h.t > 1 /\ e.key \in [1..Limbs -> Field]
    BY DEF Shared
  <2>2. a \in [1..n -> Field]
    BY <1>1
  <2>3. key \in Field
    BY <2>1
  <2>4. n \in Nat /\ n # 0
    BY <2>1
  <2> QED
    BY <2>2, <2>3, <2>4
<1>3. lead[limb] = a[n]
  BY <1>1
<1>4. c[n] = a[n]
  BY <1>2 DEF Polynomial
<1> HIDE DEF n, key, a
<1>5. Coeffs(c, n)
  BY <1>2, EvaluateIsHorner, Zeros
<1>6. PICK F : /\ Curve(F, c, n)
               /\ \A q \in Field : F[q][0] = Evaluate(key, a, q) /\ F[q][0] \in Field
               /\ F[0][0] = key
  BY <1>2, EvaluateIsCurve
<1>7. ASSUME NEW s \in Live(e, factors) PROVE F[x[s]][0] = h.shares[s][limb]
  <2>2. x[s] \in Field /\ x[s] = DeriveX(s, e.slots[s], h.salt) /\ s \in DOMAIN e.slots
    BY <1>0 DEF Terms
  <2>3. h.shares[s][limb] = Evaluate(key, a, x[s])
    BY <1>1, <2>2 DEF key, a
  <2> QED
    BY <1>6, <2>2, <2>3
<1> HIDE DEF c
<1> QED
  BY <1>3, <1>4, <1>5, <1>6, <1>7 DEF n, key

\* The shares of the slots in S are on the curve F.
Carries(F, h, x, S, limb) == \A s \in S : F[x[s]][0] = h.shares[s][limb]

\* The sums of the code are the weights of the points.
LEMMA SumsAreWeights ==
  ASSUME NEW h, NEW D, IsFiniteSet(D), NEW x, Terms(x, D), NEW S, S \subseteq D, Apart(x, S),
         NEW F, NEW limb, limb \in 1..Limbs, Carries(F, h, x, S, limb)
  PROVE  /\ KeyFromPoints(h, x, S)[limb] = Sum(Weighted(F, x, S, 0))
         /\ \A q : EvaluateAt(h, x, S, limb, q) = Sum(Weighted(F, x, S, q))
<1>1. ASSUME NEW j \in S
      PROVE  Mul(Product([k \in S \ {j} |-> x[k]]), Inv(Product([k \in S \ {j} |-> Sub(x[k], x[j])])))
               = Basis(x, S, j, 0)
  <2> DEFINE V == S \ {j}
  <2>1. V \subseteq D /\ x[j] \in Field /\ \A k \in V : x[k] # x[j]
    BY DEF Terms, Apart
  <2>2. Mul(Product([k \in V |-> x[k]]), Inv(Product([k \in V |-> Sub(x[k], x[j])])))
          = Mul(Zero(x, V, 0), Inv(Zero(x, V, x[j])))
    <3> HIDE DEF V
    <3> QED
      BY <2>1, Signs
  <2> QED
    BY <2>2 DEF Basis
<1>2. KeyFromPoints(h, x, S)[limb]
        = Sum([j \in S |-> Mul(h.shares[j][limb],
                               Mul(Product([k \in S \ {j} |-> x[k]]),
                                   Inv(Product([k \in S \ {j} |-> Sub(x[k], x[j])]))))])
  BY DEF KeyFromPoints
<1>3. [j \in S |-> Mul(h.shares[j][limb],
                       Mul(Product([k \in S \ {j} |-> x[k]]),
                           Inv(Product([k \in S \ {j} |-> Sub(x[k], x[j])]))))]
        = Weighted(F, x, S, 0)
  BY <1>1 DEF Weighted, Carries
<1>4. ASSUME NEW q PROVE EvaluateAt(h, x, S, limb, q) = Sum(Weighted(F, x, S, q))
  <2>1. [j \in S |-> Mul(h.shares[j][limb],
                         Mul(Product([k \in S \ {j} |-> Sub(q, x[k])]),
                             Inv(Product([k \in S \ {j} |-> Sub(x[j], x[k])]))))]
          = Weighted(F, x, S, q)
    BY DEF Weighted, Basis, Zero, Carries
  <2> QED
    BY <2>1 DEF EvaluateAt
<1> QED
  BY <1>2, <1>3, <1>4

\* A key is known by its limbs.
LEMMA KeyByLimbs ==
  ASSUME NEW h, NEW x, NEW S, NEW e, NEW lead, Shared(h, e, lead)
  PROVE  KeyFromPoints(h, x, S) = h.cw <=> \A limb \in 1..Limbs : KeyFromPoints(h, x, S)[limb] = e.key[limb]
<1>1. h.cw = e.key /\ e.key = [limb \in 1..Limbs |-> e.key[limb]]
  BY DEF Shared
<1>2. KeyFromPoints(h, x, S) = [limb \in 1..Limbs |-> KeyFromPoints(h, x, S)[limb]]
  BY DEF KeyFromPoints
<1> QED
  BY <1>1, <1>2

\* As many points of unchanged factors as the threshold give the key, and every other such
\* point is on the curve they are on.
THEOREM EnoughGiveKey ==
  ASSUME NEW h, NEW e, NEW lead, Shared(h, e, lead), NEW factors, NEW x, Placed(x, h, e, factors),
         NEW S, S \subseteq Live(e, factors), Cardinality(S) = h.t
  PROVE  /\ KeyFromPoints(h, x, S) = h.cw
         /\ \A s \in Live(e, factors) : \A limb \in 1..Limbs :
              EvaluateAt(h, x, S, limb, x[s]) = h.shares[s][limb]
<1> DEFINE D == DOMAIN x
           live == Live(e, factors)
<1>1. /\ IsFiniteSet(D) /\ Terms(x, D) /\ S \subseteq D /\ live \subseteq D /\ Apart(x, S)
      /\ \A s \in live : x[s] \in Field
  BY DEF Placed, Apart, Terms
<1>2. h.t \in Nat /\ (h.t - 1) + 1 = h.t
  BY DEF Shared
<1> HIDE DEF D, live
<1>3. ASSUME NEW limb, limb \in 1..Limbs
      PROVE  /\ KeyFromPoints(h, x, S)[limb] = e.key[limb]
             /\ \A s \in live : EvaluateAt(h, x, S, limb, x[s]) = h.shares[s][limb]
  <2>1. PICK F, c : /\ Coeffs(c, h.t - 1) /\ Curve(F, c, h.t - 1)
                    /\ c[h.t - 1] = lead[limb] /\ F[0][0] = e.key[limb]
                    /\ \A s \in live : F[x[s]][0] = h.shares[s][limb]
    BY <1>3, LiveOnCurve DEF live
  <2>2. /\ KeyFromPoints(h, x, S)[limb] = Sum(Weighted(F, x, S, 0))
        /\ \A q : EvaluateAt(h, x, S, limb, q) = Sum(Weighted(F, x, S, q))
    <3>1. Carries(F, h, x, S, limb)
      BY <2>1 DEF live, Carries
    <3> QED
      BY ONLY <1>1, <1>3, <3>1, SumsAreWeights, SMTT(30)
  <2>3. ASSUME NEW q \in Field PROVE Sum(Weighted(F, x, S, q)) = F[q][0]
    <3>1. Cardinality(S) = (h.t - 1) + 1
      BY <1>2
    <3> QED
      BY <1>1, <2>1, <3>1, EnoughPoints
  <2> QED
    BY <1>1, <2>1, <2>2, <2>3, Zeros
<1> QED
  BY <1>3, KeyByLimbs DEF live

\* One point less does not, unless every leading coefficient is 0.
THEOREM FewerDoNot ==
  ASSUME NEW h, NEW e, NEW lead, Shared(h, e, lead), NEW factors, NEW x, Placed(x, h, e, factors),
         NEW S, S \subseteq Live(e, factors), Cardinality(S) = h.t - 1
  PROVE  KeyFromPoints(h, x, S) = h.cw <=> \A limb \in 1..Limbs : lead[limb] = 0
<1> DEFINE D == DOMAIN x
           live == Live(e, factors)
<1>1. /\ IsFiniteSet(D) /\ Terms(x, D) /\ S \subseteq D /\ Apart(x, S)
      /\ \A s \in S : x[s] # 0
  BY DEF Placed, Apart, Terms
<1> HIDE DEF D, live
<1>2. ASSUME NEW limb, limb \in 1..Limbs
      PROVE  KeyFromPoints(h, x, S)[limb] = e.key[limb] <=> lead[limb] = 0
  <2>1. PICK F, c : /\ Coeffs(c, h.t - 1) /\ Curve(F, c, h.t - 1)
                    /\ c[h.t - 1] = lead[limb] /\ F[0][0] = e.key[limb]
                    /\ \A s \in live : F[x[s]][0] = h.shares[s][limb]
    BY <1>2, LiveOnCurve DEF live
  <2>2. KeyFromPoints(h, x, S)[limb] = Sum(Weighted(F, x, S, 0))
    <3>1. Carries(F, h, x, S, limb)
      BY <2>1 DEF live, Carries
    <3> QED
      BY ONLY <1>1, <1>2, <3>1, SumsAreWeights, SMTT(30)
  <2>3. Sum(Weighted(F, x, S, 0)) = F[0][0] <=> c[h.t - 1] = 0
    BY <1>1, <2>1, TooFewPoints, Zeros
  <2> QED
    BY <2>1, <2>2, <2>3
<1> QED
  BY <1>2, KeyByLimbs

------------------------------------------------------------------------------
(* The sets of points that a sweep goes through *)

\* A finite set has a subset of every smaller size.
LEMMA SomeOfSize ==
  ASSUME NEW S, IsFiniteSet(S), NEW k \in Nat, k <= Cardinality(S)
  PROVE  \E C \in SUBSET S : Cardinality(C) = k
<1> DEFINE T == {C \in SUBSET S : k <= Cardinality(C)}
<1>1. T \subseteq SUBSET S /\ T # {}
  OBVIOUS
<1>2. PICK C \in T : \A D \in T : ~(D \subseteq C /\ D # C)
  <2> HIDE DEF T
  <2> QED
    BY <1>1, LeastSubset
<1>3. IsFiniteSet(C) /\ Cardinality(C) \in Nat /\ k <= Cardinality(C)
  BY <1>2, FS_Subset, FS_CardinalityType
<1>4. CASE k = Cardinality(C)
  BY <1>2, <1>4
<1>5. CASE k < Cardinality(C)
  <2>1. PICK c \in C : TRUE
    BY <1>3, <1>5, FS_EmptySet
  <2>2. Cardinality(C \ {c}) = Cardinality(C) - 1
    BY <1>3, <2>1, FS_RemoveElement
  <2>3. C \ {c} \in T
    BY <1>2, <1>3, <1>5, <2>2
  <2> QED
    BY <1>2, <2>1, <2>3
<1> QED
  BY <1>3, <1>4, <1>5

\* A sweep goes through every set of t slots that has all of the hard locks in it.
LEMMA CandidatesAre ==
  ASSUME NEW h, h.t \in Nat, NEW M, NEW O, IsFiniteSet(M), IsFiniteSet(O), M \cap O = {},
         Cardinality(M) <= h.t, NEW S
  PROVE  S \in Candidates(h, M, O) <=> M \subseteq S /\ S \subseteq M \cup O /\ Cardinality(S) = h.t
<1>1. Cardinality(M) \in Nat /\ Larger(0, h.t - Cardinality(M)) = h.t - Cardinality(M)
  BY FS_CardinalityType DEF Larger
<1>2. ASSUME NEW C \in SUBSET O
      PROVE  /\ IsFiniteSet(C) /\ Cardinality(C) \in Nat
             /\ Cardinality(M \cup C) = Cardinality(M) + Cardinality(C)
  <2>1. IsFiniteSet(C) /\ Cardinality(C) \in Nat
    BY FS_Subset, FS_CardinalityType
  <2>2. M \cap C = {} /\ Cardinality({}) = 0
    BY FS_EmptySet
  <2>3. Cardinality(M \cup C) = Cardinality(M) + Cardinality(C) - Cardinality(M \cap C)
    BY <2>1, FS_Union
  <2> QED
    BY <1>1, <2>1, <2>2, <2>3
<1>3. ASSUME S \in Candidates(h, M, O)
      PROVE  M \subseteq S /\ S \subseteq M \cup O /\ Cardinality(S) = h.t
  <2>1. PICK C \in SUBSET O : Cardinality(C) = h.t - Cardinality(M) /\ S = M \cup C
    BY <1>1, <1>3 DEF Candidates, kSubset
  <2>2. Cardinality(M \cup C) = Cardinality(M) + Cardinality(C)
    BY <1>2
  <2>3. Cardinality(S) = h.t
    BY ONLY <1>1, <2>1, <2>2, h.t \in Nat
  <2> QED
    BY <2>1, <2>3
<1>4. ASSUME M \subseteq S, S \subseteq M \cup O, Cardinality(S) = h.t
      PROVE  S \in Candidates(h, M, O)
  <2>1. S \ M \in SUBSET O /\ M \cup (S \ M) = S
    BY <1>4
  <2>2. Cardinality(S \ M) \in Nat /\ h.t = Cardinality(M) + Cardinality(S \ M)
    BY ONLY <1>2, <1>4, <2>1
  <2>3. Cardinality(S \ M) = h.t - Cardinality(M)
    BY ONLY <1>1, <2>2, h.t \in Nat
  <2> QED
    BY <1>1, <2>1, <2>3 DEF Candidates, kSubset
<1> QED
  BY <1>3, <1>4

\* The hard locks that are there, without those in W; and the other slots.
Held(h, x, W) == (h.mandatory \cap DOMAIN x) \ W
Others(h, x)  == DOMAIN x \ h.mandatory

\* What a sweep chooses from, in terms of Recovery.
LEMMA SweepParts ==
  ASSUME NEW h, NEW e, NEW lead, Shared(h, e, lead), NEW factors, NEW x, Placed(x, h, e, factors),
         NEW W, W \subseteq h.mandatory
  PROVE  /\ Held(h, x, W) = (e.mandatory \cap DOMAIN factors) \ W
         /\ Others(h, x) = (Optional(e) \cap DOMAIN factors) \ W
         /\ Live(e, factors) \subseteq DOMAIN x /\ h.t \in Nat /\ h.t = e.t
         /\ IsFiniteSet(Held(h, x, W)) /\ IsFiniteSet(Others(h, x))
         /\ Held(h, x, W) \cap Others(h, x) = {}
         /\ Cardinality(Held(h, x, W)) \in Nat /\ Cardinality(Held(h, x, W)) < h.t
<1>1. /\ h.mandatory = e.mandatory /\ e.mandatory \subseteq DOMAIN e.slots
      /\ h.t \in Nat /\ h.t = e.t /\ Cardinality(e.mandatory) < h.t
      /\ DOMAIN e.slots \subseteq Names
  BY DEF Shared, Machine
<1>2. /\ DOMAIN x = DOMAIN e.slots \cap DOMAIN factors /\ IsFiniteSet(DOMAIN x)
      /\ Live(e, factors) \subseteq DOMAIN x
  BY DEF Placed
<1>3. /\ Held(h, x, W) = (e.mandatory \cap DOMAIN factors) \ W
      /\ Others(h, x) = (Optional(e) \cap DOMAIN factors) \ W
  BY <1>1, <1>2 DEF Held, Others, Optional, Slots
<1>4. IsFiniteSet(Held(h, x, W)) /\ IsFiniteSet(Others(h, x))
  BY <1>2, FS_Subset DEF Held, Others
<1>5. IsFiniteSet(e.mandatory) /\ Cardinality(e.mandatory) \in Nat
  BY <1>1, SharingAssumption, FS_Subset, FS_CardinalityType
<1>6. Cardinality(Held(h, x, W)) \in Nat /\ Cardinality(Held(h, x, W)) <= Cardinality(e.mandatory)
  BY <1>3, <1>4, <1>5, FS_Subset, FS_CardinalityType
<1>7. Held(h, x, W) \cap Others(h, x) = {}
  BY DEF Held, Others
<1> QED
  BY <1>1, <1>2, <1>3, <1>4, <1>5, <1>6, <1>7

\* What Sweep counts is there to be chosen.
LEMMA SweepFinds ==
  ASSUME NEW h, NEW e, NEW lead, Shared(h, e, lead), NEW factors, NEW x, Placed(x, h, e, factors),
         NEW W, W \subseteq h.mandatory, Sweep(e, factors, W)
  PROVE  RecoveringSubsets(h, x, Held(h, x, W), Others(h, x)) # {}
<1> DEFINE M == Held(h, x, W)
           O == Others(h, x)
           live == Live(e, factors)
<1>1. /\ M = (e.mandatory \cap DOMAIN factors) \ W /\ O = (Optional(e) \cap DOMAIN factors) \ W
      /\ live \subseteq DOMAIN x /\ h.t \in Nat /\ h.t = e.t
      /\ IsFiniteSet(M) /\ IsFiniteSet(O) /\ M \cap O = {}
      /\ Cardinality(M) \in Nat /\ Cardinality(M) < h.t
  BY SweepParts
<1>2. M \subseteq live /\ h.t - Cardinality(M) <= Cardinality(O \cap live)
  BY <1>1 DEF Sweep, Sweeps, Larger
<1> HIDE DEF M, O
<1>3. IsFiniteSet(O \cap live) /\ h.t - Cardinality(M) \in Nat
  BY <1>1, FS_Subset
<1>4. PICK C \in SUBSET (O \cap live) : Cardinality(C) = h.t - Cardinality(M)
  BY <1>2, <1>3, SomeOfSize
<1>5. IsFiniteSet(C) /\ M \cap C = {}
  BY <1>1, <1>3, <1>4, FS_Subset
<1>6. Cardinality(M \cup C) = Cardinality(M) + Cardinality(C) - Cardinality({})
  BY <1>1, <1>5, FS_Union
<1>7. Cardinality(M \cup C) = h.t
  BY <1>1, <1>4, <1>6, FS_EmptySet
<1>8. M \cup C \in Candidates(h, M, O)
  BY <1>1, <1>4, <1>7, CandidatesAre
<1>9. M \cup C \subseteq live
  BY <1>2, <1>4
<1>10. KeyFromPoints(h, x, M \cup C) = h.cw
  BY <1>7, <1>9, EnoughGiveKey DEF live
<1> QED
  BY <1>8, <1>10 DEF RecoveringSubsets, M, O

\* No set of points with a changed one in it gives the key: what NoCoincidence says first.
Genuine(h, x, e, factors) ==
  \A S \in SUBSET DOMAIN x :
    Cardinality(S) = h.t /\ KeyFromPoints(h, x, S) = h.cw => S \subseteq Live(e, factors)

\* Then nothing else is found.
LEMMA FindsSweep ==
  ASSUME NEW h, NEW e, NEW lead, Shared(h, e, lead), NEW factors, NEW x, Placed(x, h, e, factors),
         Genuine(h, x, e, factors), NEW W, W \subseteq h.mandatory,
         NEW S, S \in RecoveringSubsets(h, x, Held(h, x, W), Others(h, x))
  PROVE  /\ S \subseteq Live(e, factors) /\ Cardinality(S) = h.t
         /\ Held(h, x, W) \subseteq S /\ Sweep(e, factors, W)
<1> DEFINE M == Held(h, x, W)
           O == Others(h, x)
           live == Live(e, factors)
<1>1. /\ M = (e.mandatory \cap DOMAIN factors) \ W /\ O = (Optional(e) \cap DOMAIN factors) \ W
      /\ h.t \in Nat /\ h.t = e.t
      /\ IsFiniteSet(M) /\ IsFiniteSet(O) /\ M \cap O = {}
      /\ Cardinality(M) \in Nat /\ Cardinality(M) < h.t
  BY SweepParts
<1>2. S \in Candidates(h, M, O) /\ KeyFromPoints(h, x, S) = h.cw
  BY DEF RecoveringSubsets
<1>3. M \cup O \subseteq DOMAIN x
  BY DEF Held, Others
<1> HIDE DEF M, O, live
<1>4. M \subseteq S /\ S \subseteq M \cup O /\ Cardinality(S) = h.t
  BY <1>1, <1>2, CandidatesAre
<1>5. S \subseteq live
  BY <1>2, <1>3, <1>4 DEF Genuine, live
<1>6. /\ IsFiniteSet(S) /\ IsFiniteSet(O \cap live) /\ Cardinality(S \ M) <= Cardinality(O \cap live)
      /\ Cardinality(O \cap live) <= Cardinality(O)
      /\ Cardinality(O) \in Nat /\ Cardinality(O \cap live) \in Nat
  <2>1. IsFiniteSet(M \cup O)
    BY <1>1, FS_Union
  <2>2. IsFiniteSet(S) /\ IsFiniteSet(O \cap live) /\ Cardinality(O \cap live) <= Cardinality(O)
    BY <1>1, <1>4, <2>1, FS_Subset
  <2>3. S \ M \subseteq O \cap live
    BY <1>4, <1>5
  <2>4. Cardinality(S \ M) <= Cardinality(O \cap live)
    BY <2>2, <2>3, FS_Subset
  <2> QED
    BY <1>1, <2>2, <2>4, FS_CardinalityType
<1>7. Cardinality(S \ M) = h.t - Cardinality(M)
  <2>1. S \cap M = M
    BY <1>4
  <2>2. Cardinality(S \ M) = Cardinality(S) - Cardinality(S \cap M)
    BY <1>6, FS_Difference
  <2> QED
    BY ONLY <1>4, <2>1, <2>2
<1>8. Sweep(e, factors, W)
  <2>1. Larger(0, e.t - Cardinality(M)) = h.t - Cardinality(M)
    BY <1>1 DEF Larger
  <2>2. h.t - Cardinality(M) <= Cardinality(O) /\ h.t - Cardinality(M) <= Cardinality(O \cap live)
    BY <1>1, <1>6, <1>7
  <2>3. M \subseteq live
    BY <1>4, <1>5
  <2> QED
    BY <1>1, <2>1, <2>2, <2>3 DEF Sweep, Sweeps, live
<1> QED
  BY <1>4, <1>5, <1>8 DEF M, live

------------------------------------------------------------------------------
(* What a recovery returns *)

\* The slots without which a sweep finds something.
Suspects(h, x) == {c \in h.mandatory : RecoveringSubsets(h, x, Held(h, x, {c}), Others(h, x)) # {}}

\* recover_core once it has the coordinates.
Core(h, x) ==
  LET locks == Held(h, x, {})
      optional == Others(h, x)
      found == RecoveringSubsets(h, x, locks, optional)
  IN  IF Raises(h, x, locks, optional) THEN Failed("raises", {})
      ELSE IF h.mandatory \ DOMAIN x # {} THEN Failed("mandatory", h.mandatory \ DOMAIN x)
      ELSE IF found # {} THEN Succeeded(h, x, CHOOSE S \in found : TRUE)
      ELSE IF \E c \in locks : Raises(h, x, Held(h, x, {c}), optional) THEN Failed("raises", {})
      ELSE IF Suspects(h, x) = {} THEN Failed("drift", {})
      ELSE Failed("mandatory", {FirstOf(Suspects(h, x))})

\* The ways it ends, in its order.
Ends(h, x, r) ==
  \/ Raises(h, x, Held(h, x, {}), Others(h, x)) /\ r = Failed("raises", {})
  \/ h.mandatory \ DOMAIN x # {} /\ r = Failed("mandatory", h.mandatory \ DOMAIN x)
  \/ /\ h.mandatory \ DOMAIN x = {}
     /\ \E S \in RecoveringSubsets(h, x, Held(h, x, {}), Others(h, x)) : r = Succeeded(h, x, S)
  \/ /\ h.mandatory \ DOMAIN x = {}
     /\ RecoveringSubsets(h, x, Held(h, x, {}), Others(h, x)) = {}
     /\ \/ /\ \E c \in Held(h, x, {}) : Raises(h, x, Held(h, x, {c}), Others(h, x))
           /\ r = Failed("raises", {})
        \/ Suspects(h, x) = {} /\ r = Failed("drift", {})
        \/ Suspects(h, x) # {} /\ r = Failed("mandatory", {FirstOf(Suspects(h, x))})

\* recover_core ends in one of these ways.
LEMMA Outcomes ==
  ASSUME NEW h, NEW factors
  PROVE  Ends(h, Coordinates(h, factors), RecoverCore(h, factors))
<1> DEFINE x == Coordinates(h, factors)
<1>1. RecoverCore(h, factors) = Core(h, x)
  <2> DEFINE locks == h.mandatory \cap DOMAIN x
             optional == DOMAIN x \ h.mandatory
             found == RecoveringSubsets(h, x, locks, optional)
             culprits == {c \in h.mandatory :
                            RecoveringSubsets(h, x, (DOMAIN x \cap h.mandatory) \ {c}, optional) # {}}
  <2>1. /\ locks = Held(h, x, {}) /\ optional = Others(h, x)
        /\ \A c : locks \ {c} = Held(h, x, {c})
        /\ \A c : (DOMAIN x \cap h.mandatory) \ {c} = Held(h, x, {c})
    BY DEF Held, Others
  <2>2. culprits = Suspects(h, x)
    BY <2>1 DEF Suspects
  <2>3. Blamed(h, x) = IF culprits = {} THEN {} ELSE {FirstOf(culprits)}
    BY Zenon DEF Blamed
  <2>4. RecoverCore(h, factors)
          = IF Raises(h, x, locks, optional) THEN Failed("raises", {})
            ELSE IF h.mandatory \ DOMAIN x # {} THEN Failed("mandatory", h.mandatory \ DOMAIN x)
            ELSE IF found # {} THEN Succeeded(h, x, CHOOSE S \in found : TRUE)
            ELSE IF \E c \in locks : Raises(h, x, locks \ {c}, optional) THEN Failed("raises", {})
            ELSE Failed(IF Blamed(h, x) = {} THEN "drift" ELSE "mandatory", Blamed(h, x))
    BY Zenon DEF RecoverCore
  <2>5. Failed(IF Blamed(h, x) = {} THEN "drift" ELSE "mandatory", Blamed(h, x))
          = IF Suspects(h, x) = {} THEN Failed("drift", {})
            ELSE Failed("mandatory", {FirstOf(Suspects(h, x))})
    BY <2>2, <2>3
  <2>6. (\E c \in locks : Raises(h, x, locks \ {c}, optional))
          <=> \E c \in locks : Raises(h, x, Held(h, x, {c}), optional)
    BY <2>1
  <2> HIDE DEF locks, optional, found, x
  <2>7. found = RecoveringSubsets(h, x, Held(h, x, {}), Others(h, x))
    BY <2>1 DEF found
  <2> HIDE DEF culprits
  <2> QED
    BY <2>1, <2>4, <2>5, <2>6, <2>7 DEF Core
<1> HIDE DEF x
<1>2. \A found : found # {} => (CHOOSE S \in found : TRUE) \in found
  OBVIOUS
<1>3. Ends(h, x, Core(h, x))
  BY <1>2 DEF Ends, Core
<1> QED
  BY <1>1, <1>3 DEF x

\* A key that comes out is the one that was shared, whatever else the points are.
THEOREM RecoveredKey ==
  ASSUME NEW h, NEW factors, RecoverCore(h, factors).ok
  PROVE  RecoverCore(h, factors).key = h.cw
<1> DEFINE x == Coordinates(h, factors)
           r == RecoverCore(h, factors)
<1>1. \A reason, missing : ~Failed(reason, missing).ok
  BY DEF Failed
<1>2. Ends(h, x, r) /\ r.ok
  BY Outcomes
<1> HIDE DEF x, r
<1>3. PICK S \in RecoveringSubsets(h, x, Held(h, x, {}), Others(h, x)) : r = Succeeded(h, x, S)
  BY <1>1, <1>2 DEF Ends
<1> QED
  BY <1>3 DEF Succeeded, RecoveringSubsets, r

\* Where no two coordinates are one, nothing raises.
LEMMA ApartRaisesNothing ==
  ASSUME NEW h, h.t \in Nat, NEW x, IsFiniteSet(DOMAIN x), Apart(x, DOMAIN x), NEW W
  PROVE  ~Raises(h, x, Held(h, x, W), Others(h, x))
<1>1. ASSUME NEW S \in Candidates(h, Held(h, x, W), Others(h, x)) PROVE S \subseteq DOMAIN x
  BY DEF Candidates, kSubset, Held, Others
<1> QED
  BY <1>1 DEF Raises, Apart

\* Common is what the coordinates are computed from.
LEMMA CommonApart ==
  ASSUME NEW h, NEW factors, NEW common,
         common = [s \in DOMAIN h.shares \cap DOMAIN factors |-> factors[s]], Distinct(common, h.salt)
  PROVE  Apart(Coordinates(h, factors), DOMAIN Coordinates(h, factors))
BY DEF Coordinates, Apart, Distinct

\* With the points of enough unchanged factors, all hard locks among them, a recovery works.
LEMMA RecoveryWorks ==
  ASSUME NEW h, NEW e, NEW lead, Shared(h, e, lead), NEW factors, Machine(factors),
         Apart(Coordinates(h, factors), DOMAIN Coordinates(h, factors)), Recovers(e, factors)
  PROVE  RecoverCore(h, factors).ok
<1> DEFINE x == Coordinates(h, factors)
           r == RecoverCore(h, factors)
<1>1. Placed(x, h, e, factors)
  BY CoordinatesArePlaced
<1>2. h.mandatory \ DOMAIN x = {}
  <2>1. h.mandatory = e.mandatory /\ e.mandatory \subseteq DOMAIN e.slots
    BY DEF Shared
  <2>2. DOMAIN x = DOMAIN e.slots \cap DOMAIN factors
    BY <1>1 DEF Placed
  <2> QED
    BY <2>1, <2>2 DEF Recovers, MissingLocks
<1> HIDE DEF x, r
<1>3. RecoveringSubsets(h, x, Held(h, x, {}), Others(h, x)) # {}
  BY <1>1, SweepFinds DEF Recovers
<1>4. ~Raises(h, x, Held(h, x, {}), Others(h, x))
  <2>1. h.t \in Nat
    BY DEF Shared
  <2>2. IsFiniteSet(DOMAIN x) /\ Apart(x, DOMAIN x)
    BY <1>1 DEF Placed, x
  <2> QED
    BY <2>1, <2>2, ApartRaisesNothing
<1>5. Ends(h, x, r)
  BY Outcomes DEF x, r
<1>6. PICK S : r = Succeeded(h, x, S)
  BY <1>2, <1>3, <1>4, <1>5 DEF Ends
<1> QED
  BY <1>6 DEF Succeeded, r

------------------------------------------------------------------------------
(* What an enrollment or a refresh writes *)

\* Numbers drawn within the source, reduced, are numbers of the field.
LEMMA DrawnNumber ==
  ASSUME NEW i \in Nat, i < MaxDraws
  PROVE  Random(i) % P \in Field
<1>1. Random(i) \in Nat /\ P \in Nat /\ P > 0
  BY SharingAssumption
<1> QED
  BY <1>1, Remainder

\* Coefficients are numbers of the field if the source has as many numbers.
LEMMA CoefficientsAreNumbers ==
  ASSUME NEW t \in Nat, t > 1, NEW n \in Nat, n + Limbs * (t - 1) <= MaxDraws, NEW limb \in 1..Limbs
  PROVE  Coefficients(limb, t, n) \in [1..t - 1 -> Field]
<1>1. Limbs \in Nat /\ MaxDraws \in Nat /\ limb \in Nat /\ limb <= Limbs /\ limb >= 1
  BY SharingAssumption
<1>2. ASSUME NEW j \in 1..t - 1 PROVE Random(n + (limb - 1) * (t - 1) + j - 1) % P \in Field
  <2> DEFINE i == n + (limb - 1) * (t - 1) + j - 1
  <2>1. (limb - 1) * (t - 1) \in Nat
    BY ONLY <1>1, t \in Nat, t > 1
  <2>2. (limb - 1) * (t - 1) + (t - 1) = limb * (t - 1)
    BY ONLY <1>1, t \in Nat, t > 1
  <2>3. limb * (t - 1) <= Limbs * (t - 1) /\ Limbs * (t - 1) \in Nat
    BY ONLY <1>1, t \in Nat, t > 1
  <2>4. i \in Nat /\ i < MaxDraws
    <3> DEFINE a == (limb - 1) * (t - 1)
               b == Limbs * (t - 1)
    <3>1. a \in Nat /\ b \in Nat /\ a + (t - 1) <= b /\ n + b <= MaxDraws
      BY <2>1, <2>2, <2>3
    <3>2. i = n + a + j - 1
      OBVIOUS
    <3> HIDE DEF a, b, i
    <3> QED
      BY <1>1, <3>1, <3>2
  <2> HIDE DEF i
  <2>5. Random(i) % P \in Field
    BY <2>4, DrawnNumber
  <2> QED
    BY <2>5 DEF i
<1> QED
  BY <1>2 DEF Coefficients

\* What build_shares makes of a key and a machine's factors, with the numbers it draws.
THEOREM WrittenIsShared ==
  ASSUME NEW key \in [1..Limbs -> Field], NEW factors, Machine(factors),
         NEW locks, locks # {}, CanShare(factors, locks), Salts(factors) # {},
         NEW t, t = Threshold(Cardinality(DOMAIN factors), Cardinality(locks)),
         NEW n \in Nat, n + Limbs * (t - 1) <= MaxDraws,
         NEW lead, lead = [limb \in 1..Limbs |-> Coefficients(limb, t, n)[t - 1]]
  PROVE  /\ Shared(BuildShares(key, factors, locks, n), Share(key, factors, locks), lead)
         /\ lead \in [1..Limbs -> Field]
         /\ Limbs * (t - 1) \in Nat
<1> DEFINE h == BuildShares(key, factors, locks, n)
           e == Share(key, factors, locks)
           coeff == [limb \in 1..Limbs |-> Coefficients(limb, t, n)]
<1>1. /\ IsFiniteSet(DOMAIN factors) /\ IsFiniteSet(locks)
      /\ Cardinality(DOMAIN factors) \in Nat /\ Cardinality(locks) \in Nat /\ Cardinality(locks) # 0
  <2>1. IsFiniteSet(DOMAIN factors) /\ IsFiniteSet(locks)
    BY SharingAssumption, FS_Subset DEF Machine, CanShare
  <2> QED
    BY <2>1, FS_CardinalityType, FS_EmptySet
<1>2. t \in Nat /\ Cardinality(locks) < t /\ t <= Cardinality(DOMAIN factors) /\ t > 1
  <2>1. /\ Cardinality(DOMAIN factors) >= Minimum
        /\ Cardinality(locks) < Cardinality(DOMAIN factors)
    BY DEF CanShare
  <2>2. t \in Nat /\ Cardinality(locks) < t /\ t <= Cardinality(DOMAIN factors)
    BY <1>1, <2>1, ThresholdBounds
  <2> QED
    BY <1>1, <2>2
<1>3. coeff \in [1..Limbs -> [1..t - 1 -> Field]]
  BY <1>2, CoefficientsAreNumbers
<1>4. FirstOf(Salts(factors)) \in Salts(factors)
  <2>1. Salts(factors) \subseteq Nat
    <3>1. 0..254 \subseteq Nat
      OBVIOUS
    <3>2. Salts(factors) \subseteq 0..254
      BY Zenon DEF Salts
    <3> QED
      BY <3>1, <3>2, Zenon
  <2>2. \E m \in Salts(factors) : \A l \in Salts(factors) : m <= l
    BY <2>1, LeastNat
  <2> QED
    BY <2>2 DEF FirstOf
<1>5. h.salt = FirstOf(Salts(factors)) /\ h.t = t /\ h.mandatory = locks /\ h.cw = key
  BY DEF BuildShares
<1>6. h.shares = [s \in DOMAIN factors |->
                    [limb \in 1..Limbs |-> Evaluate(key[limb], Coefficients(limb, t, n),
                                                    DeriveX(s, factors[s], h.salt))]]
  BY DEF BuildShares
<1>7. e.key = key /\ e.slots = factors /\ e.mandatory = locks /\ e.t = t
  BY DEF Share
<1> HIDE DEF h, e, coeff
<1>8. \A s \in DOMAIN factors : \A limb \in 1..Limbs :
        h.shares[s][limb] = Evaluate(e.key[limb], coeff[limb], DeriveX(s, factors[s], h.salt))
  BY <1>6, <1>7 DEF coeff
<1>9. lead = [limb \in 1..Limbs |-> coeff[limb][h.t - 1]]
  BY <1>5 DEF coeff
<1>10. lead \in [1..Limbs -> Field] /\ Limbs * (t - 1) \in Nat
  <2>1. t - 1 \in 1..t - 1 /\ Limbs \in Nat
    BY <1>2, SharingAssumption
  <2>2. \A limb \in 1..Limbs : coeff[limb][t - 1] \in Field
    BY <1>3, <2>1
  <2>3. Limbs * (t - 1) \in Nat
    BY <1>2, <2>1
  <2> QED
    BY <1>5, <1>9, <2>2, <2>3
<1>11. h.salt \in 0..254 /\ Distinct(factors, h.salt)
  BY <1>4, <1>5 DEF Salts
<1>12. DOMAIN h.shares = DOMAIN factors
  BY <1>6
<1>13. locks \subseteq DOMAIN factors
  BY DEF CanShare
<1>14. \E c \in [1..Limbs -> [1..h.t - 1 -> Field]] :
         /\ lead = [limb \in 1..Limbs |-> c[limb][h.t - 1]]
         /\ \A s \in DOMAIN e.slots : \A limb \in 1..Limbs :
              h.shares[s][limb] = Evaluate(e.key[limb], c[limb], DeriveX(s, e.slots[s], h.salt))
  BY <1>3, <1>5, <1>7, <1>8, <1>9
<1>15. Shared(h, e, lead)
  BY <1>2, <1>5, <1>7, <1>11, <1>12, <1>13, <1>14 DEF Shared
<1> QED
  BY <1>10, <1>15 DEF h, e

------------------------------------------------------------------------------
(* The invariant *)

\* The strengthening of Sharing's invariants: the helper has the shares of what was enrolled,
\* and a result is what recover_core makes of the helper and the machine as they are.
SharingInv ==
  /\ hw \in [Names -> Values \cup {0}]
  /\ top \in [1..Limbs -> Field] /\ drawn \in 0..MaxDraws /\ changes \in 0..MaxChanges
  /\ helper # NoHelper =>
       /\ Shared(helper, enrolled, top)
       /\ helper.shares \in [DOMAIN helper.shares -> [1..Limbs -> Field]]
  /\ result # NoResult => helper # NoHelper /\ result = RecoverCore(helper, Collected)

\* What is collected from the hardware is a machine.
LEMMA CollectedIsMachine ==
  ASSUME hw \in [Names -> Values \cup {0}]
  PROVE  Machine(Collected)
BY DEF Machine, Collected

\* The shares that are written are numbers of the field.
LEMMA SharesAreNumbers ==
  ASSUME NEW key \in [1..Limbs -> Field], NEW factors, NEW locks, NEW n, NEW lead,
         Shared(BuildShares(key, factors, locks, n), Share(key, factors, locks), lead)
  PROVE  LET shares == BuildShares(key, factors, locks, n).shares
         IN  shares \in [DOMAIN shares -> [1..Limbs -> Field]]
<1> DEFINE h == BuildShares(key, factors, locks, n)
           e == Share(key, factors, locks)
<1>1. PICK coeff \in [1..Limbs -> [1..h.t - 1 -> Field]] :
        \A s \in DOMAIN e.slots : \A limb \in 1..Limbs :
          h.shares[s][limb] = Evaluate(e.key[limb], coeff[limb], DeriveX(s, e.slots[s], h.salt))
  BY DEF Shared
<1>2. h.shares = [s \in DOMAIN factors |->
                    [limb \in 1..Limbs |-> Evaluate(key[limb], Coefficients(limb, h.t, n),
                                                    DeriveX(s, factors[s], h.salt))]]
  BY DEF BuildShares
<1>3. Shared(h, e, lead)
  OBVIOUS
<1> HIDE DEF h, e
<1>4. /\ h.t \in Nat /\ h.t > 1 /\ h.salt \in 0..254 /\ Machine(e.slots)
      /\ e.key \in [1..Limbs -> Field] /\ DOMAIN h.shares = DOMAIN e.slots
  BY <1>3 DEF Shared
<1>5. ASSUME NEW s \in DOMAIN h.shares, NEW limb \in 1..Limbs PROVE h.shares[s][limb] \in Field
  <2>1. s \in DOMAIN e.slots /\ s \in Names /\ e.slots[s] \in Values
    BY <1>4 DEF Machine
  <2> DEFINE q == DeriveX(s, e.slots[s], h.salt)
             k == e.key[limb]
             c == coeff[limb]
             m == h.t - 1
  <2>2. q \in Field /\ k \in Field /\ c \in [1..m -> Field] /\ m \in Nat
    <3>1. q \in Field
      BY <1>4, <2>1, CoordinateIsNumber
    <3>2. k \in Field
      BY <1>4, Zenon
    <3>4. m \in Nat
      BY ONLY <1>4
    <3>3. c \in [1..m -> Field]
      BY <1>1
    <3> QED
      BY <3>1, <3>2, <3>3, <3>4
  <2>3. h.shares[s][limb] = Evaluate(k, c, q)
    BY <1>1, <2>1
  <2> HIDE DEF q, k, c, m
  <2>4. PICK F : \A y \in Field : F[y][0] = Evaluate(k, c, y) /\ F[y][0] \in Field
    BY <2>2, EvaluateIsCurve
  <2> QED
    BY <2>2, <2>3, <2>4
<1>6. h.shares \in [DOMAIN h.shares -> [1..Limbs -> Field]]
  BY <1>2, <1>5
<1> QED
  BY <1>6 DEF h

\* A write keeps it, whatever it was called for.
LEMMA WriteKeepsInv ==
  ASSUME SharingInv, NEW key \in [1..Limbs -> Field], NEW locks, locks # {}, NEW n \in Nat,
         Write(key, locks, n)
  PROVE  SharingInv'
<1> DEFINE t == Threshold(Cardinality(DOMAIN Collected), Cardinality(locks))
<1>1. /\ CanShare(Collected, locks) /\ Salts(Collected) # {}
      /\ drawn' = n + Limbs * (t - 1) /\ n + Limbs * (t - 1) <= MaxDraws
      /\ helper' = BuildShares(key, Collected, locks, n)
      /\ enrolled' = Share(key, Collected, locks)
      /\ top' = [limb \in 1..Limbs |-> Coefficients(limb, t, n)[t - 1]]
      /\ result' = NoResult /\ hw' = hw /\ changes' = changes
  BY DEF Write
<1>2. Machine(Collected)
  BY CollectedIsMachine DEF SharingInv
<1> HIDE DEF t
<1>3. /\ Shared(helper', enrolled', top') /\ top' \in [1..Limbs -> Field] /\ Limbs * (t - 1) \in Nat
  BY <1>1, <1>2, WrittenIsShared DEF t
<1>4. helper'.shares \in [DOMAIN helper'.shares -> [1..Limbs -> Field]]
  BY <1>1, <1>3, SharesAreNumbers
<1>5. drawn' \in 0..MaxDraws
  BY <1>1, <1>3, SharingAssumption
<1> QED
  BY <1>1, <1>3, <1>4, <1>5 DEF SharingInv

\* Where it holds it holds after every step.
THEOREM SharingStep == SharingInv /\ [Next]_vars => SharingInv'
<1> SUFFICES ASSUME SharingInv, [Next]_vars PROVE SharingInv'
  OBVIOUS
<1>1. CASE Enroll
  <2>1. PICK locks \in Locks :
          Write([limb \in 1..Limbs |-> Random(drawn + limb - 1) % P], locks, drawn + Limbs)
    BY <1>1 DEF Enroll
  <2>2. locks # {} /\ drawn + Limbs \in Nat /\ drawn \in Nat /\ Limbs \in Nat /\ MaxDraws \in Nat
    BY SharingAssumption DEF SharingInv
  <2>3. drawn + Limbs <= MaxDraws
    <3> DEFINE t == Threshold(Cardinality(DOMAIN Collected), Cardinality(locks))
    <3>1. CanShare(Collected, locks) /\ (drawn + Limbs) + Limbs * (t - 1) <= MaxDraws
      BY <2>1 DEF Write
    <3>2. IsFiniteSet(DOMAIN Collected) /\ IsFiniteSet(locks)
      BY <3>1, SharingAssumption, FS_Subset, CollectedIsMachine DEF Machine, CanShare, SharingInv
    <3>3. Cardinality(DOMAIN Collected) \in Nat /\ Cardinality(locks) \in Nat /\ Cardinality(locks) # 0
      BY <2>2, <3>2, FS_CardinalityType, FS_EmptySet
    <3>4. t \in Nat /\ Cardinality(locks) < t
      BY <3>1, <3>3, ThresholdBounds DEF CanShare
    <3> HIDE DEF t
    <3>5. t - 1 \in Nat
      BY <3>3, <3>4
    <3>6. Limbs * (t - 1) \in Nat
      BY ONLY <2>2, <3>5
    <3> QED
      BY <2>2, <3>1, <3>6
  <2>4. [limb \in 1..Limbs |-> Random(drawn + limb - 1) % P] \in [1..Limbs -> Field]
    <3>1. ASSUME NEW limb \in 1..Limbs PROVE Random(drawn + limb - 1) % P \in Field
      <4>1. drawn + limb - 1 \in Nat /\ drawn + limb - 1 < MaxDraws
        BY <2>2, <2>3
      <4> QED
        BY <4>1, DrawnNumber
    <3> QED
      BY <3>1
  <2> QED
    BY <2>1, <2>2, <2>4, WriteKeepsInv
<1>2. CASE Recover
  <2>1. /\ helper # NoHelper /\ result' = RecoverCore(helper, Collected)
        /\ hw' = hw /\ helper' = helper /\ enrolled' = enrolled /\ top' = top
        /\ drawn' = drawn /\ changes' = changes
    BY <1>2 DEF Recover
  <2>2. Collected' = Collected
    BY <2>1 DEF Collected
  <2> QED
    BY <2>1, <2>2 DEF SharingInv
<1>3. CASE Refresh
  <2>1. PICK locks \in Locks : Write(result.key, helper.mandatory \cup locks, drawn)
    BY <1>3 DEF Refresh
  <2>2. result # NoResult /\ result.ok /\ locks # {} /\ drawn \in Nat
    BY <1>3, SharingAssumption DEF Refresh, SharingInv
  <2>3. result.key \in [1..Limbs -> Field]
    <3>1. /\ helper # NoHelper /\ Shared(helper, enrolled, top)
          /\ result = RecoverCore(helper, Collected)
      BY <2>2 DEF SharingInv
    <3>2. result.key = helper.cw
      BY <2>2, <3>1, RecoveredKey
    <3> QED
      BY <3>1, <3>2 DEF Shared
  <2> QED
    BY <2>1, <2>2, <2>3, WriteKeepsInv
<1>4. CASE Change
  <2>1. /\ helper # NoHelper /\ changes < MaxChanges /\ changes' = changes + 1 /\ result' = NoResult
        /\ helper' = helper /\ enrolled' = enrolled /\ top' = top /\ drawn' = drawn
    BY <1>4 DEF Change
  <2>2. hw' \in [Names -> Values \cup {0}]
    BY <1>4 DEF Change, SharingInv
  <2>3. changes' \in 0..MaxChanges
    BY <2>1, SharingAssumption DEF SharingInv
  <2> QED
    BY <2>1, <2>2, <2>3 DEF SharingInv
<1>5. CASE UNCHANGED vars
  <2>1. Collected' = Collected
    BY <1>5 DEF vars, Collected
  <2> QED
    BY <1>5, <2>1 DEF vars, SharingInv
<1> QED
  BY <1>1, <1>2, <1>3, <1>4, <1>5 DEF Next

\* It holds in every state.
THEOREM SharingIsInvariant == Spec => []SharingInv
<1>1. Init => SharingInv
  <2> SUFFICES ASSUME Init PROVE SharingInv
    OBVIOUS
  <2>1. hw \in [Names -> Values \cup {0}]
    BY SharingAssumption DEF Init
  <2>2. top \in [1..Limbs -> Field]
    BY Zeros DEF Init
  <2> QED
    BY <2>1, <2>2, SharingAssumption DEF Init, SharingInv
<1> QED
  BY <1>1, SharingStep, PTL DEF Spec

------------------------------------------------------------------------------
(* What it says of the arithmetic *)

\* Shares, keys and what was drawn are numbers of the field.
THEOREM SharingTypeCorrect == Spec => []TypeOK
<1>1. ASSUME SharingInv PROVE TypeOK
  <2>1. ASSUME helper # NoHelper
        PROVE  /\ helper.cw \in [1..Limbs -> Field] /\ helper.salt \in 0..254
               /\ helper.shares \in [DOMAIN helper.shares -> [1..Limbs -> Field]]
               /\ helper.mandatory \subseteq DOMAIN helper.shares /\ helper.t \in 1..Cardinality(Names)
    <3>1. /\ Shared(helper, enrolled, top)
          /\ helper.shares \in [DOMAIN helper.shares -> [1..Limbs -> Field]]
      BY <1>1, <2>1 DEF SharingInv
    <3>2. /\ helper.cw \in [1..Limbs -> Field] /\ helper.salt \in 0..254
          /\ helper.mandatory \subseteq DOMAIN helper.shares
          /\ DOMAIN enrolled.slots \subseteq Names
          /\ helper.t \in Nat /\ helper.t > 1 /\ helper.t <= Cardinality(DOMAIN enrolled.slots)
      BY <3>1 DEF Shared, Machine
    <3>3. /\ Cardinality(Names) \in Nat /\ Cardinality(DOMAIN enrolled.slots) \in Nat
          /\ Cardinality(DOMAIN enrolled.slots) <= Cardinality(Names)
      BY <3>2, SharingAssumption, FS_Subset, FS_CardinalityType
    <3>4. helper.t \in 1..Cardinality(Names)
      BY ONLY <3>2, <3>3
    <3> QED
      BY <3>1, <3>2, <3>4
  <2>2. ASSUME result # NoResult, result.ok PROVE result.key \in [1..Limbs -> Field]
    <3>1. helper # NoHelper /\ result = RecoverCore(helper, Collected)
      BY <1>1, <2>2 DEF SharingInv
    <3>2. result.key = helper.cw
      BY <2>2, <3>1, RecoveredKey
    <3> QED
      BY <2>1, <3>1, <3>2
  <2> QED
    BY <1>1, <2>1, <2>2 DEF SharingInv, TypeOK
<1> QED
  BY <1>1, SharingIsInvariant, PTL

\* What a result is the result of.
LEMMA ResultIs ==
  ASSUME SharingInv, result # NoResult
  PROVE  /\ Shared(helper, enrolled, top) /\ Machine(Collected)
         /\ result = RecoverCore(helper, Collected)
         /\ Placed(Coordinates(helper, Collected), helper, enrolled, Collected)
<1>1. /\ Shared(helper, enrolled, top) /\ result = RecoverCore(helper, Collected)
      /\ hw \in [Names -> Values \cup {0}]
  BY DEF SharingInv
<1>2. Machine(Collected)
  BY <1>1, CollectedIsMachine
<1>3. Placed(Coordinates(helper, Collected), helper, enrolled, Collected)
  BY <1>1, <1>2, CoordinatesArePlaced
<1> QED
  BY <1>1, <1>2, <1>3

\* Coordinates that the factors do not share are apart.
LEMMA NothingCollides ==
  ASSUME Distinct(Common, helper.salt)
  PROVE  LET x == Coordinates(helper, Collected) IN Apart(x, DOMAIN x)
<1>1. Common = [s \in DOMAIN helper.shares \cap DOMAIN Collected |-> Collected[s]]
  BY DEF Common, Collected
<1> QED
  BY <1>1, CommonApart

\* The key that comes back is the one that was shared, whatever fits by coincidence, and it
\* comes back when enough factors are as they were: KeyComesBack.
THEOREM SharedKeyComesBack == Spec => []KeyComesBack
<1>1. ASSUME SharingInv PROVE KeyComesBack
  <2> SUFFICES ASSUME result # NoResult
               PROVE  /\ result.ok => result.key = enrolled.key
                      /\ Distinct(Common, helper.salt) /\ Recovers(enrolled, Collected) => result.ok
    BY DEF KeyComesBack
  <2>1. /\ Shared(helper, enrolled, top) /\ Machine(Collected)
        /\ result = RecoverCore(helper, Collected)
    BY <1>1, ResultIs
  <2>2. ASSUME result.ok PROVE result.key = enrolled.key
    <3>1. result.key = helper.cw
      BY <2>1, <2>2, RecoveredKey
    <3>2. helper.cw = enrolled.key
      BY <2>1 DEF Shared
    <3> QED
      BY <3>1, <3>2
  <2>3. ASSUME Distinct(Common, helper.salt), Recovers(enrolled, Collected) PROVE result.ok
    <3>1. LET x == Coordinates(helper, Collected) IN Apart(x, DOMAIN x)
      BY <2>3, NothingCollides
    <3> QED
      BY <2>1, <2>3, <3>1, RecoveryWorks
  <2> QED
    BY <2>2, <2>3
<1> QED
  BY <1>1, SharingIsInvariant, PTL

\* Any t of the shares give the key, and no t - 1 of them do unless all of the leading
\* coefficients are 0: ThresholdIsExact.
THEOREM SharedThresholdIsExact == Spec => []ThresholdIsExact
<1>1. ASSUME SharingInv PROVE ThresholdIsExact
  <2> DEFINE x == Coordinates(helper, enrolled.slots)
  <2> SUFFICES ASSUME helper # NoHelper
               PROVE  /\ \A S \in kSubset(helper.t, DOMAIN x) : KeyFromPoints(helper, x, S) = helper.cw
                      /\ \A S \in kSubset(helper.t - 1, DOMAIN x) :
                           KeyFromPoints(helper, x, S) = helper.cw <=> \A limb \in 1..Limbs : top[limb] = 0
    BY DEF ThresholdIsExact
  <2>1. Shared(helper, enrolled, top)
    BY <1>1 DEF SharingInv
  <2>2. Machine(enrolled.slots)
    BY <2>1 DEF Shared
  <2>3. Placed(x, helper, enrolled, enrolled.slots)
    BY <2>1, <2>2, CoordinatesArePlaced
  <2>4. DOMAIN x \subseteq Live(enrolled, enrolled.slots)
    BY <2>3 DEF Placed, Live, Present, Slots
  <2> HIDE DEF x
  <2>5. ASSUME NEW S \in kSubset(helper.t, DOMAIN x) PROVE KeyFromPoints(helper, x, S) = helper.cw
    <3>1. S \subseteq Live(enrolled, enrolled.slots) /\ Cardinality(S) = helper.t
      BY <2>4 DEF kSubset
    <3> QED
      BY <2>1, <2>3, <3>1, EnoughGiveKey
  <2>6. ASSUME NEW S \in kSubset(helper.t - 1, DOMAIN x)
        PROVE  KeyFromPoints(helper, x, S) = helper.cw <=> \A limb \in 1..Limbs : top[limb] = 0
    <3>1. S \subseteq Live(enrolled, enrolled.slots) /\ Cardinality(S) = helper.t - 1
      BY <2>4 DEF kSubset
    <3> QED
      BY <2>1, <2>3, <3>1, FewerDoNot
  <2> QED
    BY <2>5, <2>6
<1> QED
  BY <1>1, SharingIsInvariant, PTL

\* A point of the curve through S is live, and every live one is on it.
Tells(h, x, e, factors) ==
  \A S \in SUBSET Live(e, factors) : Cardinality(S) = h.t =>
    \A s \in DOMAIN x : OnCurve(h, x, S, s) => s \in Live(e, factors)

\* NoCoincidence, taken apart.
LEMMA CoincidenceParts ==
  ASSUME NEW x, x = Coordinates(helper, Collected), NoCoincidence,
         Live(enrolled, Collected) \subseteq DOMAIN x
  PROVE  Genuine(helper, x, enrolled, Collected) /\ Tells(helper, x, enrolled, Collected)
<1> DEFINE live == Live(enrolled, Collected)
<1>1. \A S \in kSubset(helper.t, DOMAIN x) :
        IF S \subseteq live
        THEN \A s \in DOMAIN x \ live :
               \E limb \in 1..Limbs : EvaluateAt(helper, x, S, limb, x[s]) # helper.shares[s][limb]
        ELSE KeyFromPoints(helper, x, S) # helper.cw
  BY DEF NoCoincidence
<1>2. Genuine(helper, x, enrolled, Collected)
  BY <1>1 DEF Genuine, kSubset
<1>3. ASSUME NEW S \in SUBSET live, Cardinality(S) = helper.t,
             NEW s \in DOMAIN x, OnCurve(helper, x, S, s), s \notin live
      PROVE  FALSE
  <2>1. S \in kSubset(helper.t, DOMAIN x)
    BY <1>3 DEF kSubset
  <2> QED
    BY <1>1, <1>3, <2>1 DEF OnCurve
<1> QED
  BY <1>2, <1>3 DEF Tells

\* What succeeds tells the changed slots from the others.
LEMMA DeadAreTold ==
  ASSUME NEW h, NEW e, NEW lead, Shared(h, e, lead), NEW factors, NEW x, Placed(x, h, e, factors),
         Tells(h, x, e, factors), NEW S, S \subseteq Live(e, factors), Cardinality(S) = h.t
  PROVE  Succeeded(h, x, S) = [ok |-> TRUE, key |-> e.key, dead |-> Dead(e, factors)]
<1> DEFINE live == Live(e, factors)
<1>1. KeyFromPoints(h, x, S) = e.key
  <2>1. h.cw = e.key
    BY DEF Shared
  <2>2. KeyFromPoints(h, x, S) = h.cw
    BY EnoughGiveKey
  <2> QED
    BY <2>1, <2>2
<1>2. ASSUME NEW s \in DOMAIN h.shares PROVE (s \in S \/ OnCurve(h, x, S, s)) <=> s \in live
  <2>1. ASSUME s \in live PROVE OnCurve(h, x, S, s)
    <3>1. \A limb \in 1..Limbs : EvaluateAt(h, x, S, limb, x[s]) = h.shares[s][limb]
      BY <2>1, EnoughGiveKey
    <3>2. s \in DOMAIN x
      BY <2>1 DEF Placed
    <3> QED
      BY <3>1, <3>2 DEF OnCurve
  <2>2. ASSUME OnCurve(h, x, S, s) PROVE s \in live
    <3>1. s \in DOMAIN x
      BY <2>2 DEF OnCurve
    <3> QED
      BY <2>2, <3>1 DEF Tells
  <2> QED
    BY <2>1, <2>2
<1>3. {s \in DOMAIN h.shares : ~(s \in S \/ OnCurve(h, x, S, s))} = DOMAIN h.shares \ live
  BY <1>2
<1>4. DOMAIN h.shares \ live = Dead(e, factors)
  BY DEF Dead, Slots, Shared
<1> QED
  BY <1>1, <1>3, <1>4 DEF Succeeded

\* The locks that the diagnosis suspects are those that Recovery says.
THEOREM SuspectsAreCulprits ==
  ASSUME NEW h, NEW e, NEW lead, Shared(h, e, lead), NEW factors, NEW x, Placed(x, h, e, factors),
         Genuine(h, x, e, factors)
  PROVE  /\ RecoveringSubsets(h, x, Held(h, x, {}), Others(h, x)) # {} <=> Sweep(e, factors, {})
         /\ Suspects(h, x) = {c \in e.mandatory : Sweep(e, factors, {c})}
<1>1. ASSUME NEW W, W \subseteq h.mandatory
      PROVE  RecoveringSubsets(h, x, Held(h, x, W), Others(h, x)) # {} <=> Sweep(e, factors, W)
  <2>1. ASSUME Sweep(e, factors, W) PROVE RecoveringSubsets(h, x, Held(h, x, W), Others(h, x)) # {}
    BY <1>1, <2>1, SweepFinds
  <2>2. ASSUME NEW S \in RecoveringSubsets(h, x, Held(h, x, W), Others(h, x)) PROVE Sweep(e, factors, W)
    BY <1>1, FindsSweep
  <2> QED
    BY <2>1, <2>2
<1>2. h.mandatory = e.mandatory
  BY DEF Shared
<1> QED
  BY <1>1, <1>2 DEF Suspects

\* Unless coordinates collide or a wrong point fits, a recovery does what Recovery says of
\* it: MatchesReference.
THEOREM SharingMatchesReference == Spec => []MatchesReference
<1>1. ASSUME SharingInv PROVE MatchesReference
  <2> DEFINE e == enrolled
             x == Coordinates(helper, Collected)
             missing == MissingLocks(enrolled, Collected)
             culprits == Culprits(enrolled, Collected)
             live == Live(enrolled, Collected)
  <2> SUFFICES ASSUME result # NoResult, Distinct(Common, helper.salt), NoCoincidence
               PROVE  result =
                        IF Recovers(enrolled, Collected)
                        THEN [ok |-> TRUE, key |-> enrolled.key, dead |-> Dead(enrolled, Collected)]
                        ELSE IF missing # {} THEN Failed("mandatory", missing)
                        ELSE IF culprits # {} THEN Failed("mandatory", {FirstOf(culprits)})
                        ELSE Failed("drift", {})
    BY DEF MatchesReference
  <2>1. /\ Shared(helper, enrolled, top) /\ result = RecoverCore(helper, Collected)
        /\ Placed(x, helper, enrolled, Collected)
    BY <1>1, ResultIs
  <2>2. Ends(helper, x, result)
    BY <2>1, Outcomes
  <2>3. live \subseteq DOMAIN x /\ IsFiniteSet(DOMAIN x) /\ DOMAIN x = DOMAIN e.slots \cap DOMAIN Collected
    BY <2>1 DEF Placed
  <2>4. helper.t \in Nat /\ helper.mandatory = e.mandatory /\ e.mandatory \subseteq DOMAIN e.slots
    BY <2>1 DEF Shared
  <2>5. Genuine(helper, x, enrolled, Collected) /\ Tells(helper, x, enrolled, Collected)
    BY <2>3, CoincidenceParts
  <2>6. Apart(x, DOMAIN x)
    BY NothingCollides
  <2> HIDE DEF x, live
  <2>7. \A W : ~Raises(helper, x, Held(helper, x, W), Others(helper, x))
    BY <2>3, <2>4, <2>6, ApartRaisesNothing
  <2>8. helper.mandatory \ DOMAIN x = missing
    BY <2>3, <2>4 DEF MissingLocks
  <2>9. /\ RecoveringSubsets(helper, x, Held(helper, x, {}), Others(helper, x)) # {}
             <=> Sweep(enrolled, Collected, {})
        /\ Suspects(helper, x) = {c \in enrolled.mandatory : Sweep(enrolled, Collected, {c})}
    BY <2>1, <2>5, SuspectsAreCulprits
  <2>10. CASE missing # {}
    BY <2>2, <2>7, <2>8, <2>10 DEF Ends, Recovers
  <2>11. CASE missing = {} /\ Sweep(enrolled, Collected, {})
    <3>1. PICK S \in RecoveringSubsets(helper, x, Held(helper, x, {}), Others(helper, x)) :
            result = Succeeded(helper, x, S)
      BY <2>2, <2>7, <2>8, <2>9, <2>11 DEF Ends
    <3>2. S \subseteq live /\ Cardinality(S) = helper.t
      BY <2>1, <2>5, FindsSweep DEF live
    <3>3. Succeeded(helper, x, S)
            = [ok |-> TRUE, key |-> enrolled.key, dead |-> Dead(enrolled, Collected)]
      BY <2>1, <2>5, <3>2, DeadAreTold DEF live
    <3> QED
      BY <2>11, <3>1, <3>3 DEF Recovers
  <2>12. CASE missing = {} /\ ~Sweep(enrolled, Collected, {})
    <3>1. Suspects(helper, x) = culprits
      BY <2>9, <2>12 DEF Culprits
    <3>2. \/ Suspects(helper, x) = {} /\ result = Failed("drift", {})
          \/ Suspects(helper, x) # {} /\ result = Failed("mandatory", {FirstOf(Suspects(helper, x))})
      BY <2>2, <2>7, <2>8, <2>9, <2>12 DEF Ends
    <3>3. ~Recovers(enrolled, Collected)
      BY <2>12 DEF Recovers
    <3> HIDE DEF culprits, missing
    <3> QED
      BY <2>12, <3>1, <3>2, <3>3
  <2> QED
    BY <2>10, <2>11, <2>12
<1> QED
  BY <1>1, SharingIsInvariant, PTL

\* Where the rest recovers without a hard lock that is as it was, it recovers with it.
LEMMA OneMoreIsEnough ==
  ASSUME NEW h, NEW e, NEW lead, Shared(h, e, lead), NEW factors, NEW c \in h.mandatory,
         Sweep(e, factors, {c}), Live(e, factors) \subseteq DOMAIN factors,
         e.mandatory \subseteq Live(e, factors)
  PROVE  Sweep(e, factors, {})
<1> DEFINE live == Live(e, factors)
           M == e.mandatory
           O == Optional(e) \cap DOMAIN factors
<1>1. c \in M /\ M \subseteq DOMAIN e.slots /\ DOMAIN e.slots \subseteq Names /\ e.t \in Nat /\ Cardinality(M) < e.t
  BY DEF Shared, Machine
<1>2. /\ M \cap DOMAIN factors = M /\ O \ {c} = O /\ O \subseteq Names
      /\ M \ {} = M /\ O \ {} = O
  BY <1>1 DEF Optional, Slots
<1>3. IsFiniteSet(M) /\ IsFiniteSet(O) /\ IsFiniteSet(O \cap live)
  BY <1>1, <1>2, SharingAssumption, FS_Subset
<1>4. /\ Cardinality(M) \in Nat /\ Cardinality(O) \in Nat /\ Cardinality(O \cap live) \in Nat
      /\ Cardinality(M \ {c}) = Cardinality(M) - 1
  BY <1>1, <1>3, FS_CardinalityType, FS_RemoveElement
<1>5. Sweeps(M \ {c}, O, live, e.t)
  BY <1>2 DEF Sweep
<1>6. Sweeps(M, O, live, e.t) => Sweep(e, factors, {})
  BY <1>2 DEF Sweep
<1> HIDE DEF live, M, O
<1>7. Sweeps(M, O, live, e.t)
  <2>1. M \subseteq live
    BY DEF M, live
  <2> QED
    BY <1>1, <1>4, <1>5, <2>1 DEF Sweeps, Larger
<1> QED
  BY <1>6, <1>7

\* Unless a wrong point fits, a hard lock that is blamed is missing or has changed, and of
\* those that are there no other has: BlameIsDeserved.
THEOREM SharingBlameIsDeserved == Spec => []BlameIsDeserved
<1>1. ASSUME SharingInv PROVE BlameIsDeserved
  <2> DEFINE x == Coordinates(helper, Collected)
             live == Live(enrolled, Collected)
             dead == Dead(enrolled, Collected)
  <2> SUFFICES ASSUME result # NoResult, ~result.ok, result.reason = "mandatory", NoCoincidence
               PROVE  /\ result.missing \subseteq dead
                      /\ result.missing \subseteq DOMAIN Collected
                           => dead \cap enrolled.mandatory = result.missing
    BY DEF BlameIsDeserved
  <2>1. /\ Shared(helper, enrolled, top) /\ result = RecoverCore(helper, Collected)
        /\ Placed(x, helper, enrolled, Collected)
    BY <1>1, ResultIs
  <2>2. Ends(helper, x, result)
    BY <2>1, Outcomes
  <2>3. live \subseteq DOMAIN x /\ DOMAIN x = DOMAIN enrolled.slots \cap DOMAIN Collected
    BY <2>1 DEF Placed
  <2>4. /\ helper.t \in Nat /\ helper.t = enrolled.t
        /\ helper.mandatory = enrolled.mandatory /\ enrolled.mandatory \subseteq DOMAIN enrolled.slots
        /\ enrolled.mandatory \subseteq Names
    BY <2>1 DEF Shared, Machine
  <2>5. Genuine(helper, x, enrolled, Collected)
    BY <2>3, CoincidenceParts
  <2>6. dead = DOMAIN enrolled.slots \ live
    BY DEF Dead, Slots
  <2>7. /\ Failed("raises", {}).reason # "mandatory" /\ Failed("drift", {}).reason # "mandatory"
        /\ \A missing : Failed("mandatory", missing).missing = missing
        /\ \A S : Succeeded(helper, x, S).ok
    BY DEF Failed, Succeeded
  <2> HIDE DEF x, live, dead
  <2>8. CASE helper.mandatory \ DOMAIN x # {} /\ result = Failed("mandatory", helper.mandatory \ DOMAIN x)
    BY <2>3, <2>4, <2>6, <2>7, <2>8
  <2>9. CASE /\ helper.mandatory \ DOMAIN x = {}
             /\ RecoveringSubsets(helper, x, Held(helper, x, {}), Others(helper, x)) = {}
             /\ Suspects(helper, x) # {}
             /\ result = Failed("mandatory", {FirstOf(Suspects(helper, x))})
    <3>1. Suspects(helper, x) \subseteq Nat
      BY <2>4, SharingAssumption DEF Suspects
    <3>2. PICK c : c = FirstOf(Suspects(helper, x)) /\ c \in Suspects(helper, x)
      <4>1. \E n \in Suspects(helper, x) : \A m \in Suspects(helper, x) : n <= m
        BY <2>9, <3>1, LeastNat
      <4> QED
        BY <4>1 DEF FirstOf
    <3>3. c \in helper.mandatory /\ Sweep(enrolled, Collected, {c})
      <4>1. Suspects(helper, x) = {d \in enrolled.mandatory : Sweep(enrolled, Collected, {d})}
        BY <2>1, <2>5, SuspectsAreCulprits
      <4> QED
        BY <2>4, <3>2, <4>1
    <3>4. ~Sweep(enrolled, Collected, {})
      BY <2>1, <2>5, <2>9, SuspectsAreCulprits
    <3>5. Held(helper, x, {}) = enrolled.mandatory /\ Held(helper, x, {c}) = enrolled.mandatory \ {c}
      BY <2>4, <2>9 DEF Held
    <3>6. enrolled.mandatory \ {c} \subseteq live
      <4>1. PICK S : S \in RecoveringSubsets(helper, x, Held(helper, x, {c}), Others(helper, x))
        BY <3>2 DEF Suspects
      <4>2. {c} \subseteq helper.mandatory
        BY <3>3
      <4>3. S \subseteq Live(enrolled, Collected) /\ Held(helper, x, {c}) \subseteq S
        BY <2>1, <2>5, <4>1, <4>2, FindsSweep
      <4> QED
        BY <3>5, <4>3 DEF live
    <3>7. c \notin live
      <4>1. ASSUME c \in live PROVE FALSE
        <5>1. enrolled.mandatory \subseteq live /\ live \subseteq DOMAIN Collected
          BY <2>3, <3>6, <4>1
        <5> QED
          BY <2>1, <3>3, <3>4, <5>1, OneMoreIsEnough DEF live
      <4> QED
        BY <4>1
    <3>8. result.missing = {c}
      BY <2>7, <2>9, <3>2
    <3> QED
      BY <2>4, <2>6, <3>3, <3>6, <3>7, <3>8
  <2> QED
    BY <2>2, <2>7, <2>8, <2>9 DEF Ends
<1> QED
  BY <1>1, SharingIsInvariant, PTL
==============================================================================
