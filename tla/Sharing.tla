------------------------------- MODULE Sharing -------------------------------
(****************************************************************************)
(* The arithmetic of slhwid/core.py that Recovery abstracts from: shares of *)
(* a key as points of polynomials over a prime field, the search for enough *)
(* points that give the key back, and what a slot off the curve is.  A slot *)
(* is a number, in the order of the slots' names, and its value is 0 when   *)
(* the factor is missing.                                                   *)
(*                                                                          *)
(* The hash behind derive_x and the random source are external: Hash and    *)
(* Random are any functions.  The check word is the key it is a hash of.    *)
(****************************************************************************)
EXTENDS Recovery, Sequences, FiniteSetsExt, Functions

CONSTANTS
  P,             \* the prime, 2^61 - 1 in the code
  Limbs,         \* numbers that make up a key
  Names,         \* slots
  Values,        \* values of a factor, 1 to begin with
  Installed,     \* sets of slots that the machine may have factors for to begin with
  Drifting,      \* slots whose factor may change, vanish or appear
  Locks,         \* sets of hard locks that programs ask for
  Hash(_, _, _), \* the number that a slot, a value and a salt hash to
  Random(_),     \* the n-th number of the source
  MaxDraws,      \* bound: numbers that the source has
  MaxChanges,    \* bound: changed factors
  NoHelper, NoResult

ASSUME SharingAssumption ==
  /\ P \in Nat \ {0, 1} /\ Limbs \in Nat \ {0} /\ {MaxDraws, MaxChanges} \subseteq Nat
  /\ Names \subseteq Nat /\ IsFiniteSet(Names) /\ 1 \in Values /\ 0 \notin Values
  /\ Installed \subseteq SUBSET Names /\ Drifting \subseteq Names
  /\ \A locks \in Locks : locks # {} /\ locks \subseteq Names
  /\ \A name \in Names, value \in Values, salt \in 0..254 : Hash(name, value, salt) \in Nat
  /\ \A n \in 0..MaxDraws - 1 : Random(n) \in Nat

VARIABLES
  hw,        \* the value of each slot's factor, or 0
  helper,    \* the device helper, as parsed
  enrolled,  \* history: what it was shared over, as Recovery has it
  result,    \* of recover_core, until something changes
  top,       \* history: the leading coefficients of its polynomials
  drawn,     \* numbers drawn from the source
  changes    \* factors changed

vars == <<hw, helper, enrolled, result, top, drawn, changes>>

------------------------------------------------------------------------------
(* Field arithmetic *)

\* Mutant of Add: the sum is not reduced.
AddUnreduced(a, b) == a + b

Add(a, b) == IF a + b >= P THEN a + b - P ELSE a + b
Sub(a, b) == IF a >= b THEN a - b ELSE a + P - b
Mul(a, b) == (a * b) % P

\* pow(a, -1, P)
Inv(a) ==
  LET power[n \in Nat] ==
        IF n = 0 THEN 1
        ELSE LET half == power[n \div 2]
             IN  IF n % 2 = 0 THEN Mul(half, half) ELSE Mul(a, Mul(half, half))
  IN  power[P - 2]

\* P is a prime.
ASSUME PrimeAssumption == \A d \in 2..P - 1 : P % d # 0

Sum(terms) == FoldFunction(Add, 0, terms)
Product(terms) == FoldFunction(Mul, 1, terms)

\* derive_x: never zero, where the key is
DeriveX(slot, value, salt) == 1 + (Hash(slot, value, salt) % (P - 1))

------------------------------------------------------------------------------
(* Sharing *)

\* Mutant of Evaluate: Horner's loop starts one coefficient late.
EvaluateLate(key, coeff, x) ==
  LET acc[j \in 0..Len(coeff)] ==
        IF j = Len(coeff) THEN 0 ELSE Add(Mul(acc[j + 1], x), IF j = 0 THEN key ELSE coeff[j])
  IN  acc[0]

\* Horner's rule for key + coeff[1] x + coeff[2] x^2 + ...
Evaluate(key, coeff, x) ==
  LET acc[j \in 0..Len(coeff) + 1] ==
        IF j > Len(coeff) THEN 0 ELSE Add(Mul(acc[j + 1], x), IF j = 0 THEN key ELSE coeff[j])
  IN  acc[0]

Distinct(factors, salt) ==
  \A r, s \in DOMAIN factors :
    r # s => DeriveX(r, factors[r], salt) # DeriveX(s, factors[s], salt)

\* The salts with which build_shares does not give up; it takes the first.
Salts(factors) == {salt \in 0..254 : Distinct(factors, salt)}
FirstOf(S) == CHOOSE n \in S : \A m \in S : n <= m

\* The coefficients of a limb's polynomial beside the key, drawn from the n-th number on.
Coefficients(limb, t, n) == [j \in 1..t - 1 |-> Random(n + (limb - 1) * (t - 1) + j - 1) % P]

\* build_shares and serialize_helper, with the numbers drawn from the n-th on
BuildShares(key, factors, mandatory, n) ==
  LET t == Threshold(Cardinality(DOMAIN factors), Cardinality(mandatory))
      salt == FirstOf(Salts(factors))
  IN  [salt |-> salt, t |-> t, mandatory |-> mandatory, cw |-> key,
       shares |-> [s \in DOMAIN factors |->
                     [limb \in 1..Limbs |-> Evaluate(key[limb], Coefficients(limb, t, n),
                                                    DeriveX(s, factors[s], salt))]]]

------------------------------------------------------------------------------
(* Recovery *)

Coordinates(h, factors) ==
  [s \in DOMAIN h.shares \cap DOMAIN factors |-> DeriveX(s, factors[s], h.salt)]

\* _lagrange_at_zero and _key_from_points, over the slots in S
KeyFromPoints(h, x, S) ==
  [limb \in 1..Limbs |->
     Sum([j \in S |-> Mul(h.shares[j][limb],
                          Mul(Product([k \in S \ {j} |-> x[k]]),
                              Inv(Product([k \in S \ {j} |-> Sub(x[k], x[j])]))))])]

\* _evaluate_at
EvaluateAt(h, x, S, limb, xq) ==
  Sum([j \in S |-> Mul(h.shares[j][limb],
                       Mul(Product([k \in S \ {j} |-> Sub(xq, x[k])]),
                           Inv(Product([k \in S \ {j} |-> Sub(x[j], x[k])]))))])

\* Mutant of Candidates: as many of the others as the threshold, whatever locks are there.
CandidatesOptional(h, mandatory, optional) ==
  {mandatory \cup combo : combo \in kSubset(h.t, optional)}

\* _find_recovering_subset: the sets of t slots, all of mandatory among them, ...
Candidates(h, mandatory, optional) ==
  {mandatory \cup combo : combo \in kSubset(Larger(0, h.t - Cardinality(mandatory)), optional)}

\* ... whose points give the key.  The code takes the first, which does not matter.
RecoveringSubsets(h, x, mandatory, optional) ==
  {S \in Candidates(h, mandatory, optional) : KeyFromPoints(h, x, S) = h.cw}

\* pow raises if two points of a set have one coordinate: nothing but chance keeps that
\* of a changed value apart from the others.
Raises(h, x, mandatory, optional) ==
  \E S \in Candidates(h, mandatory, optional) : \E r, s \in S : r # s /\ x[r] = x[s]

\* Mutant of OnCurve: a slot that took part is as good as any that is there.
OnCurvePresent(h, x, S, s) == s \in DOMAIN x

\* The slots that recover_core finds live beside those it used.
OnCurve(h, x, S, s) ==
  s \in DOMAIN x /\ \A limb \in 1..Limbs : EvaluateAt(h, x, S, limb, x[s]) = h.shares[s][limb]

Failed(reason, missing) == [ok |-> FALSE, reason |-> reason, missing |-> missing]

Succeeded(h, x, S) ==
  [ok |-> TRUE, key |-> KeyFromPoints(h, x, S),
   dead |-> {s \in DOMAIN h.shares : ~(s \in S \/ OnCurve(h, x, S, s))}]

\* Mutant of Blamed: the first hard lock is to blame.
BlamedFirst(h, x) == {FirstOf(h.mandatory)}

\* The hard lock without which the rest recovers, the first in stored order.
Blamed(h, x) ==
  LET culprits == {c \in h.mandatory :
                     RecoveringSubsets(h, x, (DOMAIN x \cap h.mandatory) \ {c}, DOMAIN x \ h.mandatory) # {}}
  IN  IF culprits = {} THEN {} ELSE {FirstOf(culprits)}

\* recover_core: all of the sweep is done before anything is looked at, and the sweeps of
\* the diagnosis all before anyone is blamed.
RecoverCore(h, factors) ==
  LET x == Coordinates(h, factors)
      absent == h.mandatory \ DOMAIN x
      locks == h.mandatory \cap DOMAIN x
      optional == DOMAIN x \ h.mandatory
      found == RecoveringSubsets(h, x, locks, optional)
  IN  IF Raises(h, x, locks, optional) THEN Failed("raises", {})
      ELSE IF absent # {} THEN Failed("mandatory", absent)
      ELSE IF found # {} THEN Succeeded(h, x, CHOOSE S \in found : TRUE)
      ELSE IF \E c \in locks : Raises(h, x, locks \ {c}, optional) THEN Failed("raises", {})
      ELSE Failed(IF Blamed(h, x) = {} THEN "drift" ELSE "mandatory", Blamed(h, x))

------------------------------------------------------------------------------
Collected == [s \in {n \in Names : hw[n] # 0} |-> hw[s]]

Init ==
  /\ hw \in {[n \in Names |-> IF n \in there THEN 1 ELSE 0] : there \in Installed}
  /\ helper = NoHelper /\ enrolled = NoHelper /\ result = NoResult
  /\ top = [limb \in 1..Limbs |-> 0] /\ drawn = 0 /\ changes = 0

\* What both an enrollment and a refresh do with a key, if the source has the numbers.
Write(key, mandatory, n) ==
  LET t == Threshold(Cardinality(DOMAIN Collected), Cardinality(mandatory)) IN
  /\ CanShare(Collected, mandatory) /\ Salts(Collected) # {}
  /\ drawn' = n + Limbs * (t - 1) /\ drawn' <= MaxDraws
  /\ helper' = BuildShares(key, Collected, mandatory, n)
  /\ enrolled' = Share(key, Collected, mandatory)
  /\ top' = [limb \in 1..Limbs |-> Coefficients(limb, t, n)[t - 1]]
  /\ result' = NoResult
  /\ UNCHANGED <<hw, changes>>

\* _prepare_locked without a helper
Enroll ==
  /\ helper = NoHelper
  /\ \E mandatory \in Locks :
       Write([limb \in 1..Limbs |-> Random(drawn + limb - 1) % P], mandatory, drawn + Limbs)

Recover ==
  /\ helper # NoHelper /\ result = NoResult
  /\ result' = RecoverCore(helper, Collected)
  /\ UNCHANGED <<hw, helper, enrolled, top, drawn, changes>>

\* refresh_core, with the hard locks of the helper and those of the program
Refresh ==
  /\ result # NoResult /\ result.ok
  /\ \E mandatory \in Locks : Write(result.key, helper.mandatory \cup mandatory, drawn)

\* A factor changes, vanishes or appears.
Change ==
  /\ helper # NoHelper /\ changes < MaxChanges /\ changes' = changes + 1
  /\ \E n \in Drifting, v \in Values \cup {0} : v # hw[n] /\ hw' = [hw EXCEPT ![n] = v]
  /\ result' = NoResult
  /\ UNCHANGED <<helper, enrolled, top, drawn>>

Next == Enroll \/ Recover \/ Refresh \/ Change

Spec == Init /\ [][Next]_vars

------------------------------------------------------------------------------
Field == 0..P - 1

\* The type invariant of Sharing: shares and keys are numbers of the field.
TypeOK ==
  /\ hw \in [Names -> Values \cup {0}]
  /\ helper # NoHelper =>
       /\ helper.cw \in [1..Limbs -> Field] /\ helper.salt \in 0..254
       /\ helper.shares \in [DOMAIN helper.shares -> [1..Limbs -> Field]]
       /\ helper.mandatory \subseteq DOMAIN helper.shares /\ helper.t \in 1..Cardinality(Names)
  /\ result # NoResult /\ result.ok => result.key \in [1..Limbs -> Field]
  /\ top \in [1..Limbs -> Field] /\ drawn \in 0..MaxDraws /\ changes \in 0..MaxChanges

\* The factors that the helper has a share for.
Common == [s \in DOMAIN helper.shares \cap DOMAIN Collected |-> hw[s]]

\* No set of points that has a changed factor in it gives the key, and the point of no
\* changed factor is on the curve: it would take a coincidence.
NoCoincidence ==
  LET x == Coordinates(helper, Collected)
      live == Live(enrolled, Collected)
  IN  \A S \in kSubset(helper.t, DOMAIN x) :
        IF S \subseteq live
        THEN \A s \in DOMAIN x \ live :
               \E limb \in 1..Limbs : EvaluateAt(helper, x, S, limb, x[s]) # helper.shares[s][limb]
        ELSE KeyFromPoints(helper, x, S) # helper.cw

\* The arithmetic computes what Recovery says: with enough of the values the helper was
\* shared over, all hard locks among them, the key comes back and the slots that are not
\* as they were are dead, no others; with fewer the recovery fails, for the missing hard
\* locks, or one of those that changed, or for drift.  (Unless two coordinates collide or
\* a wrong point fits by coincidence.)
MatchesReference ==
  result # NoResult /\ Distinct(Common, helper.salt) /\ NoCoincidence =>
    LET missing == MissingLocks(enrolled, Collected)
        culprits == Culprits(enrolled, Collected)
    IN  result =
          IF Recovers(enrolled, Collected)
          THEN [ok |-> TRUE, key |-> enrolled.key, dead |-> Dead(enrolled, Collected)]
          ELSE IF missing # {} THEN Failed("mandatory", missing)
          ELSE IF culprits # {} THEN Failed("mandatory", {FirstOf(culprits)})
          ELSE Failed("drift", {})

\* Whatever fits by coincidence, what comes out of a recovery is the key that was shared,
\* and it does come out when enough factors are as they were (unless two coordinates
\* collide).
KeyComesBack ==
  result # NoResult =>
    /\ result.ok => result.key = enrolled.key
    /\ Distinct(Common, helper.salt) /\ Recovers(enrolled, Collected) => result.ok

\* A hard lock that a recovery is refused for is missing or has changed, whatever drifted
\* beside it; and when one is blamed that is there, no other hard lock has changed.
\* (Unless a wrong point fits by coincidence.)
BlameIsDeserved ==
  result # NoResult /\ ~result.ok /\ result.reason = "mandatory" /\ NoCoincidence =>
    LET dead == Dead(enrolled, Collected) IN
    /\ result.missing \subseteq dead
    /\ result.missing \subseteq DOMAIN Collected => dead \cap enrolled.mandatory = result.missing

\* The threshold is exact: any t of the shares give the key, and no t - 1 of them do unless
\* every leading coefficient that was drawn is 0.  A helper is looked at while the machine
\* is as it was written over, by an enrollment or a refresh: it is the same later on, and
\* to go through its subsets again would only cost time.
ThresholdIsExact ==
  helper # NoHelper /\ Collected = enrolled.slots /\ result = NoResult =>
    LET x == Coordinates(helper, enrolled.slots) IN
    /\ \A S \in kSubset(helper.t, DOMAIN x) : KeyFromPoints(helper, x, S) = helper.cw
    /\ \A S \in kSubset(helper.t - 1, DOMAIN x) :
         KeyFromPoints(helper, x, S) = helper.cw <=> \A limb \in 1..Limbs : top[limb] = 0
==============================================================================
