------------------------------ MODULE Recovery -------------------------------
(****************************************************************************)
(* Threshold sharing and recovery (slhwid/core.py).  A helper holds a share *)
(* of one key for each slot it was enrolled over.  The field arithmetic is  *)
(* abstracted to what it computes: a set of points yields the key exactly   *)
(* when there are at least as many as the threshold and each comes from the *)
(* value its slot was enrolled with (an accidental match of the 256-bit     *)
(* check word is left out).  So a helper records the enrolled values.       *)
(****************************************************************************)
EXTENDS Factors

Minimum == 8       \* MINIMUM_FACTORS

Larger(i, j) == IF i > j THEN i ELSE j
Smaller(i, j) == IF i < j THEN i ELSE j

\* Mutant of Threshold: the hard locks do not raise it.
ThresholdOfSlots(n, m) ==
  LET t == IF n < 8 THEN (4 * n + 5 - 1) \div 5 ELSE (7 * n + 10 - 1) \div 10
  IN  Smaller(t, n)

\* Mutant of Threshold: nine tenths of the slots.
ThresholdNineTenths(n, m) ==
  LET t == IF n < 8 THEN (4 * n + 5 - 1) \div 5 ELSE (9 * n + 10 - 1) \div 10
  IN  Larger(m + 1, Smaller(t, n))

\* threshold(n, m), for the n and m that it does not reject
Threshold(n, m) ==
  LET t == IF n < 8 THEN (4 * n + 5 - 1) \div 5 ELSE (7 * n + 10 - 1) \div 10
  IN  Larger(m + 1, Smaller(t, n))

\* Whether a key can be shared over these factors with these hard locks.
CanShare(factors, mandatory) ==
  /\ mandatory \subseteq DOMAIN factors
  /\ Cardinality(DOMAIN factors) >= Minimum
  /\ Cardinality(mandatory) < Cardinality(DOMAIN factors)

\* build_shares and serialize_helper
Share(key, factors, mandatory) ==
  [norm |-> Current, key |-> key, slots |-> factors, mandatory |-> mandatory,
   t |-> Threshold(Cardinality(DOMAIN factors), Cardinality(mandatory))]

\* What parse_helper demands of a helper whose bytes are intact.
Parses(h) ==
  LET n == Cardinality(DOMAIN h.slots)
      m == Cardinality(h.mandatory)
  IN  /\ h.norm \in {Legacy, Current}
      /\ DOMAIN h.slots # {} /\ DOMAIN h.slots \subseteq SlotNames(h.norm)
      /\ h.t > 0 /\ h.t <= n /\ m > 0 /\ m < h.t
      /\ h.mandatory \subseteq DOMAIN h.slots /\ "slstore" \in h.mandatory

------------------------------------------------------------------------------
Slots(h) == DOMAIN h.slots
Optional(h) == Slots(h) \ h.mandatory

\* Slots whose factor is there, and slots whose factor is as it was enrolled.
Present(h, factors) == Slots(h) \cap DOMAIN factors
Live(h, factors) == {s \in Present(h, factors) : factors[s] = h.slots[s]}
Dead(h, factors) == Slots(h) \ Live(h, factors)

\* _find_recovering_subset: some t of the points, all the mandatory ones among
\* them, are on the curve.
Sweeps(mandatory, optional, live, t) ==
  LET need == Larger(0, t - Cardinality(mandatory))
  IN  /\ need <= Cardinality(optional)
      /\ mandatory \subseteq live
      /\ need <= Cardinality(optional \cap live)

MissingLocks(h, factors) == h.mandatory \ DOMAIN factors

Sweep(h, factors, without) ==
  Sweeps((h.mandatory \cap DOMAIN factors) \ without,
         (Optional(h) \cap DOMAIN factors) \ without, Live(h, factors), h.t)

Recovers(h, factors) == MissingLocks(h, factors) = {} /\ Sweep(h, factors, {})

\* The hard locks whose absence would let the rest of the machine recover:
\* recover_core blames the first of them for the failure.
Culprits(h, factors) ==
  IF MissingLocks(h, factors) # {} \/ Sweep(h, factors, {}) THEN {}
  ELSE {c \in h.mandatory : Sweep(h, factors, {c})}
==============================================================================
