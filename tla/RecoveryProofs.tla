--------------------------- MODULE RecoveryProofs ----------------------------
(****************************************************************************)
(* Theorems about the threshold policy and about recovery, for every number *)
(* of factors and hard locks, every helper and every state of the hardware. *)
(****************************************************************************)
EXTENDS Recovery, FiniteSetTheorems, TLAPS

\* Sets that are listed are finite; the schemas are put together from such.
LEMMA FourAreFinite == \A a, b, c, d : IsFiniteSet({a, b, c, d})
<1> TAKE a, b, c, d
<1>1. IsFiniteSet({a} \cup {b})
  BY FS_Singleton, FS_AddElement
<1>2. IsFiniteSet({a} \cup {b} \cup {c})
  BY <1>1, FS_AddElement
<1>3. IsFiniteSet({a} \cup {b} \cup {c} \cup {d})
  BY <1>2, FS_AddElement
<1>4. {a} \cup {b} \cup {c} \cup {d} = {a, b, c, d}
  OBVIOUS
<1> QED
  BY <1>3, <1>4

\* Both schemas have finitely many slots.
LEMMA NamesAreFinite == IsFiniteSet(LegacyNames) /\ IsFiniteSet(CurrentNames)
<1> DEFINE A == {"slstore", "machine_guid", "product_uuid", "board_serial"}
           B == {"cpu_id", "disk_serial", "mac", "ram_total"}
           C == {"volume_id", "computer_name", "firmware", "gpu_id"}
           D == {"monitor_edid", "os_build", "tpm_ek", "memory_modules"}
           E == {"nic_identity", "battery_serial", "platform_identity", "display_group"}
           F == {"software_environment", "slstore", "slstore", "slstore"}
<1>1. IsFiniteSet(A) /\ IsFiniteSet(B) /\ IsFiniteSet(C) /\ IsFiniteSet(D)
      /\ IsFiniteSet(E) /\ IsFiniteSet(F)
  BY FourAreFinite
<1>2. IsFiniteSet(A \cup B \cup C \cup D \cup E \cup F)
  <2> HIDE DEF A, B, C, D, E, F
  <2>1. IsFiniteSet(A \cup B)
    BY <1>1, FS_Union
  <2>2. IsFiniteSet(A \cup B \cup C)
    BY <1>1, <2>1, FS_Union
  <2>3. IsFiniteSet(A \cup B \cup C \cup D)
    BY <1>1, <2>2, FS_Union
  <2>4. IsFiniteSet(A \cup B \cup C \cup D \cup E)
    BY <1>1, <2>3, FS_Union
  <2> QED
    BY <1>1, <2>4, FS_Union
<1>3. LegacyNames \subseteq A \cup B \cup C \cup D \cup E \cup F
  BY DEF LegacyNames
<1>4. CurrentNames \subseteq A \cup B \cup C \cup D \cup E \cup F
  BY DEF CurrentNames, DirectNames, Groups
<1> HIDE DEF A, B, C, D, E, F
<1> QED
  BY <1>2, <1>3, <1>4, FS_Subset

------------------------------------------------------------------------------
\* The threshold lies above the number of hard locks and does not exceed the
\* number of slots; with at least three optional slots two can be lost.
THEOREM ThresholdBounds ==
  ASSUME NEW n \in Nat, NEW m \in Nat, n >= Minimum, m < n
  PROVE  /\ Threshold(n, m) \in Nat /\ m < Threshold(n, m) /\ Threshold(n, m) <= n
         /\ m + 3 <= n => Threshold(n, m) + 2 <= n
<1> DEFINE t == (7 * n + 10 - 1) \div 10
<1>1. t \in Nat /\ t <= n /\ t + 2 <= n
  BY DEF Minimum
<1>2. Threshold(n, m) = Larger(m + 1, Smaller(t, n))
  BY DEF Threshold, Minimum
<1> QED
  BY <1>1, <1>2 DEF Larger, Smaller

\* A helper that is written over factors it can be shared over, with the store
\* secret among its locks, passes the checks with which it is read.
THEOREM SharedHelperParses ==
  ASSUME NEW key, NEW factors, NEW locks,
         CanShare(factors, locks), "slstore" \in locks, DOMAIN factors \subseteq CurrentNames
  PROVE  Parses(Share(key, factors, locks))
<1> DEFINE n == Cardinality(DOMAIN factors)
           m == Cardinality(locks)
           h == Share(key, factors, locks)
<1>1. IsFiniteSet(DOMAIN factors) /\ IsFiniteSet(locks)
  BY NamesAreFinite, FS_Subset DEF CanShare
<1>2. n \in Nat /\ m \in Nat /\ n >= Minimum /\ m < n
  BY <1>1, FS_CardinalityType DEF CanShare
<1>3. m > 0
  BY <1>1, <1>2, FS_EmptySet
<1>4. Threshold(n, m) \in Nat /\ m < Threshold(n, m) /\ Threshold(n, m) <= n
  BY <1>2, ThresholdBounds
<1>5. h.norm = Current /\ h.slots = factors /\ h.mandatory = locks /\ h.t = Threshold(n, m)
  BY DEF Share
<1>6. DOMAIN factors # {} /\ DOMAIN factors \subseteq SlotNames(Current)
  BY <1>2, FS_EmptySet DEF Minimum, SlotNames, Current, Legacy
<1> HIDE DEF n, m, h
<1>7. /\ h.t > 0 /\ h.t <= n /\ m > 0 /\ m < h.t
  BY <1>2, <1>3, <1>4, <1>5
<1> QED
  BY <1>5, <1>6, <1>7 DEF Parses, CanShare, n, m, h

------------------------------------------------------------------------------
\* The counts that recovery compares, of a helper that parses.
LEMMA HelperCounts ==
  ASSUME NEW h, Parses(h), NEW factors
  PROVE  /\ IsFiniteSet(Slots(h)) /\ IsFiniteSet(Optional(h)) /\ IsFiniteSet(h.mandatory)
         /\ IsFiniteSet(Live(h, factors)) /\ IsFiniteSet(Dead(h, factors))
         /\ Cardinality(Slots(h)) \in Nat /\ Cardinality(h.mandatory) \in Nat
         /\ Cardinality(Dead(h, factors)) \in Nat /\ Cardinality(Live(h, factors)) \in Nat
         /\ Cardinality(Live(h, factors)) = Cardinality(Slots(h)) - Cardinality(Dead(h, factors))
         /\ h.mandatory \subseteq Slots(h) /\ Cardinality(h.mandatory) < h.t
         /\ Live(h, factors) \subseteq Slots(h) \cap DOMAIN factors
<1>1. IsFiniteSet(Slots(h))
  BY NamesAreFinite, FS_Subset DEF Parses, Slots, SlotNames
<1>2. h.mandatory \subseteq Slots(h) /\ Cardinality(h.mandatory) < h.t
  BY DEF Parses, Slots
<1>3. Live(h, factors) \subseteq Slots(h) \cap DOMAIN factors
  BY DEF Live, Present
<1>4. Live(h, factors) = Slots(h) \ Dead(h, factors) /\ Dead(h, factors) \subseteq Slots(h)
  BY <1>3 DEF Dead
<1>5. IsFiniteSet(h.mandatory) /\ IsFiniteSet(Optional(h)) /\ IsFiniteSet(Dead(h, factors))
      /\ IsFiniteSet(Live(h, factors))
  BY <1>1, <1>2, <1>4, FS_Subset DEF Optional
<1>6. Slots(h) \cap Dead(h, factors) = Dead(h, factors)
  BY <1>4
<1>7. Cardinality(Live(h, factors)) = Cardinality(Slots(h)) - Cardinality(Dead(h, factors))
  BY <1>1, <1>4, <1>6, FS_Difference
<1> QED
  BY <1>1, <1>2, <1>3, <1>5, <1>7, FS_CardinalityType

\* With every hard lock live, what decides is how many optional slots are.
LEMMA EnoughRecovers ==
  ASSUME NEW h, Parses(h), h.t \in Nat, NEW factors, h.mandatory \subseteq Live(h, factors),
         h.t <= Cardinality(Live(h, factors))
  PROVE  Recovers(h, factors)
<1> DEFINE live == Live(h, factors)
           opt == Optional(h) \cap DOMAIN factors
           m == Cardinality(h.mandatory)
<1>1. /\ IsFiniteSet(live) /\ IsFiniteSet(h.mandatory) /\ IsFiniteSet(Optional(h))
      /\ m \in Nat /\ m < h.t /\ live \subseteq Slots(h) \cap DOMAIN factors
  BY HelperCounts
<1>2. h.mandatory \cap DOMAIN factors = h.mandatory /\ MissingLocks(h, factors) = {}
  BY <1>1 DEF MissingLocks
<1>3. opt \cap live = live \ h.mandatory /\ live \cap h.mandatory = h.mandatory
  BY <1>1 DEF Optional
<1>4. Cardinality(opt \cap live) = Cardinality(live) - m
  BY <1>1, <1>3, FS_Difference
<1>5. IsFiniteSet(opt)
  BY <1>1, FS_Intersection
<1>6. Cardinality(opt \cap live) <= Cardinality(opt) /\ Cardinality(opt) \in Nat
  BY <1>5, FS_Intersection, FS_CardinalityType
<1>7. Cardinality(live) \in Nat
  BY <1>1, FS_CardinalityType
<1>8. Larger(0, h.t - m) = h.t - m
  BY <1>1 DEF Larger
<1>9. /\ Larger(0, h.t - m) <= Cardinality(opt)
      /\ Larger(0, h.t - m) <= Cardinality(opt \cap live)
  BY <1>1, <1>4, <1>6, <1>7, <1>8
<1>10. Sweeps(h.mandatory, opt, live, h.t)
  BY <1>9 DEF Sweeps
<1> QED
  BY <1>2, <1>10 DEF Recovers, Sweep

\* A helper whose threshold leaves two slots to spare recovers when its hard
\* locks are live and at most two of its slots are dead.
THEOREM TwoLossesAreTolerated ==
  ASSUME NEW h, Parses(h), h.t \in Nat, h.t + 2 <= Cardinality(Slots(h)),
         NEW factors, h.mandatory \subseteq Live(h, factors),
         Cardinality(Dead(h, factors)) <= 2
  PROVE  Recovers(h, factors)
<1>1. /\ Cardinality(Slots(h)) \in Nat /\ Cardinality(Dead(h, factors)) \in Nat
      /\ Cardinality(Live(h, factors)) = Cardinality(Slots(h)) - Cardinality(Dead(h, factors))
  BY HelperCounts
<1>2. h.t <= Cardinality(Live(h, factors))
  BY <1>1
<1> QED
  BY <1>2, EnoughRecovers

\* A hard lock that recover_core blames for a failure has really changed, and
\* it is the only hard lock that has.
THEOREM CulpritIsTheChange ==
  ASSUME NEW h, Parses(h), h.t \in Nat, NEW factors, NEW c \in Culprits(h, factors)
  PROVE  h.mandatory \ Live(h, factors) = {c}
<1> DEFINE live == Live(h, factors)
           opt == Optional(h) \cap DOMAIN factors
           m == Cardinality(h.mandatory)
<1>1. /\ IsFiniteSet(live) /\ IsFiniteSet(h.mandatory) /\ IsFiniteSet(Optional(h))
      /\ m \in Nat /\ m < h.t /\ h.mandatory \subseteq Slots(h)
  BY HelperCounts
<1>2. /\ c \in h.mandatory /\ MissingLocks(h, factors) = {}
      /\ ~ Sweep(h, factors, {}) /\ Sweep(h, factors, {c})
  BY DEF Culprits
<1>3. h.mandatory \cap DOMAIN factors = h.mandatory
  BY <1>2 DEF MissingLocks
<1>4. opt \ {c} = opt
  BY <1>2 DEF Optional
<1>5. Cardinality(h.mandatory \ {c}) = m - 1
  BY <1>1, <1>2, FS_RemoveElement
<1>6. /\ Larger(0, h.t - (m - 1)) <= Cardinality(opt)
      /\ h.mandatory \ {c} \subseteq live
      /\ Larger(0, h.t - (m - 1)) <= Cardinality(opt \cap live)
  BY <1>2, <1>3, <1>4, <1>5 DEF Sweep, Sweeps
<1>7. ASSUME c \in live PROVE FALSE
  <2>1. h.mandatory \subseteq live
    BY <1>6, <1>7
  <2>2. IsFiniteSet(opt) /\ IsFiniteSet(opt \cap live)
    BY <1>1, FS_Intersection
  <2>3. Cardinality(opt) \in Nat /\ Cardinality(opt \cap live) \in Nat
    BY <2>2, FS_CardinalityType
  <2>4. Larger(0, h.t - m) = h.t - m /\ Larger(0, h.t - (m - 1)) = h.t - m + 1
    BY <1>1 DEF Larger
  <2>5. /\ Larger(0, h.t - m) <= Cardinality(opt)
        /\ Larger(0, h.t - m) <= Cardinality(opt \cap live)
    BY <1>1, <1>6, <2>3, <2>4
  <2>6. Sweep(h, factors, {})
    BY <1>3, <2>1, <2>5 DEF Sweep, Sweeps
  <2> QED
    BY <1>2, <2>6
<1> QED
  BY <1>2, <1>6, <1>7

\* A re-share over the factors at hand recovers from them with no dead slot, so
\* that a commit never locks out the machine it was made on.
THEOREM ShareRecovers ==
  ASSUME NEW key, NEW factors, NEW locks,
         CanShare(factors, locks), "slstore" \in locks, DOMAIN factors \subseteq CurrentNames
  PROVE  LET h == Share(key, factors, locks)
         IN  Recovers(h, factors) /\ Dead(h, factors) = {}
<1> DEFINE h == Share(key, factors, locks)
<1>1. Parses(h)
  BY SharedHelperParses
<1>2. Slots(h) = DOMAIN factors /\ h.slots = factors /\ h.mandatory = locks
  BY DEF Share, Slots
<1>3. Live(h, factors) = Slots(h) /\ Dead(h, factors) = {}
  BY <1>2 DEF Live, Present, Dead
<1>4. Cardinality(DOMAIN factors) \in Nat /\ Cardinality(locks) \in Nat
  BY NamesAreFinite, FS_Subset, FS_CardinalityType DEF CanShare
<1>5. h.t \in Nat /\ h.t <= Cardinality(DOMAIN factors)
  BY <1>4, ThresholdBounds DEF Share, CanShare
<1>6. locks \subseteq DOMAIN factors
  BY DEF CanShare
<1> HIDE DEF h
<1>7. Recovers(h, factors)
  BY <1>1, <1>2, <1>3, <1>5, <1>6, EnoughRecovers
<1> QED
  BY <1>3, <1>7 DEF h
==============================================================================
