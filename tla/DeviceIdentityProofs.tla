------------------------- MODULE DeviceIdentityProofs ------------------------
(****************************************************************************)
(* Theorems about DeviceIdentity for any number of programs, any hard       *)
(* locks, any hardware and any bounds: one identity per device, no retired  *)
(* key restored, every helper readable, two losses tolerated, the store     *)
(* secret always the helper's, and no hard lock weakened.                   *)
(****************************************************************************)
EXTENDS DeviceIdentity, RecoveryProofs

\* Exactly the app in a locked block holds the lock.
LockHeld == \A a \in Apps : pc[a] \in Locked <=> holder = a

\* A helper parses, and its threshold is that of its slots and locks.
WellShared(h) ==
  /\ Parses(h)
  /\ h.t = Threshold(Cardinality(Slots(h)), Cardinality(h.mandatory))
  /\ Cardinality(Slots(h)) >= Minimum
  /\ Cardinality(h.mandatory) < Cardinality(Slots(h))

HelperGood == Enrolled => WellShared(helper)

\* A session that is in step with the helper agrees with it on the key, keeps
\* its hard locks, and has the store secret that it was enrolled with.
SyncedAgree ==
  \A a \in synced :
    /\ Enrolled /\ pc[a] \in Prepared /\ session[a].key = helper.key
    /\ MapMandatory(helper.mandatory) \subseteq session[a].mandatory
    /\ "slstore" \in DOMAIN session[a].factors
    /\ session[a].factors["slstore"] = helper.slots["slstore"]

\* While an app enrolls, unforced, nobody else has enrolled.
EnrollsAlone == \A a \in Apps : pc[a] = "enrolling" /\ ~ force[a] => stored = "none"

\* The store secret, as long as nobody tampers with it.
SecretKept ==
  tampers = 0 =>
    /\ secret # Damaged
    /\ Enrolled => helper.slots["slstore"]["slstore"] = secret /\ secret # Missing
    /\ \A a \in Apps : pc[a] = "enrolling" => snap[a]["slstore"] = secret /\ secret # Missing

\* The bound on keys leaves room for one that is being enrolled.
KeysSpare ==
  \A a \in Apps : pc[a] = "enrolling" \/ (pc[a] = "preparing" /\ Enrolls(a)) => keys < MaxKeys

IdentityInv ==
  /\ TypeOK /\ LockHeld /\ KeysSpare /\ HelperGood /\ SyncedAgree /\ EnrollsAlone
  /\ SecretKept /\ OneIdentity /\ RetiredStaysRetired

------------------------------------------------------------------------------
\* The store secret has the same name in both schemas.
LEMMA LockNames == CurrentName("slstore") = "slstore" /\ "slstore" \in CurrentNames
                   /\ "slstore" \in LegacyNames /\ "slstore" \in RawNames
  BY DEF CurrentName, CurrentNames, LegacyNames, RawNames, DirectNames, Groups

\* Every name that a program may lock is renamed to a slot of the current schema.
LEMMA CurrentNameIsCurrent == \A n \in CurrentNames \cup RawNames : CurrentName(n) \in CurrentNames
  BY DEF CurrentName, CurrentNames, RawNames, LegacyNames, DirectNames, Groups

\* A current name is not renamed.
LEMMA CurrentNamesStay == \A n \in CurrentNames : CurrentName(n) = n
  BY DEF CurrentName, CurrentNames, DirectNames, Groups

\* The store secret is a slot by itself.
LEMMA SlstoreIsItsOwnMember == \A norm : Members(norm, "slstore") = {"slstore"}
  BY DEF Members, Groups

\* The slots of a projection are slots of its schema, and slstore is one of them
\* exactly when there is a store secret.
LEMMA ProjectSlots ==
  ASSUME NEW raw, NEW norm
  PROVE  /\ DOMAIN Project(raw, norm) \subseteq SlotNames(norm)
         /\ "slstore" \in DOMAIN Project(raw, norm) <=> raw["slstore"] # Missing
         /\ "slstore" \in DOMAIN Project(raw, norm) =>
              Project(raw, norm)["slstore"] = [r \in {"slstore"} |-> raw["slstore"]]
<1> DEFINE present == {s \in SlotNames(norm) : \E r \in Members(norm, s) : raw[r] # Missing}
<1>1. Project(raw, norm) = [s \in present |-> [r \in Members(norm, s) |-> raw[r]]]
  BY DEF Project
<1>2. "slstore" \in SlotNames(norm)
  BY LockNames DEF SlotNames
<1> QED
  BY <1>1, <1>2, SlstoreIsItsOwnMember

\* What a program locks are slots of the current schema, the store secret among them.
LEMMA RequestedLocks ==
  ASSUME NEW a \in Apps
  PROVE  /\ MapMandatory(Requested(a)) \subseteq CurrentNames
         /\ "slstore" \in MapMandatory(Requested(a))
<1>1. Requested(a) \subseteq CurrentNames \cup RawNames /\ "slstore" \in Requested(a)
  BY LockNames, IdentityAssumption DEF Requested
<1> QED
  BY <1>1, LockNames, CurrentNameIsCurrent DEF MapMandatory

\* What _prepare_locked and commit write is a helper in good order.
LEMMA SharedIsGood ==
  ASSUME NEW key, NEW factors, NEW locks,
         CanShare(factors, locks), "slstore" \in locks, DOMAIN factors \subseteq CurrentNames
  PROVE  WellShared(Share(key, factors, locks))
<1>1. Parses(Share(key, factors, locks))
  BY SharedHelperParses
<1> QED
  BY <1>1 DEF WellShared, Share, Slots, CanShare

\* A helper that an earlier release wrote is in good order as well.
LEMMA LegacyIsGood ==
  ASSUME NEW raw, NEW locks, CanShare(Project(raw, Legacy), locks), "slstore" \in locks
  PROVE  WellShared(LegacyHelper(raw, locks))
<1> DEFINE slots == Project(raw, Legacy)
           h == LegacyHelper(raw, locks)
           n == Cardinality(DOMAIN slots)
           m == Cardinality(locks)
<1>1. DOMAIN slots \subseteq LegacyNames
  BY ProjectSlots DEF SlotNames
<1>2. IsFiniteSet(DOMAIN slots) /\ IsFiniteSet(locks) /\ locks \subseteq DOMAIN slots
  BY <1>1, NamesAreFinite, FS_Subset DEF CanShare
<1>3. n \in Nat /\ m \in Nat /\ n >= Minimum /\ m < n
  BY <1>2, FS_CardinalityType DEF CanShare
<1>4. m > 0
  BY <1>2, <1>3, FS_EmptySet
<1>5. Threshold(n, m) \in Nat /\ m < Threshold(n, m) /\ Threshold(n, m) <= n
  BY <1>3, ThresholdBounds
<1>6. h.norm = Legacy /\ h.slots = slots /\ h.mandatory = locks /\ h.t = Threshold(n, m)
  BY DEF LegacyHelper
<1>7. "slstore" \in DOMAIN slots
  BY <1>2
<1> HIDE DEF n, m, h, slots
<1>8. Parses(h)
  <2>1. h.t > 0 /\ h.t <= n /\ m > 0 /\ m < h.t
    BY <1>3, <1>4, <1>5, <1>6
  <2>2. DOMAIN h.slots # {} /\ DOMAIN h.slots \subseteq SlotNames(h.norm)
    BY <1>1, <1>6, <1>7 DEF SlotNames
  <2> QED
    BY <1>2, <1>6, <2>1, <2>2 DEF Parses, n, m
<1>9. Slots(h) = DOMAIN slots /\ h.mandatory = locks
  BY <1>6 DEF Slots
<1> QED
  BY <1>3, <1>6, <1>8, <1>9 DEF WellShared, h, n, m

------------------------------------------------------------------------------
\* The initial states have their types, those of a legacy machine included.
LEMMA InitTypeOK == Init => TypeOK
<1> SUFFICES ASSUME Init PROVE TypeOK
  OBVIOUS
<1>1. hw \in [RawNames -> {Missing, 1, 2}]
  BY DEF Init, InitialRaw, Missing
<1>2. /\ secret \in {Missing, Damaged} \cup 1 .. secrets /\ secrets \in Nat
      /\ keys \in 0 .. MaxKeys
  BY IdentityAssumption DEF Init, Missing
<1>3. stored \in {"none", "corrupt", "helper"} /\ (Enrolled => helper.key \in 1 .. keys)
  BY DEF Init, Enrolled, LegacyHelper
<1>4. /\ pc \in [Apps -> Labels] /\ force \in [Apps -> BOOLEAN] /\ holder \in Apps \cup {NoApp}
      /\ snap = [a \in Apps |-> snap[a]] /\ session = [a \in Apps |-> session[a]]
  BY DEF Init, Labels
<1>5. \A a \in Apps : pc[a] \notin Collected \cup Prepared
  BY DEF Init, Collected, Prepared
<1>6. /\ synced \subseteq Apps /\ retired \subseteq 1 .. keys
      /\ drifts \in 0 .. MaxDrift /\ tampers \in 0 .. MaxTamper
  BY IdentityAssumption DEF Init
<1>7. claim \in 0 .. keys
  BY DEF Init, Missing
<1> QED
  BY <1>1, <1>2, <1>3, <1>4, <1>5, <1>6, <1>7 DEF TypeOK, MachineOK, AppsOK, DataOK

\* The invariant holds on a new machine and on one from the legacy schema.
LEMMA InitIdentityInv == Init => IdentityInv
<1> SUFFICES ASSUME Init PROVE IdentityInv
  OBVIOUS
<1>1. TypeOK
  BY InitTypeOK
<1>2. \A a \in Apps : pc[a] = "off" /\ holder # a
  BY IdentityAssumption DEF Init
<1>3. LockHeld /\ EnrollsAlone /\ KeysSpare
  BY <1>2 DEF LockHeld, EnrollsAlone, KeysSpare, Locked
<1>4. SyncedAgree /\ RetiredStaysRetired
  BY DEF Init, SyncedAgree, RetiredStaysRetired
<1>5. OneIdentity
  BY <1>2 DEF Init, OneIdentity, Prepared
<1>6. CASE stored = "none" /\ secret = Missing
  <2>1. HelperGood /\ SecretKept
    BY <1>2, <1>6 DEF HelperGood, SecretKept, Enrolled, Missing, Damaged
  <2> QED
    BY <1>1, <1>3, <1>4, <1>5, <2>1 DEF IdentityInv
<1>7. CASE secret = 1 /\ \E locks \in LegacyLocks : helper = LegacyHelper(InitialRaw(1), locks)
  <2>1. PICK locks \in LegacyLocks : helper = LegacyHelper(InitialRaw(1), locks)
    BY <1>7
  <2>2. "slstore" \in locks /\ CanShare(Project(InitialRaw(1), Legacy), locks)
    BY <2>1, IdentityAssumption
  <2>3. HelperGood
    BY <2>1, <2>2, LegacyIsGood DEF HelperGood
  <2>4. helper.slots["slstore"]["slstore"] = 1
    <3>1. InitialRaw(1)["slstore"] = 1
      BY LockNames DEF InitialRaw
    <3>2. helper.slots["slstore"] = [r \in {"slstore"} |-> 1]
      <4>1. helper.slots = Project(InitialRaw(1), Legacy)
        BY <2>1 DEF LegacyHelper
      <4>2. "slstore" \in DOMAIN Project(InitialRaw(1), Legacy)
        BY <3>1, ProjectSlots DEF Missing
      <4>3. Project(InitialRaw(1), Legacy)["slstore"] = [r \in {"slstore"} |-> InitialRaw(1)["slstore"]]
        BY <4>2, ProjectSlots
      <4> QED
        BY <3>1, <4>1, <4>3
    <3> QED
      BY <3>2
  <2>5. SecretKept
    BY <1>2, <1>7, <2>4 DEF SecretKept, Missing, Damaged
  <2> QED
    BY <1>1, <1>3, <1>4, <1>5, <2>3, <2>5 DEF IdentityInv
<1> QED
  BY <1>6, <1>7 DEF Init

------------------------------------------------------------------------------
(* Steps that leave both files alone.                                        *)

\* What such a step may do to an app without disturbing the invariant.
Quiet(b) ==
  /\ pc'[b] \in Collected => snap'[b] \in [RawNames -> Int]
  /\ pc'[b] \in Prepared => pc[b] \in Prepared /\ session'[b] = session[b]
  /\ pc'[b] = "enrolling" => pc[b] = "enrolling" /\ snap'[b] = snap[b] /\ force'[b] = force[b]
  /\ pc'[b] = "preparing" /\ (stored' = "none" \/ force'[b]) => keys < MaxKeys
  /\ b \in synced' => pc'[b] \in Prepared

\* A step that leaves the store alone, and each session that is ready, keeps the invariant.
LEMMA QuietInv ==
  ASSUME IdentityInv, UNCHANGED <<secret, stored, helper, keys, secrets, retired, tampers>>,
         hw' \in [RawNames -> {Missing, 1, 2}], drifts' \in 0 .. MaxDrift,
         claim' \in {0, claim} \cup HelperKey \cup retired,
         AppsOK', LockHeld', synced' \subseteq synced, \A b \in Apps : Quiet(b)
  PROVE  IdentityInv'
<1>1. MachineOK'
  BY DEF IdentityInv, TypeOK, MachineOK, Enrolled, HelperKey
<1>2. DataOK'
  BY DEF IdentityInv, TypeOK, DataOK, IsSession, Quiet
<1>3. EnrollsAlone' /\ KeysSpare'
  BY DEF IdentityInv, EnrollsAlone, KeysSpare, Enrolls, Quiet
<1>4. HelperGood' /\ RetiredStaysRetired'
  BY DEF IdentityInv, HelperGood, RetiredStaysRetired, HelperKey, Enrolled
<1>5. SyncedAgree'
  BY DEF IdentityInv, TypeOK, AppsOK, SyncedAgree, Enrolled, Quiet
<1>6. SecretKept'
  BY DEF IdentityInv, SecretKept, Enrolled, Quiet
<1>7. OneIdentity'
  BY DEF IdentityInv, OneIdentity, HelperKey, Enrolled, Quiet
<1> QED
  BY <1>1, <1>2, <1>3, <1>4, <1>5, <1>6, <1>7 DEF IdentityInv, TypeOK

\* One lemma for each action: it keeps the invariant.
\* Collecting happens outside the lock and touches no file.
LEMMA CollectInv ==
  ASSUME IdentityInv, NEW a \in Apps, Collect(a)
  PROVE  IdentityInv'
<1>1. /\ pc[a] = "off" /\ pc' = [pc EXCEPT ![a] = "collected"]
      /\ force' \in {[force EXCEPT ![a] = f] : f \in BOOLEAN}
      /\ snap' = [snap EXCEPT ![a] = hw]
      /\ UNCHANGED <<store, world, holder, session>>
  BY DEF Collect, Goto
<1>2. AppsOK'
  BY <1>1 DEF IdentityInv, TypeOK, AppsOK, store, Labels
<1>3. LockHeld'
  BY <1>1 DEF IdentityInv, TypeOK, AppsOK, LockHeld, Locked
<1>4. snap'[a] \in [RawNames -> Int]
  BY <1>1 DEF IdentityInv, TypeOK, MachineOK, AppsOK, Missing
<1>5. \A b \in Apps : Quiet(b)
  BY <1>1, <1>4 DEF IdentityInv, TypeOK, AppsOK, DataOK, Quiet, SyncedAgree, KeysSpare, Enrolls,
                    Collected, Prepared, store
<1> QED
  BY <1>1, <1>2, <1>3, <1>5, QuietInv DEF IdentityInv, TypeOK, MachineOK, store, world

\* The lock was free, so nobody else is enrolling.
LEMMA LockToPrepareInv ==
  ASSUME IdentityInv, NEW a \in Apps, LockToPrepare(a)
  PROVE  IdentityInv'
<1>1. /\ pc[a] = "collected" /\ pc' = [pc EXCEPT ![a] = "preparing"]
      /\ holder = NoApp /\ holder' = a /\ (Enrolls(a) => keys < MaxKeys)
      /\ UNCHANGED <<store, world, force, snap, session>>
  BY DEF LockToPrepare, Goto
<1>2. AppsOK'
  BY <1>1 DEF IdentityInv, TypeOK, AppsOK, store, Labels
<1>3. LockHeld'
  BY <1>1, IdentityAssumption DEF IdentityInv, TypeOK, AppsOK, LockHeld, Locked
<1>4. \A b \in Apps : Quiet(b)
  BY <1>1 DEF IdentityInv, TypeOK, AppsOK, DataOK, Quiet, SyncedAgree, KeysSpare, Enrolls,
              Collected, Prepared, store
<1> QED
  BY <1>1, <1>2, <1>3, <1>4, QuietInv DEF IdentityInv, TypeOK, MachineOK, store, world

\* The lock was free, so nobody is enrolling.
LEMMA LockToCommitInv ==
  ASSUME IdentityInv, NEW a \in Apps, LockToCommit(a)
  PROVE  IdentityInv'
<1>1. /\ pc[a] = "accepted" /\ pc' = [pc EXCEPT ![a] = "committing"]
      /\ holder = NoApp /\ holder' = a
      /\ UNCHANGED <<store, world, force, snap, session>>
  BY DEF LockToCommit, Goto
<1>2. AppsOK'
  BY <1>1 DEF IdentityInv, TypeOK, AppsOK, store, Labels
<1>3. LockHeld'
  BY <1>1, IdentityAssumption DEF IdentityInv, TypeOK, AppsOK, LockHeld, Locked
<1>4. \A b \in Apps : Quiet(b)
  BY <1>1 DEF IdentityInv, TypeOK, AppsOK, DataOK, Quiet, SyncedAgree, KeysSpare, Enrolls,
              Collected, Prepared, store
<1> QED
  BY <1>1, <1>2, <1>3, <1>4, QuietInv DEF IdentityInv, TypeOK, MachineOK, store, world

\* A timeout leaves the store as it is.
LEMMA LockBusyInv ==
  ASSUME IdentityInv, NEW a \in Apps, LockBusy(a)
  PROVE  IdentityInv'
<1>1. /\ UNCHANGED <<store, world, holder, force, session>>
      /\ \/ /\ pc[a] = "collected" /\ pc' = [pc EXCEPT ![a] = "off"]
            /\ snap' = [snap EXCEPT ![a] = NoSnap]
         \/ /\ pc[a] = "accepted" /\ pc' = [pc EXCEPT ![a] = "spent"]
            /\ UNCHANGED snap
  BY DEF LockBusy, Goto
<1>2. AppsOK'
  BY <1>1 DEF IdentityInv, TypeOK, AppsOK, store, Labels
<1>3. LockHeld'
  BY <1>1 DEF IdentityInv, TypeOK, AppsOK, LockHeld, Locked
<1>4. \A b \in Apps : Quiet(b)
  BY <1>1 DEF IdentityInv, TypeOK, AppsOK, DataOK, Quiet, SyncedAgree, KeysSpare, Enrolls,
              Collected, Prepared, store
<1> QED
  BY <1>1, <1>2, <1>3, <1>4, QuietInv DEF IdentityInv, TypeOK, MachineOK, store, world

\* An error leaves the secret, if one was drawn, and no session.
LEMMA PrepareRaisesInv ==
  ASSUME IdentityInv, NEW a \in Apps, PrepareRaises(a)
  PROVE  IdentityInv'
<1>1. /\ pc[a] \in {"preparing", "enrolling"} /\ pc' = [pc EXCEPT ![a] = "off"]
      /\ holder' = NoApp /\ snap' = [snap EXCEPT ![a] = NoSnap]
      /\ UNCHANGED <<store, world, force, session>>
  BY DEF PrepareRaises, Goto
<1>2. AppsOK'
  BY <1>1 DEF IdentityInv, TypeOK, AppsOK, store, Labels
<1>3. LockHeld'
  BY <1>1, IdentityAssumption DEF IdentityInv, TypeOK, AppsOK, LockHeld, Locked
<1>4. \A b \in Apps : Quiet(b)
  BY <1>1 DEF IdentityInv, TypeOK, AppsOK, DataOK, Quiet, SyncedAgree, KeysSpare, Enrolls,
              Collected, Prepared, store
<1> QED
  BY <1>1, <1>2, <1>3, <1>4, QuietInv DEF IdentityInv, TypeOK, MachineOK, store, world

\* The server learns the key of a session, which is the current one or retired.
LEMMA AuthenticateInv ==
  ASSUME IdentityInv, NEW a \in Apps, Authenticate(a)
  PROVE  IdentityInv'
<1>1. /\ pc[a] \in {"ready", "spent"} /\ claim' = session[a].key
      /\ \/ pc[a] = "ready" /\ pc' = [pc EXCEPT ![a] = "accepted"]
         \/ UNCHANGED pc
      /\ UNCHANGED <<store, hw, drifts, tampers, holder, force, snap, session>>
  BY DEF Authenticate, Goto
<1>2. AppsOK'
  BY <1>1 DEF IdentityInv, TypeOK, AppsOK, store, Labels
<1>3. LockHeld'
  BY <1>1 DEF IdentityInv, TypeOK, AppsOK, LockHeld, Locked
<1>4. \A b \in Apps : Quiet(b)
  BY <1>1 DEF IdentityInv, TypeOK, AppsOK, DataOK, Quiet, SyncedAgree, KeysSpare, Enrolls,
              Collected, Prepared, store
<1>5. claim' \in HelperKey \cup retired
  BY <1>1 DEF IdentityInv, OneIdentity, Prepared
<1> QED
  BY <1>1, <1>2, <1>3, <1>4, <1>5, QuietInv DEF IdentityInv, TypeOK, MachineOK, store

\* A process that ends in a locked block leaves the store to the others.
LEMMA ExitInv ==
  ASSUME IdentityInv, NEW a \in Apps, Exit(a)
  PROVE  IdentityInv'
<1>1. /\ pc[a] # "off" /\ pc' = [pc EXCEPT ![a] = "off"]
      /\ holder' = (IF holder = a THEN NoApp ELSE holder) /\ synced' = synced \ {a}
      /\ snap' = [snap EXCEPT ![a] = NoSnap] /\ session' = [session EXCEPT ![a] = NoSession]
      /\ UNCHANGED <<secret, stored, helper, keys, secrets, retired, world, force>>
  BY DEF Exit, Goto
<1>2. AppsOK'
  BY <1>1 DEF IdentityInv, TypeOK, AppsOK, Labels
<1>3. LockHeld'
  BY <1>1, IdentityAssumption DEF IdentityInv, TypeOK, AppsOK, LockHeld, Locked
<1>4. \A b \in Apps : Quiet(b)
  BY <1>1 DEF IdentityInv, TypeOK, AppsOK, DataOK, Quiet, SyncedAgree, KeysSpare, Enrolls,
              Collected, Prepared
<1> QED
  BY <1>1, <1>2, <1>3, <1>4, QuietInv DEF IdentityInv, TypeOK, MachineOK, world

\* The server forgets the identity.
LEMMA ResetClaimInv == IdentityInv /\ ResetClaim => IdentityInv'
<1> SUFFICES ASSUME IdentityInv, ResetClaim PROVE IdentityInv'
  OBVIOUS
<1>1. /\ claim' = 0
      /\ UNCHANGED <<store, hw, drifts, tampers, holder, pc, force, snap, session>>
  BY DEF ResetClaim
<1>2. AppsOK' /\ LockHeld'
  BY <1>1 DEF IdentityInv, TypeOK, AppsOK, LockHeld, store
<1>3. \A b \in Apps : Quiet(b)
  BY <1>1 DEF IdentityInv, TypeOK, DataOK, Quiet, SyncedAgree, KeysSpare, Enrolls, store
<1> QED
  BY <1>1, <1>2, <1>3, QuietInv DEF IdentityInv, TypeOK, MachineOK, store

\* Drift shows up in what is collected next, and nowhere else.
LEMMA DriftInv == IdentityInv /\ Drift => IdentityInv'
<1> SUFFICES ASSUME IdentityInv, Drift PROVE IdentityInv'
  OBVIOUS
<1>1. /\ drifts < MaxDrift /\ drifts' = drifts + 1
      /\ UNCHANGED <<store, claim, tampers, holder, pc, force, snap, session>>
  BY DEF Drift
<1>2. AppsOK' /\ LockHeld'
  BY <1>1 DEF IdentityInv, TypeOK, AppsOK, LockHeld, store
<1>3. \A b \in Apps : Quiet(b)
  BY <1>1 DEF IdentityInv, TypeOK, DataOK, Quiet, SyncedAgree, KeysSpare, Enrolls, store
<1>4. hw' \in [RawNames -> {Missing, 1, 2}]
  BY DEF IdentityInv, TypeOK, MachineOK, Drift
<1>5. drifts' \in 0 .. MaxDrift
  BY <1>1, IdentityAssumption DEF IdentityInv, TypeOK, MachineOK
<1> QED
  BY <1>1, <1>2, <1>3, <1>4, <1>5, QuietInv DEF IdentityInv, store

\* Nothing changes.
LEMMA StutterInv == IdentityInv /\ UNCHANGED vars => IdentityInv'
<1> SUFFICES ASSUME IdentityInv, UNCHANGED vars PROVE IdentityInv'
  OBVIOUS
<1>1. UNCHANGED <<store, world, holder, pc, force, snap, session>>
  BY DEF vars
<1>2. AppsOK' /\ LockHeld'
  BY <1>1 DEF IdentityInv, TypeOK, AppsOK, LockHeld, store
<1>3. \A b \in Apps : Quiet(b)
  BY <1>1 DEF IdentityInv, TypeOK, DataOK, Quiet, SyncedAgree, KeysSpare, Enrolls, store
<1> QED
  BY <1>1, <1>2, <1>3, QuietInv DEF IdentityInv, TypeOK, MachineOK, store, world

------------------------------------------------------------------------------
(* Steps that write a file, or bring a session in step with the helper.             *)

\* A secret is drawn only where there is none, so that none is lost.
LEMMA EnsureSecretInv ==
  ASSUME IdentityInv, NEW a \in Apps, EnsureSecret(a)
  PROVE  IdentityInv'
<1>1. /\ pc[a] = "preparing" /\ Enrolls(a) /\ pc' = [pc EXCEPT ![a] = "enrolling"]
      /\ snap' = [snap EXCEPT ![a]["slstore"] = secret']
      /\ UNCHANGED <<stored, helper, synced, keys, retired, world, holder, force, session>>
      /\ secret # Damaged
      /\ \/ secret = Missing /\ secret' = secrets + 1 /\ secrets' = secrets + 1
         \/ secret # Missing /\ secret' = secret /\ secrets' = secrets
  BY DEF EnsureSecret, Goto
<1>2. MachineOK'
  BY <1>1 DEF IdentityInv, TypeOK, MachineOK, Enrolled, Missing, Damaged, world
<1>3. AppsOK'
  BY <1>1 DEF IdentityInv, TypeOK, AppsOK, Labels
<1>4. \A b \in Apps : b # a => pc'[b] = pc[b] /\ snap'[b] = snap[b] /\ pc[b] \notin Locked
  BY <1>1 DEF IdentityInv, TypeOK, AppsOK, LockHeld, Locked
<1>5. pc'[a] = "enrolling"
  BY <1>1 DEF IdentityInv, TypeOK, AppsOK
<1>6. snap[a] \in [RawNames -> Int] /\ secret' \in Int
  BY <1>1 DEF IdentityInv, TypeOK, MachineOK, DataOK, Collected, Missing, Damaged
<1>7. snap'[a] = [snap[a] EXCEPT !["slstore"] = secret']
  BY <1>1 DEF IdentityInv, TypeOK, AppsOK
<1>8. snap'[a] \in [RawNames -> Int] /\ snap'[a]["slstore"] = secret'
  BY <1>6, <1>7, LockNames
<1>9. DataOK'
  BY <1>1, <1>4, <1>5, <1>8 DEF IdentityInv, TypeOK, DataOK, IsSession, Prepared
<1>10. LockHeld'
  BY <1>1, <1>4, <1>5 DEF IdentityInv, LockHeld, Locked
<1>11. KeysSpare' /\ EnrollsAlone'
  BY <1>1, <1>4, <1>5 DEF IdentityInv, KeysSpare, EnrollsAlone, Enrolls, Locked
<1>12. HelperGood' /\ RetiredStaysRetired'
  BY <1>1 DEF IdentityInv, HelperGood, RetiredStaysRetired, HelperKey, Enrolled
<1>13. SyncedAgree'
  BY <1>1, <1>4 DEF IdentityInv, TypeOK, AppsOK, SyncedAgree, Prepared, Enrolled
<1>14. SecretKept'
  <2>1. secret' # Missing /\ secret' # Damaged
    BY <1>1 DEF IdentityInv, TypeOK, MachineOK, Missing, Damaged
  <2>2. \A b \in Apps : pc'[b] = "enrolling" => b = a
    BY <1>4 DEF Locked
  <2>3. tampers = 0 /\ Enrolled => secret' = secret
    BY <1>1 DEF IdentityInv, SecretKept
  <2> QED
    BY <1>1, <1>8, <2>1, <2>2, <2>3 DEF IdentityInv, SecretKept, Enrolled, world
<1>15. OneIdentity'
  BY <1>1, <1>4, <1>5 DEF IdentityInv, OneIdentity, Prepared, HelperKey, Enrolled, world
<1> QED
  BY <1>2, <1>3, <1>9, <1>10, <1>11, <1>12, <1>13, <1>14, <1>15 DEF IdentityInv, TypeOK

\* The new helper has a key of its own, and the secret that is on disk.
LEMMA EnrollHelperInv ==
  ASSUME IdentityInv, NEW a \in Apps, EnrollHelper(a)
  PROVE  IdentityInv'
<1> DEFINE factors == Project(snap[a], Current)
           locks == MapMandatory(Requested(a))
           new == [key |-> keys + 1, factors |-> factors, mandatory |-> locks, pending |-> FALSE]
<1>1. /\ pc[a] = "enrolling" /\ pc' = [pc EXCEPT ![a] = "ready"]
      /\ CanShare(factors, locks)
      /\ stored' = "helper" /\ helper' = Share(keys + 1, factors, locks) /\ keys' = keys + 1
      /\ retired' = IF force[a] THEN retired \cup HelperKey ELSE retired
      /\ synced' = {a} /\ session' = [session EXCEPT ![a] = new]
      /\ snap' = [snap EXCEPT ![a] = NoSnap] /\ holder' = NoApp
      /\ UNCHANGED <<secret, secrets, world, force>>
  BY DEF EnrollHelper, Goto
<1>2. locks \subseteq CurrentNames /\ "slstore" \in locks
  BY RequestedLocks
<1>3. DOMAIN factors \subseteq CurrentNames
  BY ProjectSlots DEF SlotNames, Current, Legacy
<1>4. "slstore" \in DOMAIN factors /\ factors["slstore"] = [r \in {"slstore"} |-> snap[a]["slstore"]]
  BY <1>1, <1>2, ProjectSlots DEF CanShare
<1>5. WellShared(helper')
  BY <1>1, <1>2, <1>3, SharedIsGood
<1>6. /\ helper'.key = keys + 1 /\ helper'.slots = factors /\ helper'.mandatory = locks
  BY <1>1 DEF Share
<1>7. /\ new.key = keys + 1 /\ new.factors = factors /\ new.mandatory = locks
      /\ new.pending \in BOOLEAN
  OBVIOUS
<1>8. MapMandatory(locks) = locks
  BY <1>2, CurrentNamesStay DEF MapMandatory
<1> HIDE DEF factors, locks, new
<1>9. /\ keys < MaxKeys /\ keys \in Nat /\ retired \subseteq 1 .. keys /\ claim \in 0 .. keys
      /\ HelperKey \subseteq 1 .. keys
  BY <1>1 DEF IdentityInv, TypeOK, MachineOK, KeysSpare, HelperKey
<1>10. MachineOK'
  <2>1. keys' \in 0 .. MaxKeys
    BY <1>1, <1>9, IdentityAssumption
  <2>2. helper'.key \in 1 .. keys' /\ retired' \subseteq 1 .. keys' /\ claim' \in 0 .. keys'
    BY <1>1, <1>6, <1>9 DEF world
  <2> QED
    BY <1>1, <2>1, <2>2 DEF IdentityInv, TypeOK, MachineOK, world
<1>11. AppsOK'
  BY <1>1 DEF IdentityInv, TypeOK, AppsOK, Labels
<1>12. \A b \in Apps : b # a => pc'[b] = pc[b] /\ snap'[b] = snap[b] /\ session'[b] = session[b]
                              /\ pc[b] \notin Locked
  BY <1>1 DEF IdentityInv, TypeOK, AppsOK, LockHeld, Locked
<1>13. pc'[a] = "ready" /\ session'[a] = new
  BY <1>1 DEF IdentityInv, TypeOK, AppsOK
<1>14. DataOK'
  <2>1. IsSession(session[a])'
    BY <1>1, <1>2, <1>3, <1>7, <1>9, <1>13 DEF IsSession, IsFactors
  <2>2. \A b \in Apps : b # a /\ pc'[b] \in Prepared => IsSession(session[b])'
    BY <1>1, <1>9, <1>12 DEF IdentityInv, TypeOK, DataOK, IsSession
  <2>3. \A b \in Apps : pc'[b] \in Collected => snap'[b] \in [RawNames -> Int]
    BY <1>12, <1>13 DEF IdentityInv, TypeOK, DataOK, Collected
  <2> QED
    BY <2>1, <2>2, <2>3 DEF DataOK
<1>15. LockHeld'
  BY <1>1, <1>12, <1>13, IdentityAssumption DEF LockHeld, Locked
<1>16. KeysSpare' /\ EnrollsAlone'
  BY <1>12, <1>13 DEF KeysSpare, EnrollsAlone, Locked
<1>17. Enrolled' /\ HelperGood' /\ HelperKey' = {keys + 1}
  BY <1>1, <1>5, <1>6 DEF HelperGood, Enrolled, HelperKey
<1>18. HelperKey \cup retired \subseteq retired'
  BY <1>1 DEF IdentityInv, EnrollsAlone, HelperKey, Enrolled
<1>19. RetiredStaysRetired'
  BY <1>1, <1>9, <1>17 DEF RetiredStaysRetired
<1>20. SyncedAgree'
  BY <1>1, <1>4, <1>6, <1>7, <1>8, <1>13, <1>17 DEF SyncedAgree, Prepared
<1>21. SecretKept'
  <2>1. \A b \in Apps : pc'[b] # "enrolling"
    BY <1>12, <1>13 DEF Locked
  <2>2. helper'.slots["slstore"]["slstore"] = snap[a]["slstore"]
    BY <1>4, <1>6
  <2> QED
    BY <1>1, <2>1, <2>2 DEF IdentityInv, SecretKept, world
<1>22. OneIdentity'
  <2>1. session'[a].key \in HelperKey'
    BY <1>7, <1>13, <1>17
  <2>2. \A b \in Apps : b # a /\ pc'[b] \in Prepared => session'[b].key \in retired'
    BY <1>12, <1>18 DEF IdentityInv, OneIdentity
  <2>3. claim' # 0 => claim' \in retired'
    BY <1>1, <1>18 DEF IdentityInv, OneIdentity, world
  <2> QED
    BY <2>1, <2>2, <2>3 DEF OneIdentity
<1> QED
  BY <1>10, <1>11, <1>14, <1>15, <1>16, <1>17, <1>19, <1>20, <1>21, <1>22 DEF IdentityInv, TypeOK

\* After a recovery the locks of a session are those of the helper and the program's own.
LEMMA RecoveredLocks ==
  ASSUME NEW a \in Apps, Enrolled, WellShared(helper), Recovers(helper, Seen(a))
  PROVE  /\ SessionLocks(a) \subseteq CurrentNames /\ "slstore" \in SessionLocks(a)
         /\ "slstore" \in DOMAIN Now(a)
         /\ Now(a)["slstore"] = helper.slots["slstore"]
<1>1. /\ helper.mandatory \subseteq Slots(helper) /\ "slstore" \in helper.mandatory
      /\ Slots(helper) \subseteq SlotNames(helper.norm)
  BY DEF WellShared, Parses, Slots
<1>2. SlotNames(helper.norm) \subseteq CurrentNames \cup RawNames
  BY DEF SlotNames, RawNames
<1>3. MapMandatory(helper.mandatory) \subseteq CurrentNames
  BY <1>1, <1>2, CurrentNameIsCurrent DEF MapMandatory
<1>4. /\ MissingLocks(helper, Seen(a)) = {}
      /\ helper.mandatory \cap DOMAIN Seen(a) \subseteq Live(helper, Seen(a))
  BY DEF Recovers, Sweep, Sweeps
<1>5. "slstore" \in DOMAIN Seen(a) /\ Seen(a)["slstore"] = helper.slots["slstore"]
  BY <1>1, <1>4 DEF MissingLocks, Live, Present
<1>6. WithSecret(snap[a])["slstore"] # Missing
  BY <1>5, ProjectSlots DEF Seen
<1>7. "slstore" \in DOMAIN Now(a)
  BY <1>6, ProjectSlots DEF Now
<1>8. Now(a)["slstore"] = [r \in {"slstore"} |-> WithSecret(snap[a])["slstore"]]
  BY <1>7, ProjectSlots DEF Now
<1>9. Seen(a)["slstore"] = [r \in {"slstore"} |-> WithSecret(snap[a])["slstore"]]
  <2>1. "slstore" \in DOMAIN Project(WithSecret(snap[a]), helper.norm)
    BY <1>5 DEF Seen
  <2>2. Project(WithSecret(snap[a]), helper.norm)["slstore"]
          = [r \in {"slstore"} |-> WithSecret(snap[a])["slstore"]]
    BY <2>1, ProjectSlots
  <2> QED
    BY <2>2 DEF Seen
<1>10. Now(a)["slstore"] = helper.slots["slstore"]
  BY <1>5, <1>8, <1>9
<1> QED
  BY <1>3, <1>7, <1>10, RequestedLocks DEF SessionLocks

\* A recovered session agrees with the helper it came from.
LEMMA RecoverSessionInv ==
  ASSUME IdentityInv, NEW a \in Apps, RecoverSession(a)
  PROVE  IdentityInv'
<1> DEFINE refresh == Dead(helper, Seen(a)) # {} \/ Added(a) # {} \/ NewSlot(a)
           new == [key |-> helper.key, factors |-> Now(a), mandatory |-> SessionLocks(a),
                   pending |-> refresh]
<1>1. /\ pc[a] = "preparing" /\ pc' = [pc EXCEPT ![a] = "ready"]
      /\ Enrolled /\ Recovers(helper, Seen(a))
      /\ session' = [session EXCEPT ![a] = new] /\ synced' = synced \cup {a}
      /\ snap' = [snap EXCEPT ![a] = NoSnap] /\ holder' = NoApp
      /\ UNCHANGED <<secret, stored, helper, keys, secrets, retired, world, force>>
  BY DEF RecoverSession, Goto, Recoverable
<1>2. WellShared(helper) /\ helper.key \in 1 .. keys
  BY <1>1 DEF IdentityInv, HelperGood, TypeOK, MachineOK
<1>3. /\ SessionLocks(a) \subseteq CurrentNames /\ "slstore" \in SessionLocks(a)
      /\ "slstore" \in DOMAIN Now(a)
      /\ Now(a)["slstore"] = helper.slots["slstore"]
  BY <1>1, <1>2, RecoveredLocks
<1>4. DOMAIN Now(a) \subseteq CurrentNames
  BY ProjectSlots DEF Now, SlotNames, Current, Legacy
<1>5. refresh \in BOOLEAN
  BY DEF NewSlot
<1> HIDE DEF refresh
<1>6. /\ new.key = helper.key /\ new.factors = Now(a) /\ new.mandatory = SessionLocks(a)
      /\ new.pending \in BOOLEAN
  BY <1>5
<1>7. MapMandatory(helper.mandatory) \subseteq new.mandatory
  BY <1>6 DEF SessionLocks
<1> HIDE DEF new
<1>8. IsSession(new)
  BY <1>2, <1>3, <1>4, <1>6 DEF IsSession, IsFactors
<1>9. MachineOK'
  BY <1>1 DEF IdentityInv, TypeOK, MachineOK, Enrolled, world
<1>10. AppsOK'
  BY <1>1 DEF IdentityInv, TypeOK, AppsOK, Labels
<1>11. \A b \in Apps : b # a => pc'[b] = pc[b] /\ snap'[b] = snap[b] /\ session'[b] = session[b]
                              /\ pc[b] \notin Locked
  BY <1>1 DEF IdentityInv, TypeOK, AppsOK, LockHeld, Locked
<1>12. pc'[a] = "ready" /\ session'[a] = new
  BY <1>1 DEF IdentityInv, TypeOK, AppsOK
<1>13. DataOK'
  BY <1>1, <1>8, <1>11, <1>12 DEF IdentityInv, TypeOK, DataOK, IsSession, Collected
<1>14. LockHeld'
  BY <1>1, <1>11, <1>12, IdentityAssumption DEF LockHeld, Locked
<1>15. KeysSpare' /\ EnrollsAlone'
  BY <1>11, <1>12 DEF KeysSpare, EnrollsAlone, Locked
<1>16. HelperGood' /\ RetiredStaysRetired'
  BY <1>1 DEF IdentityInv, HelperGood, RetiredStaysRetired, HelperKey, Enrolled
<1>17. SyncedAgree'
  <2>1. \A b \in synced : b # a => b \in synced /\ pc'[b] = pc[b] /\ session'[b] = session[b]
    BY <1>11 DEF IdentityInv, TypeOK, AppsOK
  <2>2. Enrolled'
    BY <1>1 DEF Enrolled
  <2>3. /\ pc'[a] \in Prepared /\ session'[a].key = helper.key
        /\ MapMandatory(helper.mandatory) \subseteq session'[a].mandatory
        /\ "slstore" \in DOMAIN session'[a].factors
        /\ session'[a].factors["slstore"] = helper.slots["slstore"]
    BY <1>3, <1>6, <1>7, <1>12 DEF Prepared
  <2>4. synced' = synced \cup {a} /\ helper' = helper
    BY <1>1
  <2> QED
    BY <2>1, <2>2, <2>3, <2>4 DEF IdentityInv, SyncedAgree
<1>18. SecretKept'
  BY <1>1, <1>11, <1>12 DEF IdentityInv, SecretKept, Enrolled, world
<1>19. OneIdentity'
  BY <1>1, <1>6, <1>11, <1>12 DEF IdentityInv, OneIdentity, HelperKey, Enrolled, world
<1> QED
  BY <1>9, <1>10, <1>13, <1>14, <1>15, <1>16, <1>17, <1>18, <1>19 DEF IdentityInv, TypeOK

\* A commit writes what its session agreed with the helper on, or nothing.
LEMMA CommitWrites ==
  ASSUME IdentityInv, NEW a \in Apps, Commit(a), a \in synced,
         CanShare(session[a].factors, session[a].mandatory),
         helper' = Share(session[a].key, session[a].factors, session[a].mandatory)
  PROVE  /\ Enrolled /\ WellShared(helper') /\ helper'.key = helper.key
         /\ MapMandatory(helper.mandatory) \subseteq helper'.mandatory
         /\ helper'.slots["slstore"] = helper.slots["slstore"]
<1>1. pc[a] = "committing" /\ IsSession(session[a])
  BY DEF Commit, IdentityInv, TypeOK, DataOK, Prepared
<1>2. WellShared(helper')
  BY <1>1, SharedIsGood DEF IsSession, IsFactors
<1>3. /\ helper'.key = session[a].key /\ helper'.slots = session[a].factors
      /\ helper'.mandatory = session[a].mandatory
  BY DEF Share
<1> QED
  BY <1>2, <1>3 DEF IdentityInv, SyncedAgree

\* What a synced session writes has the helper's key, its locks and its secret.
LEMMA CommitInv ==
  ASSUME IdentityInv, NEW a \in Apps, Commit(a)
  PROVE  IdentityInv'
<1>1. /\ pc[a] = "committing" /\ pc' = [pc EXCEPT ![a] = "spent"] /\ holder' = NoApp
      /\ synced' \subseteq synced \ {a}
      /\ UNCHANGED <<secret, stored, keys, secrets, retired, world, force, snap, session>>
  BY DEF Commit, Goto
<1>2. CASE helper' = helper
  <2>1. AppsOK'
    BY <1>1 DEF IdentityInv, TypeOK, AppsOK, Labels
  <2>2. LockHeld'
    BY <1>1, IdentityAssumption DEF IdentityInv, TypeOK, AppsOK, LockHeld, Locked
  <2>3. \A b \in Apps : Quiet(b)
    BY <1>1 DEF IdentityInv, TypeOK, AppsOK, DataOK, Quiet, SyncedAgree, KeysSpare, Enrolls,
                Collected, Prepared
  <2> QED
    BY <1>1, <1>2, <2>1, <2>2, <2>3, QuietInv DEF IdentityInv, TypeOK, MachineOK, world
<1>3. CASE /\ a \in synced /\ CanShare(session[a].factors, session[a].mandatory)
           /\ helper' = Share(session[a].key, session[a].factors, session[a].mandatory)
           /\ synced' = {}
  <2>1. /\ Enrolled /\ WellShared(helper') /\ helper'.key = helper.key
        /\ helper'.slots["slstore"] = helper.slots["slstore"]
    BY <1>3, CommitWrites
  <2>2. Enrolled' /\ HelperKey' = HelperKey
    BY <1>1, <2>1 DEF Enrolled, HelperKey
  <2>3. MachineOK'
    BY <1>1, <2>1, <2>2 DEF IdentityInv, TypeOK, MachineOK, world
  <2>4. AppsOK'
    BY <1>1 DEF IdentityInv, TypeOK, AppsOK, Labels
  <2>5. \A b \in Apps : pc'[b] = IF b = a THEN "spent" ELSE pc[b]
    BY <1>1 DEF IdentityInv, TypeOK, AppsOK
  <2>6. DataOK'
    BY <1>1, <2>5 DEF IdentityInv, TypeOK, DataOK, IsSession, Collected, Prepared
  <2>7. LockHeld'
    BY <1>1, <2>5, IdentityAssumption DEF IdentityInv, LockHeld, Locked
  <2>8. KeysSpare' /\ EnrollsAlone'
    BY <1>1, <2>5 DEF IdentityInv, KeysSpare, EnrollsAlone, Enrolls
  <2>9. HelperGood' /\ RetiredStaysRetired' /\ SyncedAgree'
    BY <1>1, <1>3, <2>1, <2>2 DEF IdentityInv, HelperGood, RetiredStaysRetired, SyncedAgree
  <2>10. SecretKept'
    BY <1>1, <2>1, <2>5 DEF IdentityInv, SecretKept, world
  <2>11. OneIdentity'
    BY <1>1, <2>2, <2>5 DEF IdentityInv, OneIdentity, Prepared, world
  <2> QED
    BY <2>3, <2>4, <2>6, <2>7, <2>8, <2>9, <2>10, <2>11 DEF IdentityInv, TypeOK
<1> QED
  BY <1>2, <1>3 DEF Commit

\* A lost helper retires its key and leaves no session synced.
LEMMA TamperInv == IdentityInv /\ Tamper => IdentityInv'
<1> SUFFICES ASSUME IdentityInv, Tamper PROVE IdentityInv'
  OBVIOUS
<1>1. /\ tampers < MaxTamper /\ tampers' = tampers + 1
      /\ UNCHANGED <<hw, claim, drifts, holder, pc, force, snap, session>>
  BY DEF Tamper
<1>2. tampers' \in 0 .. MaxTamper /\ tampers' # 0
  BY <1>1, IdentityAssumption DEF IdentityInv, TypeOK, MachineOK
<1>3. SecretKept' /\ LockHeld'
  BY <1>1, <1>2 DEF IdentityInv, SecretKept, LockHeld
<1>4. CASE LoseHelper
  <2>1. /\ Enrolled /\ stored' \in {"none", "corrupt"} /\ keys < MaxKeys
        /\ retired' = retired \cup HelperKey /\ synced' = {}
        /\ UNCHANGED <<secret, keys, secrets>>
    BY <1>4 DEF LoseHelper
  <2>2. ~ Enrolled' /\ HelperKey' = {}
    BY <2>1 DEF Enrolled, HelperKey
  <2>3. HelperKey \subseteq 1 .. keys
    BY DEF IdentityInv, TypeOK, MachineOK, HelperKey
  <2>4. MachineOK' /\ AppsOK' /\ DataOK'
    BY <1>1, <1>2, <2>1, <2>2, <2>3 DEF IdentityInv, TypeOK, MachineOK, AppsOK, DataOK, IsSession
  <2>5. KeysSpare'
    BY <1>1, <2>1 DEF IdentityInv, KeysSpare
  <2>6. EnrollsAlone'
    BY <1>1, <2>1 DEF IdentityInv, EnrollsAlone, Enrolled
  <2>7. HelperGood' /\ RetiredStaysRetired' /\ SyncedAgree' /\ OneIdentity'
    BY <1>1, <2>1, <2>2
    DEF IdentityInv, HelperGood, RetiredStaysRetired, SyncedAgree, OneIdentity
  <2> QED
    BY <1>3, <2>4, <2>5, <2>6, <2>7 DEF IdentityInv, TypeOK
<1>5. CASE LoseSecret
  <2>1. /\ secret' \in {Missing, Damaged}
        /\ UNCHANGED <<stored, helper, synced, keys, secrets, retired>>
    BY <1>5 DEF LoseSecret
  <2>2. MachineOK' /\ AppsOK' /\ DataOK'
    BY <1>1, <1>2, <2>1
    DEF IdentityInv, TypeOK, MachineOK, AppsOK, DataOK, IsSession, Enrolled, Missing, Damaged
  <2>3. KeysSpare' /\ EnrollsAlone'
    BY <1>1, <2>1 DEF IdentityInv, KeysSpare, EnrollsAlone, Enrolls
  <2>4. HelperGood' /\ RetiredStaysRetired' /\ SyncedAgree' /\ OneIdentity'
    BY <1>1, <2>1
    DEF IdentityInv, HelperGood, RetiredStaysRetired, SyncedAgree, OneIdentity, Enrolled, HelperKey
  <2> QED
    BY <1>3, <2>2, <2>3, <2>4 DEF IdentityInv, TypeOK
<1> QED
  BY <1>4, <1>5 DEF Tamper

------------------------------------------------------------------------------
\* Every step keeps the invariant.
LEMMA NextIdentityInv == IdentityInv /\ [Next]_vars => IdentityInv'
<1> SUFFICES ASSUME IdentityInv, [Next]_vars PROVE IdentityInv'
  OBVIOUS
<1>1. ASSUME NEW a \in Apps, AppStep(a) PROVE IdentityInv'
  BY <1>1, CollectInv, LockToPrepareInv, EnsureSecretInv, EnrollHelperInv, RecoverSessionInv,
     PrepareRaisesInv, AuthenticateInv, LockToCommitInv, CommitInv, LockBusyInv, ExitInv DEF AppStep
<1> QED
  BY <1>1, ResetClaimInv, DriftInv, TamperInv, StutterInv DEF Next

\* In every reachable state the invariant holds.
THEOREM Invariance == Spec => []IdentityInv
<1>1. Init => IdentityInv
  BY InitIdentityInv
<1>2. IdentityInv /\ [Next]_vars => IdentityInv'
  BY NextIdentityInv
<1> QED
  BY <1>1, <1>2, PTL DEF Spec

\* The variables keep their types: what _store.py and prepare keep on disk and
\* hand on is always of the form that the next reader expects.
THEOREM TypeCorrect == Spec => []TypeOK
<1>1. IdentityInv => TypeOK
  BY DEF IdentityInv
<1> QED
  BY <1>1, Invariance, PTL

\* However many programs prepare, commit, enroll again and die, they and the
\* server know one identity, that on disk or one that was retired: the storage
\* lock of prepare is enough (slhwid/__init__.py:169-170).
THEOREM OneIdentityAlways == Spec => []OneIdentity
<1>1. IdentityInv => OneIdentity
  BY DEF IdentityInv
<1> QED
  BY <1>1, Invariance, PTL

\* The commit of a session whose key was retired meanwhile, by a forced enrollment or
\* a lost helper, does not write it back (slhwid/__init__.py:120-124).
THEOREM RetiredForGood == Spec => []RetiredStaysRetired
<1>1. IdentityInv => RetiredStaysRetired
  BY DEF IdentityInv
<1> QED
  BY <1>1, Invariance, PTL

\* A process may die between the write of the secret and that of the helper, or
\* race another enrollment (slhwid/__init__.py:188-211, 265-275): the two files
\* still belong together.
THEOREM SecretSafety == Spec => []SecretPairs
<1>1. IdentityInv => SecretPairs
  BY DEF IdentityInv, SecretKept, SecretPairs
<1> QED
  BY <1>1, Invariance, PTL

\* The two files are a store of a pair until one is lost: the secret is drawn once,
\* and whatever is enrolled, committed or migrated is bound to it.
THEOREM IdentityImplementsPair == Spec => ImplementsPair
<1> DEFINE disk == IF secret = Damaged THEN Missing ELSE secret
           bound == IF Enrolled THEN helper.slots["slstore"]["slstore"] ELSE Missing
<1>1. Init => Files!Init
  <2> SUFFICES ASSUME Init PROVE Files!Init
    OBVIOUS
  <2>1. IdentityInv /\ tampers = 0 /\ secret \in {0, 1}
    BY InitIdentityInv DEF Init, Missing
  <2>2. disk = secret /\ bound \in {0, secret}
    BY <2>1 DEF IdentityInv, SecretKept, Missing, Damaged
  <2> QED BY <2>1, <2>2 DEF Files!Init, Files!None
<1>2. IdentityInv /\ [Next]_vars => [Files!Next]_Files!vars
  <2> SUFFICES ASSUME IdentityInv, [Next]_vars PROVE Files!Next \/ UNCHANGED Files!vars
    OBVIOUS
  <2>1. IdentityInv'
    BY NextIdentityInv
  <2>2. /\ tampers' = tampers \/ (tampers' = tampers + 1 /\ Tamper)
        /\ tampers \in Nat /\ tampers' \in Nat
    BY <2>1 DEF IdentityInv, TypeOK, MachineOK, Next, AppStep, Collect, LockToPrepare, LockToCommit,
       LockBusy, EnsureSecret, EnrollHelper, RecoverSession, PrepareRaises, Authenticate, ResetClaim,
       Commit, Exit, Drift, Tamper, vars, world
  <2>3. CASE tampers' # 0
    <3>1. Files!Only("files")
      BY DEF Files!Only
    <3> QED BY <2>3, <3>1 DEF Files!Next
  <2>4. CASE tampers' = 0
    <3>1. tampers = 0 /\ ~ Tamper
      BY <2>2, <2>4 DEF Tamper
    <3>2. secret # Damaged /\ secret' # Damaged
          /\ (Enrolled => bound = secret /\ secret # Missing)
          /\ (Enrolled' => bound' = secret' /\ secret' # Missing)
      BY <2>1, <2>4, <3>1 DEF IdentityInv, SecretKept
    <3>3. \/ secret' = secret /\ (Enrolled => Enrolled')
          \/ secret = Missing /\ secret' \in Nat \ {0} /\ (Enrolled' <=> Enrolled)
      <4>1. secrets \in Nat
        BY DEF IdentityInv, TypeOK, MachineOK
      <4> QED BY <3>1, <4>1 DEF Next, AppStep, Collect, LockToPrepare, LockToCommit, LockBusy,
           EnsureSecret, EnrollHelper, RecoverSession, PrepareRaises, Authenticate, ResetClaim,
           Commit, Exit, Drift, vars, world, store, Enrolled, Missing
    <3>4. Files!Only("files")
      BY DEF Files!Only
    <3>5. CASE secret' = secret /\ Enrolled'
      <4>1. Files!BindHelper("files")
        BY <3>2, <3>5 DEF Files!BindHelper, Files!None, Missing
      <4> QED BY <2>4, <3>1, <3>4, <4>1 DEF Files!Next
    <3>6. CASE secret' = secret /\ ~ Enrolled' /\ ~ Enrolled
      BY <2>4, <3>1, <3>6 DEF Files!vars
    <3>7. CASE secret = Missing /\ secret' \in Nat \ {0} /\ (Enrolled' <=> Enrolled)
      <4>1. Files!DrawSecret("files")
        BY <3>2, <3>7 DEF Files!DrawSecret, Files!None, Missing, Damaged
      <4> QED BY <2>4, <3>1, <3>4, <4>1 DEF Files!Next
    <3> QED BY <3>3, <3>5, <3>6, <3>7
  <2> QED BY <2>3, <2>4
<1> QED
  BY <1>1, <1>2, Invariance, PTL DEF Spec, Files!Spec, ImplementsPair

\* Every helper that an enrollment, a commit or a migration writes passes
\* parse_helper (core.py:383-449), for any hard locks and any hardware.
THEOREM HelpersParse == Spec => []HelperParses
<1>1. IdentityInv => HelperParses
  BY DEF IdentityInv, HelperGood, WellShared, HelperParses
<1> QED
  BY <1>1, Invariance, PTL

\* A helper in good order recovers with any two optional slots dead.
LEMMA WellSharedToleratesTwo ==
  ASSUME NEW h, WellShared(h), Cardinality(h.mandatory) + 3 <= Cardinality(Slots(h)),
         NEW x \in Optional(h), NEW y \in Optional(h)
  PROVE  Recovers(h, [s \in Slots(h) \ {x, y} |-> h.slots[s]])
<1> DEFINE f == [s \in Slots(h) \ {x, y} |-> h.slots[s]]
<1>1. /\ Parses(h) /\ Cardinality(Slots(h)) >= Minimum
      /\ Cardinality(h.mandatory) < Cardinality(Slots(h))
      /\ h.t = Threshold(Cardinality(Slots(h)), Cardinality(h.mandatory))
  BY DEF WellShared
<1>2. Cardinality(Slots(h)) \in Nat /\ Cardinality(h.mandatory) \in Nat
      /\ h.mandatory \subseteq Slots(h)
  BY <1>1, HelperCounts
<1>3. h.t \in Nat /\ h.t + 2 <= Cardinality(Slots(h))
  BY <1>1, <1>2, ThresholdBounds
<1>4. Live(h, f) = Slots(h) \ {x, y}
  BY DEF Live, Present
<1>5. h.mandatory \subseteq Live(h, f)
  BY <1>2, <1>4 DEF Optional
<1>6. Dead(h, f) = {x, y}
  BY <1>4 DEF Dead, Optional
<1>7. Cardinality({x, y}) <= 2
  <2>1. {x, y} = {x} \cup {y}
    OBVIOUS
  <2>2. IsFiniteSet({x}) /\ Cardinality({x}) = 1
    BY FS_Singleton
  <2>3. \/ Cardinality({x} \cup {y}) = Cardinality({x})
        \/ Cardinality({x} \cup {y}) = Cardinality({x}) + 1
    BY <2>2, FS_AddElement
  <2> QED
    BY <2>1, <2>2, <2>3
<1> HIDE DEF f
<1>8. Recovers(h, f)
  BY <1>1, <1>3, <1>5, <1>6, <1>7, TwoLossesAreTolerated
<1> QED
  BY <1>8 DEF f

\* Any two factors of a helper on disk that are not hard locks can fail, as
\* long as the hard locks leave three (README.md:124-128, core.py:152-161).
THEOREM TwoMayFail == Spec => []ToleratesTwo
<1>1. IdentityInv => ToleratesTwo
  BY WellSharedToleratesTwo DEF IdentityInv, HelperGood, ToleratesTwo
<1> QED
  BY <1>1, Invariance, PTL

\* A step that re-shares the helper keeps its hard locks.
LEMMA StepKeepsLocks ==
  IdentityInv /\ [Next]_vars =>
    (SameKey /\ helper' # helper => MapMandatory(helper.mandatory) \subseteq helper'.mandatory)
<1> SUFFICES ASSUME IdentityInv, Next, Enrolled, Enrolled', helper'.key = helper.key, helper' # helper
             PROVE  MapMandatory(helper.mandatory) \subseteq helper'.mandatory
  BY DEF SameKey, vars, store
<1>1. ASSUME NEW a \in Apps, EnrollHelper(a) PROVE FALSE
  <2>1. helper'.key = keys + 1
    BY <1>1 DEF EnrollHelper, Share
  <2> QED
    BY <2>1 DEF IdentityInv, TypeOK, MachineOK
<1>2. ASSUME NEW a \in Apps, Commit(a)
      PROVE  MapMandatory(helper.mandatory) \subseteq helper'.mandatory
  BY <1>2, CommitWrites DEF Commit
<1>3. ASSUME Tamper PROVE FALSE
  BY <1>3 DEF Tamper, LoseHelper, LoseSecret, Enrolled
<1>4. ASSUME NEW a \in Apps, AppStep(a)
      PROVE  EnrollHelper(a) \/ Commit(a)
  BY <1>4 DEF AppStep, Collect, LockToPrepare, EnsureSecret, RecoverSession, PrepareRaises,
              Authenticate, LockToCommit, LockBusy, Exit, store
<1> QED
  BY <1>1, <1>2, <1>3, <1>4 DEF Next, ResetClaim, Drift, store

\* A commit may add hard locks to a helper but never drops those that another
\* program enrolled (slhwid/__init__.py:226-229).
THEOREM LocksStay == Spec => LocksNeverWeaken
<1>1. IdentityInv /\ [Next]_vars =>
        [SameKey /\ helper' # helper => MapMandatory(helper.mandatory) \subseteq helper'.mandatory]_vars
  BY StepKeepsLocks
<1> QED
  BY <1>1, Invariance, PTL DEF Spec, LocksNeverWeaken

------------------------------------------------------------------------------
\* The hard locks of a session in step with a helper of the current schema have the
\* values that the helper was enrolled with.
LocksLive ==
  \A a \in synced : helper.norm = Current =>
    \A s \in session[a].mandatory \cap Slots(helper) : session[a].factors[s] = helper.slots[s]

\* A recovery has seen every lock of the session with its enrolled value.
LEMMA RecoveredLocksLive ==
  ASSUME NEW a \in Apps, Enrolled, WellShared(helper), helper.norm = Current, Recoverable(a),
         NEW s \in SessionLocks(a) \cap Slots(helper)
  PROVE  Now(a)[s] = helper.slots[s]
<1>1. /\ helper.mandatory \subseteq Slots(helper) /\ Slots(helper) \subseteq CurrentNames
  BY DEF WellShared, Parses, Slots, SlotNames, Current, Legacy
<1>2. \A names : names \subseteq CurrentNames => MapMandatory(names) = names
  BY CurrentNamesStay DEF MapMandatory
<1>3. MapMandatory(helper.mandatory) = helper.mandatory
  BY <1>1, <1>2
<1>4. Dead(helper, Seen(a)) \subseteq CurrentNames
  BY <1>1 DEF Dead
<1>5. MapMandatory(Dead(helper, Seen(a))) = Dead(helper, Seen(a))
  BY <1>2, <1>4
<1>6. helper.mandatory \subseteq Live(helper, Seen(a))
  BY DEF Recoverable, Recovers, Sweep, Sweeps, MissingLocks
<1>7. s \notin helper.mandatory => s \notin Dead(helper, Seen(a))
  BY <1>3, <1>5 DEF Recoverable, Unavailable, Added, SessionLocks
<1>8. s \in Live(helper, Seen(a))
  BY <1>6, <1>7 DEF Dead
<1>9. Seen(a) = Now(a)
  BY DEF Seen, Now
<1> QED
  BY <1>8, <1>9 DEF Live

\* There are no sessions to begin with.
LEMMA InitLocksLive == Init => LocksLive
  BY DEF Init, LocksLive

\* Every step keeps what synced sessions know of the locks.
LEMMA NextLocksLive == IdentityInv /\ LocksLive /\ [Next]_vars => LocksLive'
<1> SUFFICES ASSUME IdentityInv, LocksLive, [Next]_vars PROVE LocksLive'
  OBVIOUS
<1>1. ASSUME UNCHANGED <<helper, session>>, synced' \subseteq synced PROVE LocksLive'
  BY <1>1 DEF LocksLive
<1>2. ASSUME NEW a \in Apps, EnrollHelper(a) PROVE LocksLive'
  <2>1. /\ synced' = {a} /\ session'[a].factors = Project(snap[a], Current)
        /\ helper'.slots = Project(snap[a], Current)
    BY <1>2 DEF EnrollHelper, Share, IdentityInv, TypeOK, AppsOK
  <2> QED
    BY <2>1 DEF LocksLive
<1>3. ASSUME NEW a \in Apps, RecoverSession(a) PROVE LocksLive'
  <2>1. /\ Recoverable(a) /\ Enrolled /\ helper' = helper /\ synced' = synced \cup {a}
        /\ session'[a].factors = Now(a) /\ session'[a].mandatory = SessionLocks(a)
        /\ \A b \in Apps : b # a => session'[b] = session[b]
    BY <1>3 DEF RecoverSession, Recoverable, IdentityInv, TypeOK, AppsOK
  <2>2. WellShared(helper)
    BY <2>1 DEF IdentityInv, HelperGood
  <2>3. helper.norm = Current => \A s \in SessionLocks(a) \cap Slots(helper) : Now(a)[s] = helper.slots[s]
    BY <2>1, <2>2, RecoveredLocksLive
  <2>4. synced \subseteq Apps
    BY DEF IdentityInv, TypeOK, AppsOK
  <2> QED
    BY <2>1, <2>3, <2>4 DEF LocksLive
<1>4. ASSUME NEW a \in Apps, Commit(a) PROVE LocksLive'
  <2>1. \/ synced' = {}
        \/ UNCHANGED <<helper, session>> /\ synced' \subseteq synced
    BY <1>4 DEF Commit
  <2> QED
    BY <1>1, <2>1 DEF LocksLive
<1>5. ASSUME NEW a \in Apps, Exit(a) PROVE LocksLive'
  <2>1. /\ helper' = helper /\ synced' = synced \ {a} /\ synced \subseteq Apps
        /\ \A b \in Apps : b # a => session'[b] = session[b]
    BY <1>5 DEF Exit, IdentityInv, TypeOK, AppsOK
  <2> QED
    BY <2>1 DEF LocksLive
<1>6. ASSUME Tamper PROVE LocksLive'
  <2>1. synced' = {} \/ UNCHANGED <<helper, session, synced>>
    BY <1>6 DEF Tamper, LoseHelper, LoseSecret
  <2> QED
    BY <2>1 DEF LocksLive
<1>7. ASSUME NEW a \in Apps, AppStep(a) PROVE LocksLive'
  <2>1. CASE Collect(a) \/ LockToPrepare(a) \/ EnsureSecret(a) \/ PrepareRaises(a)
             \/ Authenticate(a) \/ LockToCommit(a) \/ LockBusy(a)
    BY <1>1, <2>1 DEF Collect, LockToPrepare, EnsureSecret, PrepareRaises, Authenticate,
                      LockToCommit, LockBusy, store
  <2> QED
    BY <1>2, <1>3, <1>4, <1>5, <1>7, <2>1 DEF AppStep
<1> QED
  BY <1>1, <1>6, <1>7 DEF Next, ResetClaim, Drift, vars, store

\* A step that re-shares within a schema keeps the values of the locks.
LEMMA StepAbsorbsNothing ==
  IdentityInv /\ LocksLive /\ [Next]_vars =>
    (SameKey /\ helper.norm = helper'.norm =>
       \A s \in helper'.mandatory \cap Slots(helper) : helper'.slots[s] = helper.slots[s])
<1> SUFFICES ASSUME IdentityInv, LocksLive, [Next]_vars, SameKey, helper.norm = helper'.norm,
                    NEW s \in helper'.mandatory \cap Slots(helper)
             PROVE  helper'.slots[s] = helper.slots[s]
  OBVIOUS
<1>1. CASE helper' = helper
  BY <1>1
<1>2. ASSUME helper' # helper PROVE \E a \in Apps : Commit(a)
  <2>1. \A a \in Apps : EnrollHelper(a) => helper'.key = keys + 1
    BY DEF EnrollHelper, Share
  <2>2. \A a \in Apps : ~ EnrollHelper(a)
    BY <2>1 DEF IdentityInv, TypeOK, MachineOK, SameKey
  <2>3. ~ Tamper
    BY <1>2 DEF Tamper, LoseHelper, LoseSecret, SameKey, Enrolled
  <2>4. \A a \in Apps : AppStep(a) => EnrollHelper(a) \/ Commit(a)
    BY <1>2 DEF AppStep, Collect, LockToPrepare, EnsureSecret, RecoverSession, PrepareRaises,
                Authenticate, LockToCommit, LockBusy, Exit, store
  <2> QED
    BY <1>2, <2>2, <2>3, <2>4 DEF Next, ResetClaim, Drift, vars, store
<1>3. ASSUME helper' # helper PROVE helper'.slots[s] = helper.slots[s]
  <2>1. PICK a \in Apps : Commit(a)
    BY <1>2, <1>3
  <2>2. a \in synced /\ helper' = Share(session[a].key, session[a].factors, session[a].mandatory)
    BY <1>3, <2>1 DEF Commit
  <2>3. /\ helper'.norm = Current /\ helper'.slots = session[a].factors
        /\ helper'.mandatory = session[a].mandatory
    BY <2>2 DEF Share
  <2> QED
    BY <2>2, <2>3 DEF LocksLive
<1> QED
  BY <1>1, <1>3

\* Within the current schema a re-share never changes the value that a hard
\* lock binds, one that was just promoted included
\* (slhwid/__init__.py:230-236, core.py:628-643).
THEOREM LocksKeepTheirValues == Spec => LocksAbsorbNothing
<1>1. Spec => []LocksLive
  <2>1. Init => LocksLive
    BY InitLocksLive
  <2>2. IdentityInv /\ LocksLive /\ [Next]_vars => LocksLive'
    BY NextLocksLive
  <2> QED
    BY <2>1, <2>2, Invariance, PTL DEF Spec
<1>2. IdentityInv /\ LocksLive /\ [Next]_vars =>
        [SameKey /\ helper.norm = helper'.norm =>
           \A s \in helper'.mandatory \cap Slots(helper) : helper'.slots[s] = helper.slots[s]]_vars
  BY StepAbsorbsNothing
<1> QED
  BY <1>1, <1>2, Invariance, PTL DEF Spec, LocksAbsorbNothing
------------------------------------------------------------------------------
(* A session that reports no pending refresh agrees with its helper.  To say *)
(* that the slots are equal, they have to be functions.                      *)

IsFunction(f) == f = [x \in DOMAIN f |-> f[x]]

HonestInv ==
  /\ Enrolled => IsFunction(helper.slots)
  /\ \A a \in synced : IsFunction(session[a].factors)
  /\ PendingIsHonest

\* Two projections of the same signals agree on each signal that both have.
LEMMA ProjectionsAgree ==
  ASSUME NEW raw, NEW norm, NEW n \in DOMAIN Project(raw, norm), NEW s \in CurrentNames,
         NEW r \in Members(norm, n) \cap Members(Current, s), Project(raw, norm)[n][r] # Missing
  PROVE  s \in DOMAIN Project(raw, Current) /\ Project(raw, Current)[s][r] = Project(raw, norm)[n][r]
<1>1. Project(raw, norm)[n] = [q \in Members(norm, n) |-> raw[q]]
  BY DEF Project
<1>2. Project(raw, norm)[n][r] = raw[r]
  BY <1>1
<1>3. s \in SlotNames(Current)
  BY DEF SlotNames, Current, Legacy
<1>4. s \in DOMAIN Project(raw, Current)
  BY <1>2, <1>3 DEF Project
<1>5. Project(raw, Current)[s] = [q \in Members(Current, s) |-> raw[q]]
  BY <1>4 DEF Project
<1> QED
  BY <1>2, <1>4, <1>5

\* Nothing dead and nothing added, in either schema: what is locked is what was, and
\* every enrolled signal is as it was enrolled.
LEMMA RecoveredKeepsEnrolled ==
  ASSUME NEW a \in Apps, Dead(helper, Seen(a)) = {}, Added(a) = {}
  PROVE  SessionLocks(a) = MapMandatory(helper.mandatory) /\ KeepsEnrolled(Now(a))
<1>1. \A n \in Slots(helper) : n \in DOMAIN Seen(a) /\ Seen(a)[n] = helper.slots[n]
  BY DEF Dead, Live, Present
<1>2. ASSUME NEW n \in Slots(helper), NEW s \in CurrentNames,
             NEW r \in Members(helper.norm, n) \cap Members(Current, s),
             helper.slots[n][r] # Missing
      PROVE  s \in DOMAIN Now(a) /\ Now(a)[s][r] = helper.slots[n][r]
  <2>1. n \in DOMAIN Seen(a) /\ Seen(a)[n][r] = helper.slots[n][r]
    BY <1>1
  <2> QED
    BY <1>2, <2>1, ProjectionsAgree DEF Seen, Now
<1> QED
  BY <1>2 DEF SessionLocks, Added, KeepsEnrolled

\* Nothing dead, nothing added and nothing new: what was collected is what was shared.
LEMMA RecoveredAsEnrolled ==
  ASSUME NEW a \in Apps, helper.norm = Current, IsFunction(helper.slots), Dead(helper, Seen(a)) = {}, Added(a) = {}, ~ NewSlot(a)
  PROVE  Now(a) = helper.slots
<1>1. Live(helper, Now(a)) = Slots(helper)
  BY DEF Seen, Now, Dead, Live, Present
<1>2. DOMAIN Now(a) = Slots(helper) /\ \A s \in Slots(helper) : Now(a)[s] = helper.slots[s]
  BY <1>1 DEF NewSlot, Live, Present
<1>3. IsFunction(Now(a))
  BY DEF Now, Project, IsFunction
<1> QED
  BY <1>2, <1>3 DEF IsFunction, Slots

\* A legacy machine's slots are a function, and there is no session.
LEMMA InitHonest == Init => HonestInv
<1> SUFFICES ASSUME Init PROVE HonestInv
  OBVIOUS
<1>1. Enrolled => IsFunction(helper.slots)
  <2>1. ASSUME Enrolled PROVE \E locks \in LegacyLocks : helper = LegacyHelper(InitialRaw(1), locks)
    BY <2>1 DEF Init, Enrolled
  <2>2. \A raw : IsFunction(Project(raw, Legacy))
    BY DEF Project, IsFunction
  <2>3. \A locks : LegacyHelper(InitialRaw(1), locks).slots = Project(InitialRaw(1), Legacy)
    BY DEF LegacyHelper
  <2> QED
    BY <2>1, <2>2, <2>3
<1> QED
  BY <1>1 DEF Init, HonestInv, PendingIsHonest

\* Every step keeps synced sessions honest.
LEMMA NextHonest == IdentityInv /\ HonestInv /\ [Next]_vars => HonestInv'
<1> SUFFICES ASSUME IdentityInv, HonestInv, [Next]_vars PROVE HonestInv'
  OBVIOUS
<1> synced \subseteq Apps /\ pc \in [Apps -> Labels]
  BY DEF IdentityInv, TypeOK, AppsOK
<1>1. ASSUME UNCHANGED <<helper, stored, session>>, synced' \subseteq synced,
             \A b \in Apps : pc'[b] = "ready" => pc[b] = "ready"
      PROVE  HonestInv'
  BY <1>1 DEF HonestInv, PendingIsHonest, KeepsEnrolled, Slots, Enrolled
<1>2. ASSUME NEW a \in Apps, EnrollHelper(a) PROVE HonestInv'
  <2>1. /\ synced' = {a}
        /\ session'[a].factors = Project(snap[a], Current)
        /\ session'[a].mandatory = MapMandatory(Requested(a))
        /\ helper'.slots = Project(snap[a], Current)
        /\ helper'.mandatory = MapMandatory(Requested(a))
    BY <1>2 DEF EnrollHelper, Share, IdentityInv, TypeOK, AppsOK
  <2>2. IsFunction(Project(snap[a], Current))
    BY DEF Project, IsFunction
  <2>3. MapMandatory(helper'.mandatory) = helper'.mandatory
    BY <2>1, RequestedLocks, CurrentNamesStay DEF MapMandatory
  <2>4. KeepsEnrolled(session[a].factors)'
    <3>1. helper'.norm = Current
      BY <1>2 DEF EnrollHelper, Share
    <3>2. \A n \in DOMAIN Project(snap[a], Current), s \in CurrentNames :
            \A r \in Members(Current, n) \cap Members(Current, s) :
              Project(snap[a], Current)[n][r] # Missing =>
                /\ s \in DOMAIN Project(snap[a], Current)
                /\ Project(snap[a], Current)[s][r] = Project(snap[a], Current)[n][r]
      BY ProjectionsAgree
    <3> HIDE DEF Current
    <3> QED
      BY <2>1, <3>1, <3>2 DEF KeepsEnrolled, Slots
  <2>5. PendingIsHonest'
    BY <2>1, <2>3, <2>4 DEF PendingIsHonest
  <2> QED
    BY <2>1, <2>2, <2>5 DEF HonestInv
<1>3. ASSUME NEW a \in Apps, RecoverSession(a) PROVE HonestInv'
  <2>1. /\ Recoverable(a) /\ Enrolled /\ UNCHANGED <<helper, stored>> /\ synced' = synced \cup {a}
        /\ session'[a].factors = Now(a) /\ session'[a].mandatory = SessionLocks(a)
        /\ session'[a].pending = (Dead(helper, Seen(a)) # {} \/ Added(a) # {} \/ NewSlot(a))
        /\ \A b \in Apps : b # a => session'[b] = session[b] /\ pc'[b] = pc[b]
    BY <1>3 DEF RecoverSession, Recoverable, IdentityInv, TypeOK, AppsOK, Goto
  <2>2. WellShared(helper) /\ IsFunction(helper.slots)
    BY <2>1 DEF IdentityInv, HelperGood, HonestInv
  <2>3. ~ session'[a].pending => /\ SessionLocks(a) = MapMandatory(helper.mandatory)
                                 /\ KeepsEnrolled(Now(a))
                                 /\ helper.norm = Current => Now(a) = helper.slots
    BY <2>1, <2>2, RecoveredAsEnrolled, RecoveredKeepsEnrolled
  <2>4. IsFunction(Now(a))
    BY DEF Now, Project, IsFunction
  <2>5. (Enrolled => IsFunction(helper.slots))' /\ \A b \in synced' : IsFunction(session'[b].factors)
    BY <2>1, <2>2, <2>4 DEF HonestInv
  <2>6. PendingIsHonest'
    BY <2>1, <2>3 DEF HonestInv, PendingIsHonest, KeepsEnrolled, Slots
  <2> QED
    BY <2>5, <2>6 DEF HonestInv
<1>4. ASSUME NEW a \in Apps, Commit(a) PROVE HonestInv'
  <2>1. CASE UNCHANGED helper /\ synced' = synced \ {a}
    <3>1. \A b \in Apps : pc'[b] = "ready" => pc[b] = "ready"
      BY <1>4 DEF Commit, Goto
    <3> QED
      BY <1>1, <1>4, <2>1, <3>1 DEF Commit
  <2>2. CASE /\ a \in synced /\ synced' = {}
             /\ helper' = Share(session[a].key, session[a].factors, session[a].mandatory)
    <3>1. helper'.slots = session[a].factors
      BY <2>2 DEF Share
    <3> QED
      BY <2>2, <3>1 DEF HonestInv, PendingIsHonest
  <2> QED
    BY <1>4, <2>1, <2>2 DEF Commit
<1>5. ASSUME NEW a \in Apps, Exit(a) PROVE HonestInv'
  <2>1. /\ UNCHANGED <<helper, stored>> /\ synced' = synced \ {a} /\ pc'[a] = "off"
        /\ \A b \in Apps : b # a => session'[b] = session[b] /\ pc'[b] = pc[b]
    BY <1>5 DEF Exit, Goto, IdentityInv, TypeOK, AppsOK
  <2> QED
    BY <2>1 DEF HonestInv, PendingIsHonest, KeepsEnrolled, Slots, Enrolled
<1>6. ASSUME Tamper PROVE HonestInv'
  <2>1. \/ LoseHelper /\ synced' = {} /\ ~ Enrolled'
        \/ UNCHANGED <<helper, stored, synced>>
    BY <1>6 DEF Tamper, LoseHelper, LoseSecret, Enrolled
  <2> QED
    BY <1>1, <1>6, <2>1 DEF HonestInv, PendingIsHonest, Tamper
<1>7. ASSUME NEW a \in Apps, AppStep(a) PROVE HonestInv'
  <2>1. CASE Collect(a) \/ LockToPrepare(a) \/ EnsureSecret(a) \/ PrepareRaises(a)
             \/ Authenticate(a) \/ LockToCommit(a) \/ LockBusy(a)
    <3>1. UNCHANGED <<helper, stored, session, synced>>
      BY <2>1 DEF Collect, LockToPrepare, EnsureSecret, PrepareRaises, Authenticate,
                  LockToCommit, LockBusy, store
    <3>2. \A b \in Apps : pc'[b] = "ready" => pc[b] = "ready"
      BY <2>1 DEF Collect, LockToPrepare, EnsureSecret, PrepareRaises, Authenticate,
                  LockToCommit, LockBusy, Goto
    <3> QED
      BY <1>1, <3>1, <3>2
  <2> QED
    BY <1>2, <1>3, <1>4, <1>5, <1>7, <2>1 DEF AppStep
<1> QED
  BY <1>1, <1>6, <1>7 DEF Next, ResetClaim, Drift, vars, store

\* A session that tells its caller that nothing is pending has the locks of the helper on
\* disk and its enrolled signals with their values, and of a helper of the current schema
\* exactly its factors, for any number of programs and any drift (slhwid/__init__.py:246-253).
THEOREM NothingPendingIsTrue == Spec => []PendingIsHonest
<1>1. HonestInv => PendingIsHonest
  BY DEF HonestInv
<1> QED
  BY <1>1, InitHonest, NextHonest, Invariance, PTL DEF Spec
==============================================================================
