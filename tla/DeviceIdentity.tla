--------------------------- MODULE DeviceIdentity ----------------------------
(****************************************************************************)
(* The device identity that all programs of a machine share: prepare and    *)
(* Session.commit of slhwid/__init__.py over the two files of a DirStore,   *)
(* as Client drives them around an authentication, while the hardware       *)
(* drifts, files get lost, and processes end at any point.                  *)
(*                                                                          *)
(* An app is a program with one Client; after it ends it may start again.   *)
(* The lock is the one StorageLock models, taken here as a lock: one app at *)
(* a time is in a "with _store_lock(...)" block.  A block that is left by   *)
(* an exception, or by the death of the process, leaves on disk whatever it *)
(* had written.  Files are replaced atomically.                             *)
(****************************************************************************)
EXTENDS Recovery

CONSTANTS
  Apps,
  Extra,        \* Options.extra_mandatory of each app
  Installed,    \* raw signals the machine has to begin with
  Drifting,     \* raw signals that may change, vanish or appear
  LegacyLocks,  \* hard locks that a helper of the legacy schema may come with
  MaxKeys,      \* bound: keys enrolled in a behaviour
  MaxDrift,     \* bound: changes of the hardware
  MaxTamper,    \* bound: losses of and damages to files
  NoApp, NoHelper, NoSession, NoSnap

\* What a collector finds to begin with; it does not know slstore.
InitialRaw(slstore) ==
  [r \in RawNames |-> IF r = "slstore" THEN slstore ELSE IF r \in Installed THEN 1 ELSE Missing]

ASSUME IdentityAssumption ==
  /\ Extra \in [Apps -> SUBSET (CurrentNames \cup RawNames)]
  /\ Installed \subseteq RawNames \ {"slstore"}
  /\ Drifting \subseteq RawNames \ {"slstore"}
  /\ \A locks \in LegacyLocks :
       "slstore" \in locks /\ CanShare(Project(InitialRaw(1), Legacy), locks)
  /\ MaxKeys \in Nat \ {0} /\ MaxDrift \in Nat /\ MaxTamper \in Nat
  /\ NoApp \notin Apps

VARIABLES
  hw,        \* the value of each raw signal; collectors do not know slstore
  secret,    \* slstore.bin: Missing, Damaged, or a value
  stored,    \* hwid-device.bin: "none", "corrupt" or "helper"
  helper,    \* what it says, if it is a helper
  holder,    \* the app in a locked block
  pc,        \* where each app is
  force,     \* Options.force_reenroll of its prepare
  snap,      \* what its prepare collected
  session,   \* what prepare returned
  synced,    \* apps whose _expected_helper is the content of the helper file
  claim,     \* the HWID the server has for the user's key, by its key number
  keys,      \* how many keys were drawn
  secrets,   \* how many store secrets were drawn
  retired,   \* history: keys whose helper was replaced by another or lost
  drifts, tampers

store == <<secret, stored, helper, synced, keys, secrets, retired>>
world == <<hw, claim, drifts, tampers>>
vars == <<store, world, holder, pc, force, snap, session>>

Damaged == -1       \* a file of another size or prefix than an slstore has

Labels == {"off", "collected", "preparing", "enrolling", "ready", "accepted",
           "committing", "spent"}
Locked == {"preparing", "enrolling", "committing"}
Collected == {"collected", "preparing", "enrolling"}
Prepared == {"ready", "accepted", "committing", "spent"}

Goto(a, label) == pc' = [pc EXCEPT ![a] = label]

Enrolled == stored = "helper"
HelperKey == IF Enrolled THEN {helper.key} ELSE {}

Requested(a) == {"slstore"} \cup Extra[a]

WithSecret(raw) == [raw EXCEPT !["slstore"] = secret]

------------------------------------------------------------------------------
\* A new machine, or one that an earlier release enrolled.
LegacyHelper(raw, locks) ==
  LET slots == Project(raw, Legacy)
  IN  [norm |-> Legacy, key |-> 1, slots |-> slots, mandatory |-> locks,
       t |-> Threshold(Cardinality(DOMAIN slots), Cardinality(locks))]

Init ==
  /\ hw = InitialRaw(Missing)
  /\ \/ secret = Missing /\ stored = "none" /\ helper = NoHelper
     \/ /\ secret = 1 /\ stored = "helper"
        /\ \E locks \in LegacyLocks : helper = LegacyHelper(InitialRaw(1), locks)
  /\ keys = secret /\ secrets = secret
  /\ holder = NoApp /\ synced = {} /\ claim = 0 /\ retired = {}
  /\ pc = [a \in Apps |-> "off"]
  /\ force = [a \in Apps |-> FALSE]
  /\ snap = [a \in Apps |-> NoSnap]
  /\ session = [a \in Apps |-> NoSession]
  /\ drifts = 0 /\ tampers = 0

\* The hardware is collected before the lock is taken.
Collect(a) ==
  /\ pc[a] = "off"
  /\ Goto(a, "collected")
  /\ force' \in {[force EXCEPT ![a] = f] : f \in BOOLEAN}
  /\ snap' = [snap EXCEPT ![a] = hw]
  /\ UNCHANGED <<store, world, holder, session>>

\* _prepare_locked enrolls when there is no helper or it is told to.
Enrolls(a) == stored = "none" \/ force[a]

\* Mutant of LockToPrepare: prepare does not take the lock.
PrepareUnlocked(a) ==
  /\ pc[a] = "collected"
  /\ Enrolls(a) => keys < MaxKeys
  /\ holder' = a
  /\ Goto(a, "preparing")
  /\ UNCHANGED <<store, world, force, snap, session>>

LockToPrepare(a) ==
  /\ pc[a] = "collected" /\ holder = NoApp
  /\ Enrolls(a) => keys < MaxKeys
  /\ holder' = a
  /\ Goto(a, "preparing")
  /\ UNCHANGED <<store, world, force, snap, session>>

LockToCommit(a) ==
  /\ pc[a] = "accepted" /\ holder = NoApp
  /\ holder' = a
  /\ Goto(a, "committing")
  /\ UNCHANGED <<store, world, force, snap, session>>

\* The lock times out: prepare raises, commit swallows it and gives up its key.
LockBusy(a) ==
  /\ \/ pc[a] = "collected" /\ Goto(a, "off") /\ snap' = [snap EXCEPT ![a] = NoSnap]
     \/ pc[a] = "accepted" /\ Goto(a, "spent") /\ UNCHANGED snap
  /\ UNCHANGED <<store, world, holder, force, session>>

------------------------------------------------------------------------------
(* prepare, enrolling: first the secret, then the helper.                    *)

\* Mutant of EnsureSecret: an enrollment always draws a secret.
RedrawSecret(a) ==
  /\ pc[a] = "preparing" /\ Enrolls(a) /\ secret # Damaged
  /\ secret' = secrets + 1 /\ secrets' = secrets + 1
  /\ snap' = [snap EXCEPT ![a]["slstore"] = secret']
  /\ Goto(a, "enrolling")
  /\ UNCHANGED <<stored, helper, synced, keys, retired, world, holder, force, session>>

EnsureSecret(a) ==
  /\ pc[a] = "preparing" /\ Enrolls(a) /\ secret # Damaged
  /\ IF secret = Missing
     THEN secret' = secrets + 1 /\ secrets' = secrets + 1
     ELSE UNCHANGED <<secret, secrets>>
  /\ snap' = [snap EXCEPT ![a]["slstore"] = secret']
  /\ Goto(a, "enrolling")
  /\ UNCHANGED <<stored, helper, synced, keys, retired, world, holder, force, session>>

EnrollHelper(a) ==
  LET factors == Project(snap[a], Current)
      locks == MapMandatory(Requested(a))
  IN  /\ pc[a] = "enrolling" /\ CanShare(factors, locks)
      /\ stored' = "helper" /\ helper' = Share(keys + 1, factors, locks)
      /\ keys' = keys + 1
      /\ retired' = IF force[a] THEN retired \cup HelperKey ELSE retired
      /\ synced' = {a}
      /\ session' = [session EXCEPT ![a] = [key |-> keys + 1, factors |-> factors,
                                            mandatory |-> locks, pending |-> FALSE]]
      /\ snap' = [snap EXCEPT ![a] = NoSnap]
      /\ Goto(a, "ready")
      /\ holder' = NoApp
      /\ UNCHANGED <<secret, secrets, world, force>>

(* prepare, recovering.                                                      *)

\* The factors as the helper's schema and as the current one see them.
Seen(a) == Project(WithSecret(snap[a]), helper.norm)
Now(a) == Project(WithSecret(snap[a]), Current)

\* Mutant of SessionLocks: the program's own hard locks replace the helper's.
OwnLocks(a) == MapMandatory(Requested(a))

\* The hard locks of the helper stay; this program's own are added.
SessionLocks(a) == MapMandatory(helper.mandatory) \cup MapMandatory(Requested(a))
Added(a) == MapMandatory(Requested(a)) \ MapMandatory(helper.mandatory)

\* Mutant of Unavailable: a promoted slot need only be present.
Absent(a) == {s \in Added(a) : s \notin DOMAIN Now(a)}

\* Added locks of which the factor is not there, or has changed since it was
\* enrolled: promoting its slot must not absorb the change.
Unavailable(a) ==
  {s \in Added(a) : s \notin DOMAIN Now(a) \/ s \in MapMandatory(Dead(helper, Seen(a)))}

Crowded(a) == Added(a) # {} /\ Cardinality(SessionLocks(a)) >= Cardinality(DOMAIN Now(a))

\* Mutant of NewSlot: a factor that appears is no reason to refresh.
IgnoreNewSlot(a) == FALSE

\* A slot of the current schema that the helper was enrolled without.
NewSlot(a) == helper.norm = Current /\ ~ DOMAIN Now(a) \subseteq Slots(helper)

Recoverable(a) ==
  /\ Enrolled /\ secret # Damaged
  /\ Recovers(helper, Seen(a)) /\ Unavailable(a) = {} /\ ~ Crowded(a)

RecoverSession(a) ==
  /\ pc[a] = "preparing" /\ ~ Enrolls(a) /\ Recoverable(a)
  /\ session' = [session EXCEPT ![a] =
       [key |-> helper.key, factors |-> Now(a), mandatory |-> SessionLocks(a),
        pending |-> Dead(helper, Seen(a)) # {} \/ Added(a) # {} \/ NewSlot(a)]]
  /\ synced' = synced \cup {a}
  /\ snap' = [snap EXCEPT ![a] = NoSnap]
  /\ Goto(a, "ready")
  /\ holder' = NoApp
  /\ UNCHANGED <<secret, stored, helper, keys, secrets, retired, world, force>>

\* Any of the errors that prepare raises.
PrepareRaises(a) ==
  /\ \/ pc[a] = "preparing" /\ Enrolls(a) /\ secret = Damaged
     \/ pc[a] = "preparing" /\ ~ Enrolls(a) /\ ~ Recoverable(a)
     \/ pc[a] = "enrolling" /\ ~ CanShare(Project(snap[a], Current), MapMandatory(Requested(a)))
  /\ snap' = [snap EXCEPT ![a] = NoSnap]
  /\ Goto(a, "off")
  /\ holder' = NoApp
  /\ UNCHANGED <<store, world, force, session>>

------------------------------------------------------------------------------
\* The server accepts the HWID it has for the key, or takes the first it sees.
\* The answer may be lost.  A session that has committed may authenticate again.
Authenticate(a) ==
  /\ pc[a] \in {"ready", "spent"} /\ claim \in {0, session[a].key}
  /\ claim' = session[a].key
  /\ \/ pc[a] = "ready" /\ Goto(a, "accepted")
     \/ UNCHANGED pc
  /\ UNCHANGED <<store, hw, drifts, tampers, holder, force, snap, session>>

\* A reset of the key's HWID, by its user or through the management API.
ResetClaim ==
  /\ claim # 0 /\ claim' = 0
  /\ UNCHANGED <<store, hw, drifts, tampers, holder, pc, force, snap, session>>

\* Mutant of Commit: the helper is not compared with the one prepare read.
CommitBlindly(a) ==
  /\ pc[a] = "committing"
  /\ \/ /\ CanShare(session[a].factors, session[a].mandatory)
        /\ helper' = Share(session[a].key, session[a].factors, session[a].mandatory)
        /\ synced' = {}
     \/ UNCHANGED helper /\ synced' = synced \ {a}
  /\ Goto(a, "spent")
  /\ holder' = NoApp
  /\ UNCHANGED <<secret, stored, keys, secrets, retired, world, force, snap, session>>

\* Session.commit under the lock: unless the helper is another than the one
\* this session came from, re-share over what prepare collected.  An error is
\* swallowed.
Commit(a) ==
  /\ pc[a] = "committing"
  /\ \/ /\ a \in synced /\ CanShare(session[a].factors, session[a].mandatory)
        /\ helper' = Share(session[a].key, session[a].factors, session[a].mandatory)
        /\ synced' = {}
     \/ UNCHANGED helper /\ synced' = synced \ {a}
  /\ Goto(a, "spent")
  /\ holder' = NoApp
  /\ UNCHANGED <<secret, stored, keys, secrets, retired, world, force, snap, session>>

\* The process ends, or a call of a file operation raises out of prepare.
Exit(a) ==
  /\ pc[a] # "off"
  /\ Goto(a, "off")
  /\ holder' = IF holder = a THEN NoApp ELSE holder
  /\ synced' = synced \ {a}
  /\ snap' = [snap EXCEPT ![a] = NoSnap]
  /\ session' = [session EXCEPT ![a] = NoSession]
  /\ UNCHANGED <<secret, stored, helper, keys, secrets, retired, world, force>>

------------------------------------------------------------------------------
(* The machine.                                                              *)

\* A signal vanishes, appears or changes.
Drift ==
  /\ drifts < MaxDrift /\ drifts' = drifts + 1
  /\ \E r \in Drifting, v \in {Missing, 1, 2} :
       v # hw[r] /\ hw' = [hw EXCEPT ![r] = v]
  /\ UNCHANGED <<store, claim, tampers, holder, pc, force, snap, session>>

\* A file is deleted or damaged.
LoseHelper ==
  /\ Enrolled /\ stored' \in {"none", "corrupt"} /\ helper' = NoHelper
  /\ keys < MaxKeys
  /\ retired' = retired \cup HelperKey
  /\ synced' = {}
  /\ UNCHANGED <<secret, keys, secrets>>

LoseSecret ==
  /\ secret \notin {Missing, Damaged} /\ secret' \in {Missing, Damaged}
  /\ UNCHANGED <<stored, helper, synced, keys, secrets, retired>>

Tamper ==
  /\ tampers < MaxTamper /\ tampers' = tampers + 1
  /\ LoseHelper \/ LoseSecret
  /\ UNCHANGED <<hw, claim, drifts, holder, pc, force, snap, session>>

AppStep(a) ==
  \/ Collect(a) \/ LockToPrepare(a) \/ EnsureSecret(a) \/ EnrollHelper(a)
  \/ RecoverSession(a) \/ PrepareRaises(a) \/ Authenticate(a)
  \/ LockToCommit(a) \/ Commit(a) \/ LockBusy(a) \/ Exit(a)

Next == (\E a \in Apps : AppStep(a)) \/ ResetClaim \/ Drift \/ Tamper

Spec == Init /\ [][Next]_vars

------------------------------------------------------------------------------
IsFactors(f) == DOMAIN f \subseteq CurrentNames

IsSession(s) ==
  /\ s.key \in 1 .. keys /\ IsFactors(s.factors)
  /\ s.mandatory \subseteq CurrentNames /\ "slstore" \in s.mandatory
  /\ s.pending \in BOOLEAN

MachineOK ==
  /\ hw \in [RawNames -> {Missing, 1, 2}]
  /\ secret \in {Missing, Damaged} \cup 1 .. secrets
  /\ stored \in {"none", "corrupt", "helper"}
  /\ Enrolled => helper.key \in 1 .. keys
  /\ retired \subseteq 1 .. keys /\ claim \in 0 .. keys
  /\ keys \in 0 .. MaxKeys /\ secrets \in Nat
  /\ drifts \in 0 .. MaxDrift /\ tampers \in 0 .. MaxTamper

AppsOK ==
  /\ holder \in Apps \cup {NoApp} /\ pc \in [Apps -> Labels] /\ force \in [Apps -> BOOLEAN]
  /\ snap = [a \in Apps |-> snap[a]] /\ session = [a \in Apps |-> session[a]]
  /\ synced \subseteq Apps

DataOK ==
  \A a \in Apps : /\ pc[a] \in Collected => snap[a] \in [RawNames -> Int]
                  /\ pc[a] \in Prepared => IsSession(session[a])

\* Every variable has its type, and a session's key is one that was drawn.
TypeOK == MachineOK /\ AppsOK /\ DataOK

\* However the programs of a machine interleave, end and start again, they and
\* the server know one identity: that of the helper, or one that a forced
\* enrollment or a loss has retired.
OneIdentity ==
  /\ \A a \in Apps : pc[a] \in Prepared => session[a].key \in HelperKey \cup retired
  /\ claim # 0 => claim \in HelperKey \cup retired

\* A key that was retired never comes back: no session that still holds it
\* writes it over the helper that replaced its own.
RetiredStaysRetired == HelperKey \cap retired = {}

\* The secret on disk is the one the helper was enrolled with.
SecretPairs ==
  tampers = 0 /\ Enrolled => helper.slots["slstore"]["slstore"] = secret

\* The two files as a store of a pair.  A damaged secret counts as none.
Files == INSTANCE PairStore WITH
  Stores <- {"files"}, Secrets <- Nat \ {0},
  secret <- [f \in {"files"} |-> IF secret = Damaged THEN Missing ELSE secret],
  bound <- [f \in {"files"} |->
              IF Enrolled THEN helper.slots["slstore"]["slstore"] ELSE Missing],
  broken <- IF tampers = 0 THEN {} ELSE {"files"}

\* The secret is drawn once and never replaced, and every helper is bound to it, so
\* that no crash between the two writes and no race of two enrollments locks the
\* machine out.  Only a loss of a file breaks this.
ImplementsPair == Files!Spec

\* Every helper that gets written passes the checks of parse_helper.
HelperParses == Enrolled => Parses(helper)

\* Any two optional factors of an enrolled helper can fail (README.md:124-128),
\* as long as its hard locks leave that many.
ToleratesTwo ==
  Enrolled /\ Cardinality(helper.mandatory) + 3 <= Cardinality(Slots(helper)) =>
    \A x, y \in Optional(helper) :
      Recovers(helper, [s \in Slots(helper) \ {x, y} |-> helper.slots[s]])

\* Every signal that the helper was enrolled over and the current schema still has is
\* among these factors, with the value it was enrolled with.
KeepsEnrolled(factors) ==
  \A n \in Slots(helper), s \in CurrentNames :
    \A r \in Members(helper.norm, n) \cap Members(Current, s) :
      helper.slots[n][r] # Missing => s \in DOMAIN factors /\ factors[s][r] = helper.slots[n][r]

\* A session that reports no pending refresh would write what the helper says already:
\* no hard lock is added and no enrolled signal differs.  Of a helper of the current
\* schema that is all there is in it; of a legacy one the commit still makes one of the
\* current schema, with the factors that only that one has, and pending_refresh does not
\* tell of these (__init__.py:243).
PendingIsHonest ==
  \A a \in Apps :
    pc[a] = "ready" /\ ~ session[a].pending /\ a \in synced =>
      /\ session[a].mandatory = MapMandatory(helper.mandatory)
      /\ KeepsEnrolled(session[a].factors)
      /\ helper.norm = Current => session[a].factors = helper.slots

SameKey == Enrolled /\ Enrolled' /\ helper'.key = helper.key

\* No program weakens the hard locks that another enrolled the device with.
LocksNeverWeaken ==
  [][SameKey /\ helper' # helper => MapMandatory(helper.mandatory) \subseteq helper'.mandatory]_vars

\* A hard lock holds the value that its slot was enrolled with, whether it was
\* locked from the start or promoted later: a re-share never absorbs a change.
LocksAbsorbNothing ==
  [][SameKey /\ helper.norm = helper'.norm =>
       \A s \in helper'.mandatory \cap Slots(helper) : helper'.slots[s] = helper.slots[s]]_vars

\* The same across the migration from the legacy schema: what was enrolled of a
\* signal that a hard lock of the new helper covers is what is locked.
MigrationAbsorbsNothing ==
  [][SameKey => \A n \in Slots(helper), s \in helper'.mandatory :
       \A r \in Members(helper.norm, n) \cap Members(helper'.norm, s) :
         helper'.slots[s][r] = helper.slots[n][r]]_vars
==============================================================================
