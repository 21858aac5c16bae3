--------------------------- MODULE RegistryStore ----------------------------
(****************************************************************************)
(* The device identity in the Windows registry (RegistryStore, _store.py)   *)
(* as prepare and commit of slhwid/__init__.py use it.  The helper and the  *)
(* secret are two values that may be in HKLM, which all users share, or in  *)
(* the HKCU of a user.  A store pins the hive it chose; a program that may  *)
(* not write HKLM writes HKCU instead.                                      *)
(*                                                                          *)
(* The lock of the store is a file under LOCALAPPDATA: it excludes the      *)
(* programs of one user.  Those of another user read and write HKLM between *)
(* any two accesses, so each access to HKLM is a step here.  The lock, the  *)
(* hardware and the server are left to the modules on them: a recovery      *)
(* succeeds exactly when the helper was enrolled with the secret it finds.  *)
(****************************************************************************)
EXTENDS Integers, FiniteSets

CONSTANTS
  Users,
  Programs,
  UserOf,       \* the user each program runs as
  Elevated,     \* the programs that may write HKLM
  HKLM,         \* the hive of the machine; the HKCU of a user is named by the user
  MaxSecrets,   \* bound: secrets drawn in a behaviour
  MaxWrites,    \* bound: helpers written
  NoRoot, NoProgram

ASSUME RegistryAssumption ==
  /\ UserOf \in [Programs -> Users]
  /\ Elevated \subseteq Programs
  /\ HKLM \notin Users /\ NoRoot \notin Users \cup {HKLM}
  /\ NoProgram \notin Programs
  /\ MaxSecrets \in Nat /\ MaxWrites \in Nat

VARIABLES
  slstore,    \* the secret in each hive, or 0
  hwid,       \* the helper in each hive
  holder,     \* the program of each user in a locked block
  pc,
  force,      \* Options.force_reenroll
  root,       \* _selected_root of the program's store
  peeked,     \* whether _select_root saw a helper in HKLM
  seen,       \* the helper that was read or written, _expected_helper later
  factor,     \* the slstore factor of the session
  drawn, writes,
  breach      \* history: HKLM, if it was written while another user's program was in a
              \* locked block; the HKCU of a user, if a helper went there for want of
              \* the right to write HKLM

hives == <<slstore, hwid, drawn, writes, breach>>
locals == <<force, root, peeked, seen, factor>>
vars == <<hives, holder, pc, locals>>

Hives == Users \cup {HKLM}
HKCU(p) == UserOf[p]

\* A helper and the secret it was enrolled with; the version tells its bytes.
NoHelper == [version |-> 0, secret |-> 0]

Labels == {"off", "peek", "select", "read", "recover", "ensure", "draw", "enroll", "ready",
           "compare", "refresh", "refused", "done"}
Locked == {"peek", "select", "read", "recover", "ensure", "draw", "enroll", "compare", "refresh"}

Goto(p, label) == pc' = [pc EXCEPT ![p] = label]
Unlock(p) == holder' = [holder EXCEPT ![UserOf[p]] = NoProgram]

------------------------------------------------------------------------------
Init ==
  /\ slstore = [h \in Hives |-> 0] /\ hwid = [h \in Hives |-> NoHelper]
  /\ holder = [u \in Users |-> NoProgram]
  /\ pc = [p \in Programs |-> "off"]
  /\ force = [p \in Programs |-> FALSE]
  /\ root = [p \in Programs |-> NoRoot]
  /\ peeked = [p \in Programs |-> FALSE]
  /\ seen = [p \in Programs |-> NoHelper]
  /\ factor = [p \in Programs |-> 0]
  /\ drawn = 0 /\ writes = 0 /\ breach = {}

\* prepare: a new store takes its lock.
Launch(p) ==
  /\ pc[p] = "off" /\ holder[UserOf[p]] = NoProgram
  /\ holder' = [holder EXCEPT ![UserOf[p]] = p]
  /\ force' \in {[force EXCEPT ![p] = f] : f \in BOOLEAN}
  /\ Goto(p, "peek")
  /\ UNCHANGED <<hives, root, peeked, seen, factor>>

\* _select_root reads the four values; the first is the helper in HKLM.
Peek(p) ==
  /\ pc[p] = "peek"
  /\ peeked' = [peeked EXCEPT ![p] = hwid[HKLM] # NoHelper]
  /\ Goto(p, "select")
  /\ UNCHANGED <<hives, holder, force, root, seen, factor>>

First(p, candidates) ==
  CASE HKLM \in candidates -> HKLM
    [] candidates = {HKCU(p)} -> HKCU(p)
    [] OTHER -> NoRoot

HasHelper(p, lmHelper, h) == IF h = HKLM THEN lmHelper ELSE hwid[h] # NoHelper

\* Mutant of Selected: the hive of the machine first, whatever is missing in it.
SelectedMachineFirst(p, lmHelper) ==
  First(p, {h \in {HKLM, HKCU(p)} : HasHelper(p, lmHelper, h) \/ slstore[h] # 0})

\* The hives with both values, or else with one of them.
Selected(p, lmHelper) ==
  LET complete == {h \in {HKLM, HKCU(p)} : HasHelper(p, lmHelper, h) /\ slstore[h] # 0}
      partial == {h \in {HKLM, HKCU(p)} : HasHelper(p, lmHelper, h) \/ slstore[h] # 0}
  IN  First(p, IF complete # {} THEN complete ELSE partial)

Select(p) ==
  /\ pc[p] = "select"
  /\ root' = [root EXCEPT ![p] = Selected(p, peeked[p])]
  /\ Goto(p, "read")
  /\ UNCHANGED <<hives, holder, force, peeked, seen, factor>>

\* read_helper, and _prepare_locked's choice to enroll
ReadHelper(p) ==
  /\ pc[p] = "read"
  /\ seen' = [seen EXCEPT ![p] = IF root[p] = NoRoot THEN NoHelper ELSE hwid[root[p]]]
  /\ Goto(p, IF seen'[p] = NoHelper \/ force[p] THEN "ensure" ELSE "recover")
  /\ UNCHANGED <<hives, holder, force, root, peeked, factor>>

\* read_slstore from the pinned hive, and recovery
Recover(p) ==
  /\ pc[p] = "recover" /\ slstore[root[p]] = seen[p].secret
  /\ factor' = [factor EXCEPT ![p] = slstore[root[p]]]
  /\ Goto(p, "ready") /\ Unlock(p)
  /\ UNCHANGED <<hives, force, root, peeked, seen>>

Refuse(p) ==
  /\ pc[p] = "recover" /\ slstore[root[p]] # seen[p].secret
  /\ Goto(p, "refused") /\ Unlock(p)
  /\ UNCHANGED <<hives, locals>>

\* _select_root without a helper looks for a secret only.
SelectedSecret(p) ==
  IF root[p] # NoRoot THEN root[p] ELSE First(p, {h \in {HKLM, HKCU(p)} : slstore[h] # 0})

\* Mutant of Ensure: enrolling anew draws a new secret.
EnsureFresh(p) ==
  /\ pc[p] = "ensure"
  /\ root' = [root EXCEPT ![p] = SelectedSecret(p)]
  /\ Goto(p, "draw")
  /\ UNCHANGED <<hives, holder, force, peeked, seen, factor>>

\* _ensure_slstore reads ...
Ensure(p) ==
  /\ pc[p] = "ensure"
  /\ root' = [root EXCEPT ![p] = SelectedSecret(p)]
  /\ factor' = [factor EXCEPT ![p] = IF root'[p] = NoRoot THEN 0 ELSE slstore[root'[p]]]
  /\ Goto(p, IF factor'[p] = 0 THEN "draw" ELSE "enroll")
  /\ UNCHANGED <<hives, holder, force, peeked, seen>>

\* Mutant of Target: always the best hive that can be written.
TargetUnpinned(p) == IF p \in Elevated THEN HKLM ELSE HKCU(p)

\* _write_selected: the pinned hive, then HKLM, then HKCU.
Target(p) ==
  IF root[p] \in {HKLM, NoRoot} /\ p \in Elevated THEN HKLM ELSE HKCU(p)

Overlap(p) == Target(p) = HKLM /\ \E u \in Users \ {UserOf[p]} : holder[u] # NoProgram
Split(p) == root[p] = HKLM /\ Target(p) # HKLM

\* Mutant of Draw: the secret is drawn once for the store and once for the factor.
DrawTwice(p) ==
  /\ pc[p] = "draw" /\ drawn < MaxSecrets
  /\ drawn' = drawn + 2
  /\ slstore' = [slstore EXCEPT ![Target(p)] = drawn + 1]
  /\ factor' = [factor EXCEPT ![p] = drawn']
  /\ root' = [root EXCEPT ![p] = Target(p)]
  /\ Goto(p, "enroll")
  /\ UNCHANGED <<hwid, writes, breach, holder, force, peeked, seen>>

\* ... and writes a new secret, if there is none.
Draw(p) ==
  /\ pc[p] = "draw" /\ drawn < MaxSecrets
  /\ drawn' = drawn + 1
  /\ slstore' = [slstore EXCEPT ![Target(p)] = drawn']
  /\ factor' = [factor EXCEPT ![p] = drawn']
  /\ root' = [root EXCEPT ![p] = Target(p)]
  /\ breach' = breach \cup (IF Overlap(p) THEN {HKLM} ELSE {})
  /\ Goto(p, "enroll")
  /\ UNCHANGED <<hwid, writes, holder, force, peeked, seen>>

\* write_helper
WriteHelper(p) ==
  /\ writes < MaxWrites
  /\ writes' = writes + 1
  /\ hwid' = [hwid EXCEPT ![Target(p)] = [version |-> writes', secret |-> factor[p]]]
  /\ seen' = [seen EXCEPT ![p] = hwid'[Target(p)]]
  /\ root' = [root EXCEPT ![p] = Target(p)]
  /\ breach' = breach \cup (IF Overlap(p) \/ Split(p) THEN {Target(p)} ELSE {})
  /\ UNCHANGED <<slstore, drawn>>

Enroll(p) ==
  /\ pc[p] = "enroll"
  /\ WriteHelper(p)
  /\ Goto(p, "ready") /\ Unlock(p)
  /\ UNCHANGED <<force, peeked, factor>>

\* Session.commit, after the server has accepted
StartCommit(p) ==
  /\ pc[p] = "ready" /\ holder[UserOf[p]] = NoProgram
  /\ holder' = [holder EXCEPT ![UserOf[p]] = p]
  /\ Goto(p, "compare")
  /\ UNCHANGED <<hives, locals>>

\* Mutant of Compare: what the helper has become is not looked at.
CompareNothing(p) ==
  /\ pc[p] = "compare"
  /\ Goto(p, "refresh")
  /\ UNCHANGED <<hives, holder, locals>>

Compare(p) ==
  /\ pc[p] = "compare"
  /\ IF hwid[root[p]] = seen[p]
     THEN Goto(p, "refresh") /\ UNCHANGED holder
     ELSE Goto(p, "done") /\ Unlock(p)
  /\ UNCHANGED <<hives, locals>>

Refresh(p) ==
  /\ pc[p] = "refresh"
  /\ WriteHelper(p)
  /\ Goto(p, "done") /\ Unlock(p)
  /\ UNCHANGED <<force, peeked, factor>>

\* The program ends, or an operation of the store raises and it tries again.
Exit(p) ==
  /\ pc[p] # "off"
  /\ Goto(p, "off")
  /\ IF pc[p] \in Locked THEN Unlock(p) ELSE UNCHANGED holder
  /\ force' = [force EXCEPT ![p] = FALSE]
  /\ root' = [root EXCEPT ![p] = NoRoot]
  /\ peeked' = [peeked EXCEPT ![p] = FALSE]
  /\ seen' = [seen EXCEPT ![p] = NoHelper]
  /\ factor' = [factor EXCEPT ![p] = 0]
  /\ UNCHANGED hives

Step(p) ==
  \/ Launch(p) \/ Peek(p) \/ Select(p) \/ ReadHelper(p) \/ Recover(p) \/ Refuse(p)
  \/ Ensure(p) \/ Draw(p) \/ Enroll(p) \/ StartCommit(p) \/ Compare(p) \/ Refresh(p) \/ Exit(p)

Next == \E p \in Programs : Step(p)

Spec == Init /\ [][Next]_vars

------------------------------------------------------------------------------
Helpers == [version : 0..MaxWrites, secret : 0..MaxSecrets]

\* The type invariant of RegistryStore.
TypeOK ==
  /\ slstore \in [Hives -> 0..MaxSecrets]
  /\ hwid \in [Hives -> Helpers]
  /\ holder \in [Users -> Programs \cup {NoProgram}]
  /\ pc \in [Programs -> Labels]
  /\ force \in [Programs -> BOOLEAN]
  /\ root \in [Programs -> Hives \cup {NoRoot}]
  /\ peeked \in [Programs -> BOOLEAN]
  /\ seen \in [Programs -> Helpers]
  /\ factor \in [Programs -> 0..MaxSecrets]
  /\ drawn \in 0..MaxSecrets /\ writes \in 0..MaxWrites
  /\ breach \subseteq Hives

\* The hives as pairs of a secret and the secret that the helper was bound to.  The
\* hive of the machine breaks only when programs of two users overlap, since their
\* locks do not exclude each other; that of a user only by a helper meant for HKLM.
Pairs == INSTANCE PairStore WITH
  Stores <- Hives, Secrets <- 1..MaxSecrets, secret <- slstore, bound <- [h \in Hives |-> hwid[h].secret],
  broken <- breach

\* Each hive is a pair, whatever programs of whatever rights and users do and
\* wherever they end: its secret is never replaced and its helper is bound to it,
\* until it is breached.  (_select_root: "A pair is one generation.")
ImplementsPairs == Pairs!Spec

\* A program is refused for want of the secret that its helper is bound to only
\* after a breach of a hive of its: the pin keeps the helper and the secret of one
\* hive together.
RefusedOnlyWhenBreached ==
  \A p \in Programs : pc[p] = "refused" => breach \cap {HKLM, HKCU(p)} # {}

\* A program that was not told to enrolls only where its user can read no helper,
\* also after a program died between the two writes of its enrollment, unless there
\* was a breach.
EnrollsOnlyWhenNone ==
  \A p \in Programs :
    pc[p] \in {"draw", "enroll"} /\ ~force[p] /\ breach \cap {HKLM, HKCU(p)} = {} =>
      hwid[HKLM] = NoHelper /\ hwid[HKCU(p)] = NoHelper

\* A commit replaces the helper that its session prepared with and no other, in
\* whatever hive it ends up, unless programs of two users overlap or HKLM is denied.
CommitReplacesItsOwn ==
  [][\A p \in Programs :
       Refresh(p) => hwid[Target(p)] = seen[p] \/ Target(p) \in breach']_vars

\* What a program has written is what its user's next program selects, unless the
\* pair of the machine has come up beside a user's own, or there was a breach.
WritesAreReadNext ==
  [][\A p \in Programs :
       Enroll(p) \/ Refresh(p) =>
         \/ breach' # {}
         \/ Selected(p, hwid[HKLM] # NoHelper)' = root'[p]
         \/ hwid[HKLM] # NoHelper /\ root'[p] # HKLM]_vars

\* A helper is in the hive that holds its secret ("Pin a helper and its mandatory
\* secret to one hive").
PairIsOneGeneration ==
  \A h \in Hives : hwid[h] # NoHelper => slstore[h] = hwid[h].secret
==============================================================================
