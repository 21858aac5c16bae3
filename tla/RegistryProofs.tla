--------------------------- MODULE RegistryProofs ---------------------------
(****************************************************************************)
(* Proofs about RegistryStore, for any users, programs and rights.          *)
(*                                                                          *)
(* HiveInv is about the values in the hives, ProgramInv about one program   *)
(* between two accesses.  What a program has read of HKLM stays true while  *)
(* it is in its locked block because a write of another user's program in   *)
(* that time is a breach of HKLM; what it has read of its user's HKCU stays *)
(* true because only programs of the user write there, under the same lock. *)
(****************************************************************************)
EXTENDS RegistryStore, TLAPS

\* A helper has a secret, that of HKLM is never alone, and the helper of a hive
\* that was not breached is bound to the secret in it.
HiveInv ==
  /\ \A h \in Hives : hwid[h] # NoHelper => hwid[h].secret # 0
  /\ hwid[HKLM] # NoHelper => slstore[HKLM] # 0
  /\ \A h \in Hives \ breach : hwid[h] # NoHelper => hwid[h].secret = slstore[h]

Sound(p) == breach \cap {HKLM, HKCU(p)} = {}

LockInv(p) == pc[p] \in Locked <=> holder[UserOf[p]] = p

RootInv(p) ==
  /\ root[p] \in {HKLM, HKCU(p), NoRoot}
  /\ root[p] = HKLM => slstore[HKLM] # 0
  /\ pc[p] \in {"recover", "enroll", "ready", "compare", "refresh"} => root[p] # NoRoot

\* What was read of the helpers.
SelectInv(p) ==
  /\ pc[p] = "select" /\ peeked[p] => hwid[HKLM] # NoHelper
  /\ pc[p] = "select" /\ ~peeked[p] /\ HKLM \notin breach => hwid[HKLM] = NoHelper
  /\ pc[p] = "read" /\ Sound(p) =>
       /\ root[p] = NoRoot => hwid[HKLM] = NoHelper /\ hwid[HKCU(p)] = NoHelper
       /\ root[p] = HKLM => hwid[HKLM] # NoHelper \/ hwid[HKCU(p)] = NoHelper
       /\ root[p] = HKCU(p) => hwid[HKLM] = NoHelper
  /\ pc[p] \in {"ensure", "draw", "enroll"} /\ ~force[p] /\ Sound(p) =>
       hwid[HKLM] = NoHelper /\ hwid[HKCU(p)] = NoHelper

RecoverInv(p) ==
  /\ pc[p] = "recover" => seen[p].secret # 0
  /\ pc[p] = "recover" /\ root[p] \notin breach => seen[p].secret = slstore[root[p]]
  /\ pc[p] = "refused" => ~Sound(p)

FactorInv(p) ==
  /\ pc[p] = "draw" => root[p] # HKLM
  /\ pc[p] = "draw" /\ Target(p) \notin breach => slstore[Target(p)] = 0
  /\ pc[p] \in {"enroll", "ready", "compare", "refresh"} =>
       factor[p] # 0 /\ (root[p] \notin breach => factor[p] = slstore[root[p]])
  /\ pc[p] = "refresh" /\ root[p] \notin breach => hwid[root[p]] = seen[p]

ProgramInv(p) ==
  LockInv(p) /\ RootInv(p) /\ SelectInv(p) /\ RecoverInv(p) /\ FactorInv(p)

RegistryInv == TypeOK /\ HiveInv /\ \A p \in Programs : ProgramInv(p)

------------------------------------------------------------------------------
USE RegistryAssumption DEF Hives, HKCU

LEMMA InitType == Init => TypeOK
  BY DEF Init, TypeOK, Helpers, NoHelper, Labels

LEMMA TargetIsAHive ==
  ASSUME NEW p \in Programs
  PROVE  Target(p) \in {HKLM, HKCU(p)} /\ Target(p) \in Hives
  BY DEF Target

LEMMA FirstIsAHive ==
  ASSUME NEW p \in Programs, NEW candidates
  PROVE  First(p, candidates) \in {HKLM, HKCU(p), NoRoot}
  BY DEF First

LEMMA NextType == TypeOK /\ [Next]_vars => TypeOK'
<1> SUFFICES ASSUME TypeOK, [Next]_vars PROVE TypeOK'
  OBVIOUS
<1>1. CASE UNCHANGED vars
  BY <1>1 DEF vars, hives, locals, TypeOK
<1>2. ASSUME NEW p \in Programs, Step(p) PROVE TypeOK'
  <2> USE DEF Goto, Unlock, hives, locals, Labels
  <2>1. CASE Launch(p) \/ StartCommit(p)
    BY <2>1 DEF Launch, StartCommit, TypeOK
  <2>2. CASE Peek(p)
    BY <2>2 DEF Peek, TypeOK
  <2>3. CASE Select(p)
    BY <2>3, FirstIsAHive DEF Select, Selected, TypeOK
  <2>4. CASE ReadHelper(p)
    <3>1. NoHelper \in Helpers
      BY DEF NoHelper, Helpers
    <3>2. root[p] # NoRoot => hwid[root[p]] \in Helpers
      BY DEF TypeOK
    <3> QED BY <2>4, <3>1, <3>2 DEF ReadHelper, TypeOK
  <2>5. CASE Recover(p)
    <3>1. slstore[root[p]] \in 0..MaxSecrets
      BY <2>5 DEF Recover, TypeOK, Helpers
    <3> QED BY <2>5, <3>1 DEF Recover, TypeOK
  <2>6. CASE Refuse(p)
    BY <2>6 DEF Refuse, TypeOK
  <2>7. CASE Ensure(p)
    <3>1. SelectedSecret(p) \in Hives \cup {NoRoot}
      BY FirstIsAHive DEF SelectedSecret, TypeOK
    <3>2. SelectedSecret(p) # NoRoot => slstore[SelectedSecret(p)] \in 0..MaxSecrets
      BY <3>1 DEF TypeOK
    <3> QED BY <2>7, <3>1, <3>2 DEF Ensure, TypeOK
  <2>8. CASE Draw(p)
    BY <2>8, TargetIsAHive DEF Draw, TypeOK
  <2>9. CASE Enroll(p) \/ Refresh(p)
    <3>1. writes' \in 0..MaxWrites /\ factor[p] \in 0..MaxSecrets
      BY <2>9 DEF Enroll, Refresh, WriteHelper, TypeOK
    <3>2. [version |-> writes', secret |-> factor[p]] \in Helpers
      BY <3>1 DEF Helpers
    <3>3. hwid' \in [Hives -> Helpers] /\ seen' \in [Programs -> Helpers]
      BY <2>9, <3>2, TargetIsAHive DEF Enroll, Refresh, WriteHelper, TypeOK
    <3> QED BY <2>9, <3>1, <3>3, TargetIsAHive DEF Enroll, Refresh, WriteHelper, TypeOK
  <2>10. CASE Compare(p)
    BY <2>10 DEF Compare, TypeOK
  <2>11. CASE Exit(p)
    <3>1. NoHelper \in Helpers
      BY DEF NoHelper, Helpers
    <3> QED BY <2>11, <3>1 DEF Exit, TypeOK
  <2> QED BY <1>2, <2>1, <2>2, <2>3, <2>4, <2>5, <2>6, <2>7, <2>8, <2>9, <2>10, <2>11 DEF Step
<1> QED BY <1>1, <1>2 DEF Next

\* What a step of a program does to the others and to the hives.
LEMMA StepShape ==
  ASSUME RegistryInv, NEW p \in Programs, Step(p)
  PROVE  /\ \A q \in Programs \ {p} :
              /\ pc'[q] = pc[q] /\ force'[q] = force[q] /\ root'[q] = root[q]
              /\ peeked'[q] = peeked[q] /\ seen'[q] = seen[q] /\ factor'[q] = factor[q]
              /\ holder'[UserOf[q]] = q <=> holder[UserOf[q]] = q
         /\ breach \subseteq breach'
         /\ \A h \in Hives :
              slstore'[h] # slstore[h] \/ hwid'[h] # hwid[h] =>
                /\ h = Target(p) /\ holder[UserOf[p]] = p
                /\ Overlap(p) => h \in breach'
  <1> USE DEF Goto, Unlock, hives, locals
  <1>1. pc[p] \in Locked => holder[UserOf[p]] = p
    BY DEF RegistryInv, ProgramInv, LockInv
  <1>2. ASSUME NEW q \in Programs \ {p}, UserOf[q] = UserOf[p]
        PROVE  (pc[p] \in Locked => holder[UserOf[q]] # q)
               /\ (holder[UserOf[p]] = NoProgram => holder[UserOf[q]] # q)
    BY <1>1, <1>2 
  <1>3. TypeOK
    BY DEF RegistryInv
  <1>4. CASE Launch(p) \/ StartCommit(p)
    BY <1>2, <1>3, <1>4 DEF Launch, StartCommit, TypeOK
  <1>5. CASE Peek(p) \/ Select(p) \/ ReadHelper(p) \/ Ensure(p)
    BY <1>3, <1>5 DEF Peek, Select, ReadHelper, Ensure, TypeOK
  <1>6. CASE Recover(p) \/ Refuse(p)
    BY <1>2, <1>3, <1>6 DEF Recover, Refuse, TypeOK, Locked
  <1>7. CASE Compare(p)
    BY <1>2, <1>3, <1>7 DEF Compare, TypeOK, Locked
  <1>8. CASE Draw(p)
    BY <1>1, <1>3, <1>8 DEF Draw, TypeOK, Locked, Overlap
  <1>9. CASE Enroll(p) \/ Refresh(p)
    BY <1>1, <1>2, <1>3, <1>9 DEF Enroll, Refresh, WriteHelper, TypeOK, Locked
  <1>10. CASE Exit(p)
    BY <1>2, <1>3, <1>10 DEF Exit, TypeOK
  <1> QED BY <1>4, <1>5, <1>6, <1>7, <1>8, <1>9, <1>10 DEF Step

\* Only a draw changes secrets, and only those that are missing or in a breached hive.
LEMMA SecretsStay ==
  ASSUME RegistryInv, NEW p \in Programs, Step(p), NEW h \in Hives
  PROVE  /\ slstore[h] # 0 => slstore'[h] # 0
         /\ slstore[h] # 0 /\ h \notin breach' => slstore'[h] = slstore[h]
         /\ hwid[h] # NoHelper => hwid'[h] # NoHelper
         /\ hwid'[h] # hwid[h] => hwid'[h].secret # 0
  <1> USE DEF Goto, Unlock, hives, locals
  <1>1. TypeOK
    BY DEF RegistryInv
  <1>2. CASE UNCHANGED hives
    BY <1>2
  <1>3. CASE Draw(p)
    <2>1. drawn' # 0
      BY <1>1, <1>3 DEF Draw, TypeOK
    <2>2. Target(p) \notin breach => slstore[Target(p)] = 0
      BY <1>3 DEF Draw, RegistryInv, ProgramInv, FactorInv
    <2> QED BY <1>1, <1>3, <2>1, <2>2 DEF Draw, TypeOK
  <1>4. CASE Enroll(p) \/ Refresh(p)
    <2>1. factor[p] # 0
      BY <1>4 DEF Enroll, Refresh, RegistryInv, ProgramInv, FactorInv
    <2>2. hwid' = [hwid EXCEPT ![Target(p)] = [version |-> writes', secret |-> factor[p]]]
          /\ slstore' = slstore
      BY <1>4 DEF Enroll, Refresh, WriteHelper
    <2>3. [version |-> writes', secret |-> factor[p]] # NoHelper
      BY <2>1 DEF NoHelper
    <2> QED BY <1>1, <2>1, <2>2, <2>3 DEF TypeOK
  <1> QED BY <1>2, <1>3, <1>4
       DEF Step, Launch, Peek, Select, ReadHelper, Recover, Refuse, Ensure, StartCommit, Compare, Exit

\* What a program in its locked block has read of its two hives stays true, or the
\* hive is breached.
LEMMA ReadsStay ==
  ASSUME RegistryInv, NEW p \in Programs, Step(p), NEW q \in Programs \ {p},
         pc[q] \in Locked, NEW h \in {HKLM, HKCU(q)}, h \notin breach'
  PROVE  slstore'[h] = slstore[h] /\ hwid'[h] = hwid[h]
  <1> SUFFICES ASSUME slstore'[h] # slstore[h] \/ hwid'[h] # hwid[h] PROVE FALSE
    OBVIOUS
  <1>1. h = Target(p) /\ holder[UserOf[p]] = p /\ ~Overlap(p)
    BY StepShape
  <1>2. holder[UserOf[q]] = q
    BY DEF RegistryInv, ProgramInv, LockInv
  <1>3. UserOf[q] # UserOf[p] /\ UserOf[q] \in Users /\ UserOf[p] \in Users
    BY <1>1, <1>2
  <1>4. h = HKLM
    BY <1>1, <1>3, TargetIsAHive
  <1> QED BY <1>1, <1>2, <1>3, <1>4 DEF Overlap

LEMMA OthersKeep ==
  ASSUME RegistryInv, NEW p \in Programs, Step(p), NEW q \in Programs \ {p}
  PROVE  ProgramInv(q)'
  <1> USE StepShape
  <1>1. ProgramInv(q)
    BY DEF RegistryInv
  <1>2. /\ pc'[q] = pc[q] /\ force'[q] = force[q] /\ root'[q] = root[q]
        /\ peeked'[q] = peeked[q] /\ seen'[q] = seen[q] /\ factor'[q] = factor[q]
        /\ holder'[UserOf[q]] = q <=> holder[UserOf[q]] = q
        /\ breach \subseteq breach'
    OBVIOUS
  <1>3. \A h \in {HKLM, HKCU(q)} : pc[q] \in Locked /\ h \notin breach' =>
          slstore'[h] = slstore[h] /\ hwid'[h] = hwid[h]
    BY ReadsStay
  <1>4. \A h \in Hives :
          /\ slstore[h] # 0 => slstore'[h] # 0
          /\ slstore[h] # 0 /\ h \notin breach' => slstore'[h] = slstore[h]
          /\ hwid[h] # NoHelper => hwid'[h] # NoHelper
    BY SecretsStay
  <1>5. LockInv(q)'
    BY <1>1, <1>2 DEF ProgramInv, LockInv
  <1>6. RootInv(q)'
    BY <1>1, <1>2, <1>4 DEF ProgramInv, RootInv
  <1>7. SelectInv(q)'
    <2>1. CASE pc[q] = "select"
      BY <1>1, <1>2, <1>3, <1>4, <2>1 DEF ProgramInv, SelectInv, Locked
    <2>2. CASE pc[q] = "read"
      BY <1>1, <1>2, <1>3, <1>4, <2>2 DEF ProgramInv, SelectInv, Locked, Sound
    <2>3. CASE pc[q] \in {"ensure", "draw", "enroll"}
      BY <1>1, <1>2, <1>3, <1>4, <2>3 DEF ProgramInv, SelectInv, Locked, Sound
    <2> QED BY <1>2, <2>1, <2>2, <2>3 DEF SelectInv
  <1>8. RecoverInv(q)'
    BY <1>1, <1>2, <1>3 DEF ProgramInv, RecoverInv, RootInv, Locked, Sound
  <1>9. FactorInv(q)'
    <2>1. Target(q)' = Target(q)
      BY <1>2 DEF Target
    <2>2. root[q] \in {HKLM, HKCU(q), NoRoot}
      BY <1>1 DEF ProgramInv, RootInv
    <2>3. CASE pc[q] = "draw"
      BY <1>1, <1>2, <1>3, <2>1, <2>3, TargetIsAHive DEF ProgramInv, FactorInv, Locked
    <2>4. CASE pc[q] \in {"enroll", "ready", "compare", "refresh"}
      <3>1. root[q] \in {HKLM, HKCU(q)} /\ root[q] \in Hives
        BY <1>1, <2>2, <2>4 DEF ProgramInv, RootInv
      <3> QED BY <1>1, <1>2, <1>3, <1>4, <2>4, <3>1 DEF ProgramInv, FactorInv, Locked
    <2> QED BY <1>2, <2>3, <2>4 DEF FactorInv
  <1> QED BY <1>5, <1>6, <1>7, <1>8, <1>9 DEF ProgramInv

LEMMA HivesKeep ==
  ASSUME RegistryInv, NEW p \in Programs, Step(p)
  PROVE  HiveInv'
  <1> USE DEF Goto, Unlock, hives, locals
  <1>1. TypeOK /\ HiveInv /\ ProgramInv(p)
    BY DEF RegistryInv
  <1>2. CASE UNCHANGED hives
    BY <1>1, <1>2 DEF HiveInv
  <1>3. CASE Draw(p)
    BY <1>1, <1>3, SecretsStay, StepShape DEF Draw, HiveInv, TypeOK
  <1>4. CASE Enroll(p) \/ Refresh(p)
    <2>1. factor[p] # 0 /\ root[p] # NoRoot /\ root[p] \in {HKLM, HKCU(p)}
          /\ (root[p] \notin breach => factor[p] = slstore[root[p]])
          /\ (root[p] = HKLM => slstore[HKLM] # 0)
      BY <1>1, <1>4 DEF Enroll, Refresh, ProgramInv, FactorInv, RootInv
    <2>2. /\ hwid' = [hwid EXCEPT ![Target(p)] = [version |-> writes', secret |-> factor[p]]]
          /\ slstore' = slstore
          /\ breach \subseteq breach'
          /\ Overlap(p) \/ Split(p) => Target(p) \in breach'
      BY <1>4 DEF Enroll, Refresh, WriteHelper
    <2>3. Target(p) \notin breach' => factor[p] = slstore[Target(p)]
      BY <2>1, <2>2 DEF Split, Target
    <2>4. Target(p) = HKLM => slstore[HKLM] # 0
      BY <2>1 DEF Target
    <2> QED BY <1>1, <2>1, <2>2, <2>3, <2>4 DEF HiveInv, TypeOK
  <1> QED BY <1>2, <1>3, <1>4
       DEF Step, Launch, Peek, Select, ReadHelper, Recover, Refuse, Ensure, StartCommit, Compare, Exit

LEMMA OwnKeeps ==
  ASSUME RegistryInv, NEW p \in Programs, Step(p)
  PROVE  ProgramInv(p)'
  <1> USE DEF Goto, Unlock, hives, locals
  <1>1. TypeOK /\ HiveInv /\ ProgramInv(p) /\ TypeOK'
    BY NextType DEF RegistryInv, Next
  <1>2. CASE Launch(p)
    BY <1>1, <1>2 DEF Launch, ProgramInv, LockInv, RootInv, SelectInv, RecoverInv, FactorInv, Locked,
       TypeOK
  <1>3. CASE Peek(p)
    BY <1>1, <1>3 DEF Peek, ProgramInv, LockInv, RootInv, SelectInv, RecoverInv, FactorInv, Locked,
       TypeOK
  <1>4. CASE Select(p)
    <2>1. LockInv(p)' /\ RecoverInv(p)' /\ FactorInv(p)'
      BY <1>1, <1>4 DEF Select, ProgramInv, LockInv, RecoverInv, FactorInv, Locked, TypeOK
    <2>2. root'[p] = Selected(p, peeked[p]) /\ pc'[p] = "read" /\ hwid' = hwid
          /\ slstore' = slstore /\ breach' = breach
      BY <1>1, <1>4 DEF Select, TypeOK
    <2>3. peeked[p] => hwid[HKLM] # NoHelper /\ slstore[HKLM] # 0
      BY <1>1, <1>4 DEF Select, ProgramInv, SelectInv, HiveInv
    <2>4. Sound(p) /\ ~peeked[p] => hwid[HKLM] = NoHelper
      BY <1>1, <1>4 DEF Select, ProgramInv, SelectInv, Sound
    <2>5. Sound(p) /\ hwid[HKCU(p)] # NoHelper => slstore[HKCU(p)] # 0
      BY <1>1 DEF HiveInv, Sound
    <2>6. root'[p] \in {HKLM, HKCU(p), NoRoot}
          /\ (root'[p] = HKLM => peeked[p] \/ slstore[HKLM] # 0)
          /\ (root'[p] = NoRoot => ~peeked[p] /\ hwid[HKCU(p)] = NoHelper)
          /\ (root'[p] = HKCU(p) => ~(peeked[p] /\ slstore[HKLM] # 0))
          /\ (root'[p] = HKLM =>
                peeked[p] \/ hwid[HKCU(p)] = NoHelper \/ slstore[HKCU(p)] = 0)
      BY <2>2 DEF Selected, First, HasHelper
    <2>7. RootInv(p)' /\ SelectInv(p)'
      BY <2>2, <2>3, <2>4, <2>5, <2>6 DEF RootInv, SelectInv, Sound
    <2> QED BY <2>1, <2>7 DEF ProgramInv
  <1>5. CASE ReadHelper(p)
    <2>1. LockInv(p)'
      BY <1>1, <1>5 DEF ReadHelper, ProgramInv, LockInv, Locked, TypeOK
    <2>2. /\ hwid' = hwid /\ slstore' = slstore /\ breach' = breach /\ root' = root
          /\ force' = force
          /\ seen'[p] = IF root[p] = NoRoot THEN NoHelper ELSE hwid[root[p]]
          /\ pc'[p] = IF seen'[p] = NoHelper \/ force[p] THEN "ensure" ELSE "recover"
      BY <1>1, <1>5 DEF ReadHelper, TypeOK
    <2>3. root[p] \in {HKLM, HKCU(p), NoRoot} /\ (root[p] = HKLM => slstore[HKLM] # 0)
      BY <1>1 DEF ProgramInv, RootInv
    <2>4. RootInv(p)'
      BY <2>2, <2>3 DEF RootInv
    <2>5. SelectInv(p)'
      BY <1>1, <1>5, <2>2, <2>3 DEF ReadHelper, ProgramInv, SelectInv, Sound
    <2>6. RecoverInv(p)' /\ FactorInv(p)'
      BY <1>1, <2>2, <2>3 DEF RecoverInv, FactorInv, HiveInv
    <2> QED BY <2>1, <2>4, <2>5, <2>6 DEF ProgramInv
  <1>6. CASE Recover(p)
    BY <1>1, <1>6 DEF Recover, ProgramInv, LockInv, RootInv, SelectInv, RecoverInv, FactorInv, Locked,
       TypeOK
  <1>7. CASE Refuse(p)
    BY <1>1, <1>7 DEF Refuse, ProgramInv, LockInv, RootInv, SelectInv, RecoverInv, FactorInv, Locked,
       Sound, TypeOK
  <1>8. CASE Ensure(p)
    <2>1. LockInv(p)' /\ RecoverInv(p)'
      BY <1>1, <1>8 DEF Ensure, ProgramInv, LockInv, RecoverInv, Locked, TypeOK
    <2>2. /\ hwid' = hwid /\ slstore' = slstore /\ breach' = breach /\ force' = force
          /\ root'[p] = SelectedSecret(p)
          /\ factor'[p] = IF root'[p] = NoRoot THEN 0 ELSE slstore[root'[p]]
          /\ pc'[p] = IF factor'[p] = 0 THEN "draw" ELSE "enroll"
      BY <1>1, <1>8 DEF Ensure, TypeOK
    <2>3. /\ root'[p] \in {HKLM, HKCU(p), NoRoot}
          /\ root'[p] = HKLM => slstore[HKLM] # 0
          /\ root'[p] = NoRoot => slstore[HKLM] = 0 /\ slstore[HKCU(p)] = 0
      BY <1>1, <2>2 DEF SelectedSecret, First, ProgramInv, RootInv
    <2>4. RootInv(p)' /\ SelectInv(p)'
      BY <1>1, <1>8, <2>2, <2>3 DEF Ensure, RootInv, ProgramInv, SelectInv, Sound
    <2>5. FactorInv(p)'
      BY <2>2, <2>3 DEF FactorInv, Target
    <2> QED BY <2>1, <2>4, <2>5 DEF ProgramInv
  <1>9. CASE Draw(p)
    <2>1. Target(p) \in {HKLM, HKCU(p)} /\ drawn' # 0
      BY <1>1, <1>9, TargetIsAHive DEF Draw, TypeOK
    <2>2. /\ hwid' = hwid /\ breach \subseteq breach' /\ force' = force /\ holder' = holder
          /\ root'[p] = Target(p) /\ slstore'[Target(p)] = drawn' /\ factor'[p] = drawn'
          /\ pc[p] = "draw" /\ pc'[p] = "enroll"
      BY <1>1, <1>9, <2>1 DEF Draw, TypeOK
    <2> QED BY <1>1, <2>1, <2>2
         DEF ProgramInv, LockInv, RootInv, SelectInv, RecoverInv, FactorInv, Locked, Sound
  <1>10. CASE Enroll(p) \/ Refresh(p)
    <2>1. LockInv(p)'
      BY <1>1, <1>10 DEF Enroll, Refresh, ProgramInv, LockInv, Locked, TypeOK
    <2>2. /\ breach \subseteq breach' /\ slstore' = slstore /\ factor' = factor
          /\ Overlap(p) \/ Split(p) => Target(p) \in breach'
          /\ root'[p] = Target(p) /\ Target(p) \in {HKLM, HKCU(p)}
          /\ pc[p] \in {"enroll", "refresh"} /\ pc'[p] \in {"ready", "done"}
      BY <1>1, <1>10, TargetIsAHive DEF Enroll, Refresh, WriteHelper, TypeOK
    <2>3. /\ root[p] \in {HKLM, HKCU(p)} /\ (root[p] = HKLM => slstore[HKLM] # 0)
          /\ factor[p] # 0 /\ (root[p] \notin breach => factor[p] = slstore[root[p]])
      BY <1>1, <2>2 DEF ProgramInv, RootInv, FactorInv
    <2>4. Target(p) \notin breach' => Target(p) = root[p]
      BY <2>2, <2>3 DEF Split, Target
    <2> QED BY <2>1, <2>2, <2>3, <2>4
         DEF ProgramInv, RootInv, SelectInv, RecoverInv, FactorInv, Target
  <1>11. CASE StartCommit(p)
    BY <1>1, <1>11 DEF StartCommit, ProgramInv, LockInv, RootInv, SelectInv, RecoverInv, FactorInv,
       Locked, TypeOK
  <1>12. CASE Compare(p)
    BY <1>1, <1>12 DEF Compare, ProgramInv, LockInv, RootInv, SelectInv, RecoverInv, FactorInv,
       Locked, TypeOK
  <1>13. CASE Exit(p)
    BY <1>1, <1>13 DEF Exit, ProgramInv, LockInv, RootInv, SelectInv, RecoverInv, FactorInv, Locked,
       TypeOK
  <1> QED BY <1>2, <1>3, <1>4, <1>5, <1>6, <1>7, <1>8, <1>9, <1>10, <1>11, <1>12, <1>13 DEF Step

LEMMA InitInv == Init => RegistryInv
  BY InitType DEF Init, RegistryInv, HiveInv, ProgramInv, LockInv, RootInv, SelectInv, RecoverInv,
     FactorInv, Locked

LEMMA NextInv == RegistryInv /\ [Next]_vars => RegistryInv'
<1> SUFFICES ASSUME RegistryInv, [Next]_vars PROVE RegistryInv'
  OBVIOUS
<1>1. CASE UNCHANGED vars
  BY <1>1 DEF vars, hives, locals, RegistryInv, TypeOK, HiveInv, ProgramInv, LockInv, RootInv,
     SelectInv, RecoverInv, FactorInv, Sound, Target
<1>2. ASSUME NEW p \in Programs, Step(p) PROVE RegistryInv'
  BY <1>2, NextType, HivesKeep, OwnKeeps, OthersKeep DEF RegistryInv, Next
<1> QED BY <1>1, <1>2 DEF Next

LEMMA Invariance == Spec => []RegistryInv
  BY InitInv, NextInv, PTL DEF Spec

\* The type invariant, for every instance.
THEOREM TypeCorrect == Spec => []TypeOK
<1>1. RegistryInv => TypeOK
  BY DEF RegistryInv
<1> QED BY <1>1, Invariance, PTL

\* No program is refused unless a hive of its user was breached: _select_root pins
\* the hive that both values are read from.
THEOREM RefusalNeedsBreach == Spec => []RefusedOnlyWhenBreached
<1>1. RegistryInv => RefusedOnlyWhenBreached
  BY DEF RegistryInv, ProgramInv, RecoverInv, Sound, RefusedOnlyWhenBreached
<1> QED BY <1>1, Invariance, PTL

\* prepare enrolls unasked only where no helper can be read, whatever died before,
\* unless a hive of its user was breached.
THEOREM EnrollmentNeedsNone == Spec => []EnrollsOnlyWhenNone
<1>1. RegistryInv => EnrollsOnlyWhenNone
  BY DEF RegistryInv, ProgramInv, SelectInv, Sound, EnrollsOnlyWhenNone
<1> QED BY <1>1, Invariance, PTL

\* What the write of a helper does to the hives when its hive is not breached.
LEMMA WriteShape ==
  ASSUME RegistryInv, NEW p \in Programs, Enroll(p) \/ Refresh(p)
  PROVE  /\ breach' = breach \/ breach' = breach \cup {Target(p)}
         /\ Target(p) \notin breach' => Target(p) = root[p]
         /\ Target(p) \notin breach' => slstore[Target(p)] = factor[p]
         /\ factor[p] # 0 /\ writes' \in 0..MaxWrites /\ factor[p] \in 0..MaxSecrets
         /\ hwid' = [hwid EXCEPT ![Target(p)] = [version |-> writes', secret |-> factor[p]]]
         /\ root'[p] = Target(p) /\ slstore' = slstore
  <1>1. TypeOK /\ ProgramInv(p)
    BY DEF RegistryInv
  <1>2. /\ breach' = breach \cup (IF Overlap(p) \/ Split(p) THEN {Target(p)} ELSE {})
        /\ hwid' = [hwid EXCEPT ![Target(p)] = [version |-> writes', secret |-> factor[p]]]
        /\ root'[p] = Target(p) /\ slstore' = slstore /\ pc[p] \in {"enroll", "refresh"}
        /\ writes' \in 0..MaxWrites /\ factor[p] \in 0..MaxSecrets
    BY <1>1, TargetIsAHive DEF Enroll, Refresh, WriteHelper, TypeOK
  <1>3. /\ root[p] \in {HKLM, HKCU(p)} /\ factor[p] # 0
        /\ root[p] \notin breach => factor[p] = slstore[root[p]]
    BY <1>1, <1>2 DEF ProgramInv, RootInv, FactorInv
  <1>4. Target(p) \notin breach' => Target(p) = root[p]
    BY <1>2, <1>3 DEF Split, Target
  <1> QED BY <1>2, <1>3, <1>4

\* A commit never replaces a helper it did not prepare with, as long as the hive it
\* writes is not breached.
THEOREM CommitSafety == Spec => CommitReplacesItsOwn
<1>1. ASSUME RegistryInv, NEW p \in Programs, Refresh(p)
      PROVE  hwid[Target(p)] = seen[p] \/ Target(p) \in breach'
  BY <1>1, WriteShape DEF RegistryInv, ProgramInv, FactorInv, Refresh
<1>2. RegistryInv /\ [Next]_vars =>
        [\A p \in Programs : Refresh(p) => hwid[Target(p)] = seen[p] \/ Target(p) \in breach']_vars
  BY <1>1
<1> QED BY <1>2, Invariance, PTL DEF Spec, CommitReplacesItsOwn

\* What a program writes is what its user's next program selects, as long as nothing
\* is breached and HKLM holds no other pair.
THEOREM WritesAreFound == Spec => WritesAreReadNext
<1>1. ASSUME RegistryInv, NEW p \in Programs, Enroll(p) \/ Refresh(p), breach' = {},
             hwid[HKLM] = NoHelper \/ root'[p] = HKLM
      PROVE  Selected(p, hwid[HKLM] # NoHelper)' = root'[p]
  <2>1. /\ root'[p] = Target(p) /\ Target(p) \in {HKLM, HKCU(p)} /\ slstore' = slstore
        /\ slstore[Target(p)] # 0
        /\ hwid' = [hwid EXCEPT ![Target(p)] = [version |-> writes', secret |-> factor[p]]]
        /\ factor[p] # 0
    BY <1>1, WriteShape, TargetIsAHive
  <2>2. hwid \in [Hives -> Helpers]
    BY <1>1 DEF RegistryInv, TypeOK
  <2>3. [version |-> writes', secret |-> factor[p]] # NoHelper
    BY <2>1 DEF NoHelper
  <2>4. hwid'[Target(p)] # NoHelper
    BY <2>1, <2>2, <2>3
  <2>5. CASE Target(p) = HKLM
    BY <2>1, <2>4, <2>5 DEF Selected, HasHelper, First
  <2>6. CASE Target(p) = HKCU(p)
    <3>1. hwid'[HKLM] = NoHelper
      BY <1>1, <2>1, <2>2, <2>6
    <3> QED BY <2>1, <2>4, <2>6, <3>1 DEF Selected, HasHelper, First
  <2> QED BY <2>1, <2>5, <2>6
<1>2. RegistryInv /\ [Next]_vars =>
        [\A p \in Programs :
           Enroll(p) \/ Refresh(p) =>
             \/ breach' # {}
             \/ Selected(p, hwid[HKLM] # NoHelper)' = root'[p]
             \/ hwid[HKLM] # NoHelper /\ root'[p] # HKLM]_vars
  BY <1>1
<1> QED BY <1>2, Invariance, PTL DEF Spec, WritesAreReadNext

\* A step that changes one hive, if what it does to the hive is a step of the
\* abstract store or a breach of it.
LEMMA PairStep ==
  ASSUME TypeOK, NEW h \in Hives, NEW value, NEW new,
         slstore' = [slstore EXCEPT ![h] = value], hwid' = [hwid EXCEPT ![h] = new],
         \/ /\ breach' = breach /\ slstore[h] = 0 /\ hwid[h].secret = 0
            /\ value \in 1..MaxSecrets /\ new.secret = 0
         \/ /\ breach' = breach /\ slstore[h] # 0 /\ value = slstore[h]
            /\ new.secret = slstore[h]
         \/ h \in breach' /\ breach' \in {breach, breach \cup {h}}
  PROVE  Pairs!Next
  <1> DEFINE bound == [g \in Hives |-> hwid[g].secret]
  <1>1. /\ slstore \in [Hives -> 0..MaxSecrets] /\ hwid \in [Hives -> Helpers]
        /\ slstore'[h] = value /\ bound'[h] = new.secret /\ bound[h] = hwid[h].secret
    BY DEF TypeOK
  <1>2. bound' = [bound EXCEPT ![h] = bound'[h]]
    BY <1>1
  <1>3. Pairs!Only(h)
    BY <1>1, <1>2 DEF Pairs!Only
  <1>4. \/ (Pairs!DrawSecret(h) \/ Pairs!BindHelper(h)) /\ breach' = breach
        \/ h \in breach' /\ breach' \in {breach, breach \cup {h}}
    BY <1>1 DEF Pairs!DrawSecret, Pairs!BindHelper, Pairs!None
  <1> QED BY <1>3, <1>4 DEF Pairs!Next

\* Each hive of the registry is a store of a pair until it is breached: its secret is
\* drawn once, and a helper in it is bound to that secret.
THEOREM RegistryImplementsPairs == Spec => ImplementsPairs
<1>1. Init => Pairs!Init
  BY DEF Init, NoHelper, Pairs!Init, Pairs!None
<1>2. ASSUME RegistryInv, NEW p \in Programs, Step(p)
      PROVE  Pairs!Next \/ UNCHANGED Pairs!vars
  <2>1. TypeOK /\ HiveInv /\ ProgramInv(p)
    BY <1>2 DEF RegistryInv
  <2>2. CASE UNCHANGED hives
    BY <2>2 DEF hives, Pairs!vars
  <2>3. CASE Draw(p)
    <3>1. PICK t \in Hives : t = Target(p)
      BY TargetIsAHive
    <3>2. /\ drawn' \in 1..MaxSecrets /\ slstore' = [slstore EXCEPT ![t] = drawn']
          /\ hwid' = [hwid EXCEPT ![t] = hwid[t]] /\ breach' \in {breach, breach \cup {t}}
      BY <2>1, <2>3, <3>1 DEF Draw, Overlap, TypeOK
    <3>3. t \notin breach => slstore[t] = 0 /\ hwid[t].secret = 0
      BY <2>1, <2>3, <3>1 DEF Draw, ProgramInv, FactorInv, HiveInv, NoHelper
    <3>4. PICK value, new : value = drawn' /\ new = hwid[t]
      OBVIOUS
    <3>5. t \notin breach' => breach' = breach /\ t \notin breach
      BY <3>2
    <3> QED BY <2>1, <3>2, <3>3, <3>4, <3>5, PairStep
  <2>4. CASE Enroll(p) \/ Refresh(p)
    <3>1. PICK t \in Hives : t = Target(p)
      BY TargetIsAHive
    <3>2. PICK value, new : value = slstore[t] /\ new = [version |-> writes', secret |-> factor[p]]
      OBVIOUS
    <3>3. /\ slstore' = [slstore EXCEPT ![t] = value] /\ hwid' = [hwid EXCEPT ![t] = new]
          /\ breach' \in {breach, breach \cup {t}}
          /\ t \notin breach' => breach' = breach /\ slstore[t] # 0 /\ new.secret = slstore[t]
      BY <1>2, <2>1, <2>4, <3>1, <3>2, WriteShape DEF TypeOK
    <3> QED BY <2>1, <3>2, <3>3, PairStep
  <2> QED BY <1>2, <2>2, <2>3, <2>4
       DEF Step, Launch, Peek, Select, ReadHelper, Recover, Refuse, Ensure, StartCommit, Compare,
           Exit, hives
<1>3. RegistryInv /\ [Next]_vars => [Pairs!Next]_Pairs!vars
  <2>1. CASE UNCHANGED vars
    BY <2>1 DEF vars, hives, Pairs!vars
  <2> QED BY <1>2, <2>1 DEF Next
<1> QED BY <1>1, <1>3, Invariance, PTL DEF Spec, Pairs!Spec, ImplementsPairs
=============================================================================
