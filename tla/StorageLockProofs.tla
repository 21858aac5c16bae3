-------------------------- MODULE StorageLockProofs --------------------------
(****************************************************************************)
(* Theorems about StorageLock for any number of attempts and processes, any *)
(* assignment of attempts to processes and any set of faults:               *)
(*   TypeCorrect      the type invariant                                    *)
(*   Safety           mutual exclusion unless one of the two windows of     *)
(*                    _remove_if_unchanged was hit; a holder's file is on   *)
(*                    disk; a recovery is after the dead                    *)
(*   RemovalIsByTheOwner  a complete lock file disappears by its owner's    *)
(*                    release, or after its attempt has ended               *)
(*   Implements       the lock file implements the abstract Mutex, which    *)
(*                    breaks in those windows                               *)
(*   QuietExcludes    without crashes, failed calls and stalls they are     *)
(*                    never hit                                             *)
(****************************************************************************)
EXTENDS StorageLock, TLAPS

\* What an attempt writes is a file of its own, and not the absence of one.
LEMMA OwnIsAFile == \A a \in Attempts : \A full \in BOOLEAN :
                      /\ Own(a, full) \in Files
                      /\ Own(a, full).by = a
                      /\ Own(a, full).full = full
                      /\ Own(a, full) # NoFile
  BY ConstantsAssumption DEF Own, Files

\* The fields of a file have their types.
LEMMA FileFields == \A f \in Files : f.by \in Attempts /\ f.full \in BOOLEAN
  BY DEF Files

\* A file that was just written has an age.
LEMMA ZeroAge == 0 \in 0 .. Grace
  BY ConstantsAssumption

\* The initial state has its types.
LEMMA InitVarsOK == Init => VarsOK
<1> SUFFICES ASSUME Init PROVE VarsOK
  OBVIOUS
<1>1. age \in 0 .. Grace /\ patience \in [Attempts -> 0 .. Wait]
  BY ConstantsAssumption DEF Init
<1>2. pc \in [Attempts -> Labels]
  BY DEF Init, Labels
<1>3. alive \in [Pids -> BOOLEAN] /\ seen \in [Attempts -> Files \cup {NoFile}]
  BY DEF Init
<1>4. file \in Files \cup {NoFile}
  BY DEF Init
<1>5. breach \subseteq {"swap", "grace"}
  BY DEF Init
<1> QED
  BY <1>1, <1>2, <1>3, <1>4, <1>5 DEF VarsOK

\* Every step keeps the types; only a floored deadline stays in range.
LEMMA NextVarsOK == VarsOK /\ [Next]_vars => VarsOK'
<1> SUFFICES ASSUME VarsOK, [Next]_vars PROVE VarsOK'
  OBVIOUS
<1> USE ConstantsAssumption DEF VarsOK, Labels, Acquiring, Holding, Exited
<1>1. ASSUME NEW a \in Attempts, Start(a) PROVE VarsOK'
  BY <1>1 DEF Start, Goto
<1>2. ASSUME NEW a \in Attempts, Create(a) PROVE VarsOK'
  <2>1. Own(a, FALSE) \in Files
    BY OwnIsAFile
  <2>2. file' \in Files \cup {NoFile}
    BY <1>2, <2>1 DEF Create
  <2>3. age' \in 0 .. Grace
    BY <1>2, ZeroAge DEF Create
  <2>4. pc' \in [Attempts -> Labels]
    BY <1>2 DEF Create, Goto
  <2> QED
    BY <1>2, <2>2, <2>3, <2>4 DEF Create
<1>3. ASSUME NEW a \in Attempts, CreateFails(a) \/ WriteFails(a) PROVE VarsOK'
  <2>1. file' \in Files \cup {NoFile} /\ age' \in 0 .. Grace
    BY <1>3, OwnIsAFile, ZeroAge DEF CreateFails, WriteFails
  <2>2. pc' \in [Attempts -> Labels]
    BY <1>3 DEF CreateFails, WriteFails, Goto
  <2> QED
    BY <1>3, <2>1, <2>2 DEF CreateFails, WriteFails
<1>4. ASSUME NEW a \in Attempts, Write(a) PROVE VarsOK'
  <2>1. Own(a, TRUE) \in Files
    BY OwnIsAFile
  <2>2. file' \in Files \cup {NoFile}
    BY <1>4, <2>1 DEF Write
  <2>3. age' \in 0 .. Grace
    BY <1>4, ZeroAge DEF Write
  <2>4. pc' \in [Attempts -> Labels]
    BY <1>4 DEF Write, Goto
  <2>5. seen' \in [Attempts -> Files \cup {NoFile}]
    BY <1>4, <2>1 DEF Write
  <2> QED
    BY <1>4, <2>2, <2>3, <2>4, <2>5 DEF Write
<1>5. ASSUME NEW a \in Attempts, Read(a) PROVE VarsOK'
  BY <1>5 DEF Read, Goto
<1>6. ASSUME NEW a \in Attempts, Judge(a) PROVE VarsOK'
  BY <1>6 DEF Judge, Goto
<1>7. ASSUME NEW a \in Attempts, Reread(a, "recheck", "unlink", "create") PROVE VarsOK'
  BY <1>7 DEF Reread, Goto
<1>8. ASSUME NEW a \in Attempts, Reread(a, "relcheck", "relunlink", "done") PROVE VarsOK'
  BY <1>8 DEF Reread, Goto
<1>9. ASSUME NEW a \in Attempts, Unlink(a, "unlink", "create") PROVE VarsOK'
  BY <1>9 DEF Unlink, Goto, Harm
<1>10. ASSUME NEW a \in Attempts, Unlink(a, "relunlink", "done") PROVE VarsOK'
  BY <1>10 DEF Unlink, Goto, Harm
<1>11. ASSUME NEW a \in Attempts, WaitStep(a) \/ Release(a) PROVE VarsOK'
  BY <1>11 DEF WaitStep, Release, Goto
<1>12. ASSUME NEW p \in Pids, Crash(p) \/ Reuse(p) PROVE VarsOK'
  BY <1>12 DEF Crash, Reuse
<1>13. CASE Tick
  BY <1>13 DEF Tick
<1>14. CASE UNCHANGED vars
  BY <1>14 DEF vars
<1> QED
  BY <1>1, <1>2, <1>3, <1>4, <1>5, <1>6, <1>7, <1>8, <1>9, <1>10, <1>11, <1>12,
     <1>13, <1>14 DEF Next, AcquireStep, ReleaseStep

------------------------------------------------------------------------------
(* The inductive invariant. *)

\* No attempt of a dead process is under way.
DeadAreDone == \A a \in Attempts : ~ alive[PidOf[a]] => pc[a] \in Exited \cup {"idle"}

\* A complete file, at the path or read from it, is by an attempt that held.
Past(f) == f # NoFile /\ f.full => pc[f.by] \in Holding \cup Exited
FullIsPast == Past(file) /\ \A a \in Attempts : Past(seen[a])

\* Until it has written its lines, a creator's empty file is at the path.
WriterIsOnDisk == breach = {} => \A a \in Attempts : pc[a] = "write" => file = Own(a, FALSE)

LockInv ==
  /\ VarsOK
  /\ HoldersSawTheirs
  /\ SeenIsAFile
  /\ DeadAreDone
  /\ FullIsPast
  /\ RecoversOnlyTheDead
  /\ WriterIsOnDisk
  /\ HolderIsOnDisk

\* No attempt is under way and there is no file.
LEMMA InitLockInv == Init => LockInv
<1> SUFFICES ASSUME Init PROVE LockInv
  OBVIOUS
<1>1. VarsOK
  BY InitVarsOK
<1>2. Holders = {}
  BY DEF Init, Holders, Holding
<1>3. HoldersSawTheirs /\ HolderIsOnDisk
  BY <1>2 DEF HoldersSawTheirs, HolderIsOnDisk
<1>4. SeenIsAFile /\ DeadAreDone /\ FullIsPast /\ RecoversOnlyTheDead /\ WriterIsOnDisk
  BY ConstantsAssumption
  DEF Init, SeenIsAFile, DeadAreDone, FullIsPast, Past, RecoversOnlyTheDead, WriterIsOnDisk
<1> QED
  BY <1>1, <1>3, <1>4 DEF LockInv

\* How far a step may go: an attempt that held or ended stays past that, and
\* what is at the path, or was read, is old, or was put there by its attempt.
StaysPast(b) ==
  /\ pc[b] \in Holding \cup Exited => pc'[b] \in Holding \cup Exited
  /\ pc[b] \in Exited => pc'[b] \in Exited
SeesOldOrOwn(b) ==
  \/ seen'[b] \in {seen[b], file}
  \/ seen'[b] = Own(b, TRUE) /\ pc'[b] = "held"
ShowsOldOrNew ==
  \/ file' \in {file, NoFile}
  \/ \E b \in Attempts : \/ file' = Own(b, FALSE)
                         \/ file' = Own(b, TRUE) /\ pc'[b] \in {"held", "failed"}
RecoversOnVerdict(b) ==
  pc'[b] \in {"recheck", "unlink"} =>
    /\ seen'[b] = seen[b]
    /\ pc[b] \notin {"recheck", "unlink"} => (pc[b] = "judge" /\ Stale(b))

LEMMA StepShape ==
  VarsOK /\ [Next]_vars =>
    /\ \A b \in Attempts : StaysPast(b) /\ SeesOldOrOwn(b) /\ RecoversOnVerdict(b)
    /\ ShowsOldOrNew
<1> SUFFICES ASSUME VarsOK, [Next]_vars
             PROVE  (\A b \in Attempts : StaysPast(b) /\ SeesOldOrOwn(b) /\ RecoversOnVerdict(b))
                    /\ ShowsOldOrNew
  OBVIOUS
<1> DEFINE Goal == (\A b \in Attempts : StaysPast(b) /\ SeesOldOrOwn(b) /\ RecoversOnVerdict(b))
                   /\ ShowsOldOrNew
<1> USE DEF VarsOK, Holding, Exited, StaysPast, SeesOldOrOwn, RecoversOnVerdict, ShowsOldOrNew
<1>1. ASSUME NEW a \in Attempts, Start(a) PROVE Goal
  BY <1>1 DEF Start, Goto
<1>2. ASSUME NEW a \in Attempts, Create(a) PROVE Goal
  BY <1>2 DEF Create, Goto
<1>3. ASSUME NEW a \in Attempts, CreateFails(a) \/ WriteFails(a) PROVE Goal
  BY <1>3 DEF CreateFails, WriteFails, Goto
<1>4. ASSUME NEW a \in Attempts, Write(a) PROVE Goal
  BY <1>4 DEF Write, Goto
<1>5. ASSUME NEW a \in Attempts, Read(a) PROVE Goal
  BY <1>5 DEF Read, Goto
<1>6. ASSUME NEW a \in Attempts, Judge(a) PROVE Goal
  BY <1>6 DEF Judge, Goto
<1>7. ASSUME NEW a \in Attempts, Reread(a, "recheck", "unlink", "create") PROVE Goal
  BY <1>7 DEF Reread, Goto
<1>8. ASSUME NEW a \in Attempts, Reread(a, "relcheck", "relunlink", "done") PROVE Goal
  BY <1>8 DEF Reread, Goto
<1>9. ASSUME NEW a \in Attempts, Unlink(a, "unlink", "create") PROVE Goal
  BY <1>9 DEF Unlink, Goto
<1>10. ASSUME NEW a \in Attempts, Unlink(a, "relunlink", "done") PROVE Goal
  BY <1>10 DEF Unlink, Goto
<1>11. ASSUME NEW a \in Attempts, WaitStep(a) \/ Release(a) PROVE Goal
  BY <1>11 DEF WaitStep, Release, Goto
<1>12. ASSUME NEW p \in Pids, Crash(p) PROVE Goal
  BY <1>12 DEF Crash, Acquiring
<1>13. ASSUME NEW p \in Pids, Reuse(p) PROVE Goal
  BY <1>13 DEF Reuse
<1>14. CASE Tick
  BY <1>14 DEF Tick
<1>15. CASE UNCHANGED vars
  BY <1>15 DEF vars
<1> QED
  BY <1>1, <1>2, <1>3, <1>4, <1>5, <1>6, <1>7, <1>8, <1>9, <1>10, <1>11, <1>12,
     <1>13, <1>14, <1>15 DEF Next, AcquireStep, ReleaseStep

\* The parts of the invariant about the attempts themselves.
LEMMA NextActors ==
  LockInv /\ [Next]_vars => HoldersSawTheirs' /\ SeenIsAFile' /\ DeadAreDone'
<1> SUFFICES ASSUME LockInv, [Next]_vars
             PROVE  HoldersSawTheirs' /\ SeenIsAFile' /\ DeadAreDone'
  OBVIOUS
<1> DEFINE Goal == HoldersSawTheirs' /\ SeenIsAFile' /\ DeadAreDone'
<1> USE DEF LockInv, VarsOK, Holding, Exited, HoldersSawTheirs, SeenIsAFile, DeadAreDone, Holders
<1>1. ASSUME NEW a \in Attempts, Start(a) PROVE Goal
  BY <1>1 DEF Start, Goto
<1>2. ASSUME NEW a \in Attempts, Create(a) PROVE Goal
  BY <1>2 DEF Create, Goto
<1>3. ASSUME NEW a \in Attempts, CreateFails(a) \/ WriteFails(a) PROVE Goal
  BY <1>3 DEF CreateFails, WriteFails, Goto
<1>4. ASSUME NEW a \in Attempts, Write(a) PROVE Goal
  BY <1>4 DEF Write, Goto
<1>5. ASSUME NEW a \in Attempts, Read(a) PROVE Goal
  BY <1>5 DEF Read, Goto
<1>6. ASSUME NEW a \in Attempts, Judge(a) PROVE Goal
  BY <1>6 DEF Judge, Goto
<1>7. ASSUME NEW a \in Attempts, Reread(a, "recheck", "unlink", "create") PROVE Goal
  BY <1>7 DEF Reread, Goto
<1>8. ASSUME NEW a \in Attempts, Reread(a, "relcheck", "relunlink", "done") PROVE Goal
  BY <1>8 DEF Reread, Goto
<1>9. ASSUME NEW a \in Attempts, Unlink(a, "unlink", "create") PROVE Goal
  BY <1>9 DEF Unlink, Goto
<1>10. ASSUME NEW a \in Attempts, Unlink(a, "relunlink", "done") PROVE Goal
  BY <1>10 DEF Unlink, Goto
<1>11. ASSUME NEW a \in Attempts, WaitStep(a) \/ Release(a) PROVE Goal
  BY <1>11 DEF WaitStep, Release, Goto
<1>12. ASSUME NEW p \in Pids, Crash(p) PROVE Goal
  <2>1. HoldersSawTheirs' /\ SeenIsAFile'
    BY <1>12 DEF Crash, Acquiring
  <2>2. \A a \in Attempts : PidOf[a] = p => pc'[a] \in Exited \cup {"idle"}
    BY <1>12 DEF Crash, Acquiring, Labels
  <2>3. \A a \in Attempts : PidOf[a] # p => pc'[a] = pc[a]
    BY <1>12 DEF Crash
  <2>4. DeadAreDone'
    BY <1>12, <2>2, <2>3, ConstantsAssumption DEF Crash
  <2> QED
    BY <2>1, <2>4
<1>13. ASSUME NEW p \in Pids, Reuse(p) PROVE Goal
  <2>1. HoldersSawTheirs' /\ SeenIsAFile'
    BY <1>13 DEF Reuse
  <2>2. \A q \in Pids : ~ alive'[q] => ~ alive[q]
    BY <1>13 DEF Reuse
  <2>3. DeadAreDone'
    BY <1>13, <2>2, ConstantsAssumption DEF Reuse
  <2> QED
    BY <2>1, <2>3
<1>14. CASE Tick
  BY <1>14 DEF Tick
<1>15. CASE UNCHANGED vars
  BY <1>15 DEF vars
<1> QED
  BY <1>1, <1>2, <1>3, <1>4, <1>5, <1>6, <1>7, <1>8, <1>9, <1>10, <1>11, <1>12,
     <1>13, <1>14, <1>15 DEF Next, AcquireStep, ReleaseStep

\* A file is complete only once its creator has written it.
LEMMA NextFullIsPast == LockInv /\ [Next]_vars => FullIsPast'
<1> SUFFICES ASSUME LockInv, [Next]_vars PROVE FullIsPast'
  OBVIOUS
<1>1. VarsOK /\ FullIsPast
  BY DEF LockInv
<1>2. /\ \A b \in Attempts : StaysPast(b) /\ SeesOldOrOwn(b)
      /\ ShowsOldOrNew
  BY <1>1, StepShape
<1>3. \A f \in Files \cup {NoFile} :
        Past(f) => (f # NoFile /\ f.full => pc'[f.by] \in Holding \cup Exited)
  BY <1>2, FileFields DEF Past, StaysPast
<1>4. \A b \in Attempts : Own(b, TRUE).by = b /\ ~ Own(b, FALSE).full
  BY DEF Own
<1>5. Past(file)'
  BY <1>1, <1>2, <1>3, <1>4 DEF FullIsPast, Past, ShowsOldOrNew, Holding, Exited, VarsOK
<1>6. ASSUME NEW b \in Attempts PROVE Past(seen[b])'
  <2>1. Past(seen[b]) /\ Past(file)
    BY <1>1 DEF FullIsPast
  <2>2. CASE seen'[b] \in {seen[b], file}
    <3>1. seen'[b] \in Files \cup {NoFile} /\ Past(seen'[b])
      BY <1>1, <2>1, <2>2 DEF VarsOK
    <3> QED
      BY <1>3, <3>1 DEF Past
  <2>3. CASE seen'[b] = Own(b, TRUE) /\ pc'[b] = "held"
    BY <1>4, <2>3 DEF Past, Holding
  <2> QED
    BY <1>2, <2>2, <2>3 DEF SeesOldOrOwn
<1> QED
  BY <1>5, <1>6 DEF FullIsPast

\* A lock is judged dead when its process is, and then its attempt has ended for good.
LEMMA NextRecoversOnlyTheDead == LockInv /\ [Next]_vars => RecoversOnlyTheDead'
<1> SUFFICES ASSUME LockInv, [Next]_vars,
                    NEW a \in Attempts, pc'[a] \in {"recheck", "unlink"}, seen'[a].full
             PROVE  pc'[seen'[a].by] \in Exited
  BY DEF RecoversOnlyTheDead
<1>1. VarsOK /\ SeenIsAFile /\ DeadAreDone /\ FullIsPast /\ RecoversOnlyTheDead
  BY DEF LockInv
<1>2. RecoversOnVerdict(a) /\ \A b \in Attempts : StaysPast(b)
  BY <1>1, StepShape
<1>3. seen'[a] = seen[a] /\ pc[a] \in {"judge", "recheck", "unlink"}
  BY <1>2 DEF RecoversOnVerdict
<1>4. seen[a] \in Files /\ seen[a].by \in Attempts /\ seen[a] # NoFile
  BY <1>1, <1>3, FileFields DEF SeenIsAFile, VarsOK
<1>5. pc[seen[a].by] \in Exited
  <2>1. CASE pc[a] \in {"recheck", "unlink"}
    BY <1>1, <1>3, <2>1 DEF RecoversOnlyTheDead
  <2>2. CASE Stale(a)
    <3>1. pc[seen[a].by] \in Exited \cup {"idle"}
      BY <1>1, <1>3, <1>4, <2>2 DEF Stale, DeadAreDone
    <3>2. pc[seen[a].by] \in Holding \cup Exited
      BY <1>1, <1>3, <1>4 DEF FullIsPast, Past
    <3> QED
      BY <3>1, <3>2 DEF Holding, Exited
  <2> QED
    BY <1>2, <2>1, <2>2 DEF RecoversOnVerdict
<1> QED
  BY <1>2, <1>3, <1>4, <1>5 DEF StaysPast

\* Holding the lock is visible at the path, and the path shows one file.
LEMMA OnDiskExcludes == HolderIsOnDisk => SafeUnlessBreached
  BY DEF HolderIsOnDisk, SafeUnlessBreached, MutualExclusion, Holders, Own

\* The files of those who write or hold the lock stay at the path: a creation
\* finds it free only when there are none, and an unlink that hits one of them
\* is a breach, unless it is the holder's own release.
OnDisk(b) ==
  /\ pc[b] = "write" => file = Own(b, FALSE)
  /\ pc[b] \in Holding => file = Own(b, TRUE)

LEMMA NextOnDisk == LockInv /\ [Next]_vars => WriterIsOnDisk' /\ HolderIsOnDisk'
<1> SUFFICES ASSUME LockInv, [Next]_vars, breach' = {}, NEW b \in Attempts
             PROVE  OnDisk(b)'
  BY DEF OnDisk, WriterIsOnDisk, HolderIsOnDisk, Holders
<1>1. breach = {}
  BY DEF Next, vars, AcquireStep, ReleaseStep, Start, Create, CreateFails, Write, WriteFails,
         Read, Judge, Reread, Unlink, WaitStep, Release, Crash, Reuse, Tick
<1>2. \A c \in Attempts : OnDisk(c)
  BY <1>1 DEF LockInv, OnDisk, WriterIsOnDisk, HolderIsOnDisk, Holders
<1>3. VarsOK /\ RecoversOnlyTheDead
  BY DEF LockInv
<1>4. \A c \in Attempts : /\ Own(c, TRUE) # NoFile /\ Own(c, FALSE) # NoFile
                          /\ Own(c, TRUE).by = c /\ Own(c, FALSE).by = c
                          /\ Own(c, TRUE).full /\ ~ Own(c, FALSE).full
  BY OwnIsAFile
<1> USE DEF VarsOK, Holding, OnDisk
<1>5. ASSUME NEW a \in Attempts, Start(a) PROVE OnDisk(b)'
  BY <1>2, <1>3, <1>5 DEF Start, Goto
<1>6. ASSUME NEW a \in Attempts, Create(a) PROVE OnDisk(b)'
  <2>1. CASE file # NoFile
    BY <1>2, <1>3, <1>6, <2>1 DEF Create, Goto
  <2>2. CASE file = NoFile
    <3>1. pc[b] # "write" /\ pc[b] \notin Holding
      BY <1>2, <1>4, <2>2
    <3>2. /\ pc'[b] = IF b = a THEN "write" ELSE pc[b]
          /\ file' = Own(a, FALSE)
      BY <1>3, <1>6, <2>2 DEF Create, Goto
    <3> QED
      BY <3>1, <3>2
  <2> QED
    BY <2>1, <2>2
<1>7. ASSUME NEW a \in Attempts, CreateFails(a) \/ WriteFails(a) PROVE OnDisk(b)'
  <2>1. CASE UNCHANGED file
    BY <1>2, <1>3, <1>7, <2>1 DEF CreateFails, WriteFails, Goto
  <2>2. CASE file = Own(a, FALSE) /\ pc' = [pc EXCEPT ![a] = "failed"]
    <3>1. b # a => pc[b] # "write" /\ pc[b] \notin Holding
      <4>1. b # a => Own(b, TRUE) # Own(a, FALSE) /\ Own(b, FALSE) # Own(a, FALSE)
        BY <1>4
      <4> QED
        BY <1>2, <2>2, <4>1
    <3>2. pc'[b] = IF b = a THEN "failed" ELSE pc[b]
      BY <1>3, <2>2
    <3> QED
      BY <3>1, <3>2
  <2> QED
    BY <1>7, <2>1, <2>2 DEF CreateFails, WriteFails, Goto
<1>8. ASSUME NEW a \in Attempts, Write(a) PROVE OnDisk(b)'
  <2>1. file = Own(a, FALSE) /\ file' = Own(a, TRUE)
    BY <1>2, <1>8 DEF Write
  <2>2. CASE b = a
    BY <1>3, <1>8, <2>1, <2>2 DEF Write, Goto
  <2>3. CASE b # a
    <3>0. Own(b, TRUE) # Own(a, FALSE) /\ Own(b, FALSE) # Own(a, FALSE)
      BY <1>4, <2>3
    <3>1. pc[b] # "write" /\ pc[b] \notin Holding
      BY <1>2, <2>1, <3>0
    <3>2. pc'[b] = pc[b]
      BY <1>3, <1>8, <2>3 DEF Write, Goto
    <3> QED
      BY <3>1, <3>2
  <2> QED
    BY <2>2, <2>3
<1>9. ASSUME NEW a \in Attempts, Read(a) PROVE OnDisk(b)'
  BY <1>2, <1>3, <1>9 DEF Read, Goto
<1>10. ASSUME NEW a \in Attempts, Judge(a) PROVE OnDisk(b)'
  BY <1>2, <1>3, <1>10 DEF Judge, Goto
<1>11. ASSUME NEW a \in Attempts,
              \/ Reread(a, "recheck", "unlink", "create")
              \/ Reread(a, "relcheck", "relunlink", "done")
       PROVE OnDisk(b)'
  BY <1>2, <1>3, <1>11 DEF Reread, Goto
<1>12. ASSUME NEW a \in Attempts, Unlink(a, "unlink", "create") PROVE OnDisk(b)'
  <2>1. CASE UNCHANGED file
    BY <1>2, <1>3, <1>12, <2>1 DEF Unlink, Goto
  <2>2. CASE file' = NoFile /\ Harm(a) = {} /\ file # NoFile
    <3>1. file = seen[a] /\ ~ (~ file.full /\ pc[file.by] = "write")
      BY <2>2 DEF Harm
    <3>2. pc[b] # "write"
      BY <1>2, <1>4, <3>1
    <3>3. pc[b] \notin Holding
      <4> SUFFICES ASSUME pc[b] \in Holding PROVE FALSE
        OBVIOUS
      <4>1. seen[a] = Own(b, TRUE) /\ pc[a] = "unlink"
        BY <1>2, <1>12, <3>1 DEF Unlink
      <4>2. pc[b] \in Exited
        BY <1>3, <1>4, <4>1 DEF RecoversOnlyTheDead
      <4> QED
        BY <4>2 DEF Exited
    <3> QED
      BY <1>3, <1>12, <3>2, <3>3 DEF Unlink, Goto
  <2> QED
    BY <1>12, <2>1, <2>2 DEF Unlink
<1>13. ASSUME NEW a \in Attempts, Unlink(a, "relunlink", "done") PROVE OnDisk(b)'
  <2>1. pc[a] = "relunlink" /\ file = Own(a, TRUE)
    BY <1>2, <1>13 DEF Unlink
  <2>2. b # a => pc[b] # "write" /\ pc[b] \notin Holding
    <3>1. b # a => Own(b, TRUE) # Own(a, TRUE) /\ Own(b, FALSE) # Own(a, TRUE)
      BY <1>4
    <3> QED
      BY <1>2, <2>1, <3>1
  <2> QED
    BY <1>3, <1>13, <2>2 DEF Unlink, Goto
<1>14. ASSUME NEW a \in Attempts, WaitStep(a) \/ Release(a) PROVE OnDisk(b)'
  BY <1>2, <1>3, <1>14 DEF WaitStep, Release, Goto
<1>15. ASSUME NEW p \in Pids, Crash(p) PROVE OnDisk(b)'
  BY <1>2, <1>3, <1>15 DEF Crash
<1>16. ASSUME NEW p \in Pids, Reuse(p) PROVE OnDisk(b)'
  BY <1>2, <1>16 DEF Reuse
<1>17. CASE Tick
  BY <1>2, <1>17 DEF Tick
<1>18. CASE UNCHANGED vars
  BY <1>2, <1>18 DEF vars
<1> QED
  BY <1>5, <1>6, <1>7, <1>8, <1>9, <1>10, <1>11, <1>12, <1>13, <1>14, <1>15, <1>16,
     <1>17, <1>18 DEF Next, AcquireStep, ReleaseStep

\* Every step keeps the invariant.
LEMMA NextLockInv == LockInv /\ [Next]_vars => LockInv'
<1> SUFFICES ASSUME LockInv, [Next]_vars PROVE LockInv'
  OBVIOUS
<1>1. VarsOK'
  BY NextVarsOK DEF LockInv
<1> QED
  BY <1>1, NextActors, NextFullIsPast, NextRecoversOnlyTheDead, NextOnDisk DEF LockInv

\* The invariant holds throughout every behaviour.
LEMMA LockInvariant == Spec => []LockInv
<1> QED
  BY InitLockInv, NextLockInv, PTL DEF Spec

\* Every variable has its type, and every lock that is judged, compared or unlinked was
\* read, or is the attempt's own in its release (TypeOK), whatever the constants are.
THEOREM TypeCorrect == Spec => []TypeOK
<1>1. LockInv => TypeOK
  BY DEF LockInv, TypeOK
<1> QED
  BY <1>1, LockInvariant, PTL

\* Two attempts hold the lock only if an unlink hit a file that was not the one
\* that had been read, or the grace period ran out on a creator still writing;
\* otherwise the holder's file is at the path; and a recovery that read a
\* complete lock is always after one whose attempt has ended.
THEOREM Safety == Spec => [](SafeUnlessBreached /\ HolderIsOnDisk /\ RecoversOnlyTheDead)
<1>1. LockInv => SafeUnlessBreached /\ HolderIsOnDisk /\ RecoversOnlyTheDead
  BY OnDiskExcludes DEF LockInv
<1> QED
  BY <1>1, LockInvariant, PTL

\* A holder's own lock file is at the path for as long as it holds the lock
\* (HolderIsOnDisk), for any number of attempts under any faults.
THEOREM HoldersStayOnDisk == Spec => []HolderIsOnDisk
  BY Safety, PTL

\* A recovery goes after a lock whose attempt has ended (RecoversOnlyTheDead), whatever
\* pids are recycled.
THEOREM RecoveryIsAfterTheDead == Spec => []RecoversOnlyTheDead
  BY Safety, PTL

\* A complete lock file disappears only by its owner's release or after its attempt has
\* ended (OnlyOwnerRemoves): an unlink that does no harm is of the file that was read,
\* and that is the owner's own or that of a dead one.
THEOREM RemovalIsByTheOwner == Spec => OnlyOwnerRemoves
<1> DEFINE Removal ==
      \A b \in Attempts : file = Own(b, TRUE) /\ file' # file /\ breach' = {} =>
                          pc[b] = "relunlink" \/ pc[b] \in Exited
<1>1. ASSUME LockInv, [Next]_vars PROVE Removal
  <2> SUFFICES ASSUME NEW b \in Attempts, file = Own(b, TRUE), file' # file, breach' = {}
               PROVE  pc[b] = "relunlink" \/ pc[b] \in Exited
    OBVIOUS
  <2>1. file # NoFile /\ file.full /\ file.by = b /\ \A a \in Attempts : file # Own(a, FALSE)
    BY OwnIsAFile DEF Own
  <2>2. ASSUME NEW a \in Attempts, NEW from, NEW leave, Unlink(a, from, leave)
        PROVE  pc[a] = from /\ seen[a] = Own(b, TRUE)
    BY <2>1, <2>2 DEF Unlink, Harm
  <2>3. ASSUME NEW a \in Attempts, Unlink(a, "unlink", "create")
        PROVE  pc[b] \in Exited
    <3>1. pc[a] = "unlink" /\ seen[a].full /\ seen[a].by = b
      BY <2>1, <2>2, <2>3
    <3> QED
      BY <1>1, <3>1 DEF LockInv, RecoversOnlyTheDead
  <2>4. ASSUME NEW a \in Attempts, Unlink(a, "relunlink", "done")
        PROVE  pc[b] = "relunlink"
    <3>1. pc[a] = "relunlink" /\ seen[a] = Own(b, TRUE)
      BY <2>2, <2>4
    <3>2. seen[a] = Own(a, TRUE)
      BY <1>1, <3>1 DEF LockInv, HoldersSawTheirs, Holders, Holding
    <3> QED
      BY <3>1, <3>2 DEF Own
  <2>5. ASSUME NEW a \in Attempts, Create(a) \/ Write(a) \/ WriteFails(a) PROVE FALSE
    BY <2>1, <2>5 DEF Create, Write, WriteFails
  <2> QED
    BY <1>1, <2>3, <2>4, <2>5
    DEF Next, AcquireStep, ReleaseStep, Start, CreateFails, WriteFails, Read, Judge, Reread,
        WaitStep, Release, Crash, Reuse, Tick, vars
<1> QED
  BY <1>1, LockInvariant, PTL DEF Spec, OnlyOwnerRemoves

------------------------------------------------------------------------------
(* Without crashes, failed system calls and stalls.                          *)

Quiet == Faults \cap {"crash", "io", "stall"} = {}

\* Every process lives, nothing is ever judged stale, and an empty lock file is
\* one whose creator is about to write it, too young to be abandoned.
QuietInv ==
  /\ breach = {}
  /\ \A p \in Pids : alive[p]
  /\ \A a \in Attempts : pc[a] \notin {"recheck", "unlink"}
  /\ file # NoFile /\ ~ file.full => pc[file.by] = "write" /\ age = 0
  /\ \A a \in Attempts : pc[a] = "judge" /\ ~ seen[a].full => age = 0

\* Nothing is breached to begin with.
LEMMA InitQuiet == Init => QuietInv
  BY DEF Init, QuietInv

\* Without crashes, failed calls and stalls no unlink hits a lock that is in use.
LEMMA NextQuiet == ASSUME Quiet, LockInv, QuietInv, [Next]_vars PROVE QuietInv'
<1>0. VarsOK /\ HoldersSawTheirs /\ SeenIsAFile /\ WriterIsOnDisk /\ HolderIsOnDisk
  BY DEF LockInv
<1>f. \A b \in Attempts : Own(b, TRUE).full /\ ~ Own(b, FALSE).full /\ Own(b, FALSE).by = b
  BY DEF Own
<1> USE <1>0 DEF VarsOK, QuietInv
<1>1. ASSUME NEW a \in Attempts, Start(a) PROVE QuietInv'
  BY <1>1, FileFields DEF Start, Goto
<1>2. ASSUME NEW a \in Attempts, Create(a) PROVE QuietInv'
  <2>1. CASE file = NoFile
    <3>1. file' = Own(a, FALSE) /\ age' = 0 /\ pc'[a] = "write"
      BY <1>2, <2>1 DEF Create, Goto
    <3>2. \A b \in Attempts : pc'[b] \notin {"recheck", "unlink"}
      BY <1>2 DEF Create, Goto
    <3> QED
      BY <1>2, <1>f, <3>1, <3>2 DEF Create
  <2>2. CASE file # NoFile
    BY <1>2, <2>2, FileFields DEF Create, Goto
  <2> QED
    BY <2>1, <2>2
<1>3. ASSUME NEW a \in Attempts, CreateFails(a) \/ WriteFails(a) PROVE QuietInv'
  BY <1>3 DEF CreateFails, WriteFails, Quiet
<1>4. ASSUME NEW a \in Attempts, Write(a) PROVE QuietInv'
  <2>1. file = Own(a, FALSE) /\ file' = Own(a, TRUE) /\ age' = 0
    BY <1>4 DEF Write, WriterIsOnDisk
  <2> QED
    BY <1>4, <1>f, <2>1 DEF Write, Goto
<1>5. ASSUME NEW a \in Attempts, Read(a) PROVE QuietInv'
  BY <1>5, FileFields DEF Read, Goto
<1>6. ASSUME NEW a \in Attempts, Judge(a) PROVE QuietInv'
  <2>1. seen[a] \in Files /\ PidOf[seen[a].by] \in Pids
    BY <1>6, FileFields, ConstantsAssumption DEF Judge, SeenIsAFile
  <2>2. pc[a] = "judge" /\ ~ Stale(a)
    BY <1>6, <2>1, ConstantsAssumption DEF Judge, Stale
  <2> QED
    BY <1>6, <2>2, FileFields DEF Judge, Goto
<1>7. ASSUME NEW a \in Attempts,
             \/ Reread(a, "recheck", "unlink", "create")
             \/ Reread(a, "relcheck", "relunlink", "done")
      PROVE  QuietInv'
  BY <1>7, FileFields DEF Reread, Goto
<1>8. ASSUME NEW a \in Attempts,
             \/ Unlink(a, "unlink", "create")
             \/ Unlink(a, "relunlink", "done")
      PROVE  QuietInv'
  <2>1. pc[a] = "relunlink" /\ file = Own(a, TRUE) /\ seen[a] = Own(a, TRUE)
    BY <1>8 DEF Unlink, HoldersSawTheirs, HolderIsOnDisk, Holders, Holding
  <2>2. Harm(a) = {}
    BY <2>1, <1>f DEF Harm
  <2>3. breach' = {} /\ file' \in {file, NoFile} /\ UNCHANGED <<age, alive, seen>>
    BY <1>8, <2>1, <2>2 DEF Unlink
  <2>4. pc' = [pc EXCEPT ![a] = "done"]
    BY <1>8, <2>1 DEF Unlink, Goto
  <2> QED
    BY <1>f, <2>1, <2>3, <2>4
<1>9. ASSUME NEW a \in Attempts, WaitStep(a) \/ Release(a) PROVE QuietInv'
  BY <1>9, FileFields DEF WaitStep, Release, Goto
<1>10. ASSUME NEW p \in Pids, Crash(p) \/ Reuse(p) PROVE QuietInv'
  BY <1>10 DEF Crash, Reuse, Quiet
<1>11. CASE Tick
  BY <1>11, FileFields DEF Tick, Quiet, Brief
<1>12. CASE UNCHANGED vars
  BY <1>12 DEF vars
<1> QED
  BY <1>1, <1>2, <1>3, <1>4, <1>5, <1>6, <1>7, <1>8, <1>9, <1>10, <1>11, <1>12
  DEF Next, AcquireStep, ReleaseStep

\* The windows are hit only after a crash, a failed call or a stall: without them the
\* lock excludes, also where an open file cannot be unlinked (MutualExclusion).
THEOREM QuietExcludes == ASSUME Quiet PROVE Spec => []MutualExclusion
<1>1. Init => QuietInv
  BY InitQuiet
<1>2. LockInv /\ QuietInv /\ [Next]_vars => QuietInv'
  BY NextQuiet
<1>3. LockInv /\ QuietInv => MutualExclusion
  BY OnDiskExcludes DEF LockInv, QuietInv, SafeUnlessBreached
<1> QED
  BY <1>1, <1>2, <1>3, LockInvariant, PTL DEF Spec

------------------------------------------------------------------------------
(* The refinement of Mutex. *)

\* Writing its lines makes an attempt the only holder, unless the lock is broken; the
\* end of a release and a crash make holders leave; an unlink may break the lock; every
\* other step keeps the holders.
LEMMA MapsToMutex ==
  ASSUME LockInv, [Next]_vars PROVE [Lock!Next]_<<Holders, breach # {}>>
<1>0. VarsOK /\ WriterIsOnDisk /\ HolderIsOnDisk
  BY DEF LockInv
<1> DEFINE Same == UNCHANGED <<Holders, breach # {}>>
<1> USE <1>0 DEF VarsOK, Holding
<1>1. ASSUME NEW a \in Attempts, Write(a) PROVE Lock!Enter(a)
  <2>1. Holders' = Holders \cup {a} /\ UNCHANGED breach
    BY <1>1 DEF Write, Goto, Holders
  <2>2. ASSUME breach = {} PROVE Holders = {}
    <3>1. file = Own(a, FALSE)
      BY <1>1, <2>2 DEF Write, WriterIsOnDisk
    <3>2. \A b \in Attempts : Own(b, TRUE) # Own(a, FALSE)
      BY DEF Own
    <3> QED
      BY <2>2, <3>1, <3>2 DEF Holders, HolderIsOnDisk
  <2> QED
    BY <2>1, <2>2 DEF Lock!Enter
<1>2. ASSUME NEW a \in Attempts, Reread(a, "relcheck", "relunlink", "done") PROVE Lock!Leave
  BY <1>2 DEF Reread, Goto, Holders, Lock!Leave
<1>3. ASSUME NEW a \in Attempts,
             Unlink(a, "unlink", "create") \/ Unlink(a, "relunlink", "done")
      PROVE  Lock!Leave \/ Lock!Break
  <2>1. Holders' \subseteq Holders /\ breach \subseteq breach'
    BY <1>3 DEF Unlink, Goto, Holders
  <2>2. CASE breach' = breach
    BY <2>1, <2>2 DEF Lock!Leave
  <2>3. CASE breach' # breach
    BY <2>1, <2>3 DEF Lock!Break
  <2> QED
    BY <2>2, <2>3
<1>4. ASSUME NEW a \in Attempts, Start(a) \/ Create(a) \/ CreateFails(a) \/ WriteFails(a) PROVE Same
  BY <1>4 DEF Start, Create, CreateFails, WriteFails, Goto, Holders
<1>5. ASSUME NEW a \in Attempts, Read(a) \/ Judge(a) PROVE Same
  BY <1>5 DEF Read, Judge, Goto, Holders
<1>6. ASSUME NEW a \in Attempts, WaitStep(a) \/ Release(a) PROVE Same
  BY <1>6 DEF WaitStep, Release, Goto, Holders
<1>7. ASSUME NEW a \in Attempts, Reread(a, "recheck", "unlink", "create") PROVE Same
  BY <1>7 DEF Reread, Goto, Holders
<1>8. ASSUME NEW p \in Pids, Crash(p) PROVE Lock!Leave
  BY <1>8 DEF Crash, Holders, Lock!Leave
<1>9. CASE Tick \/ UNCHANGED vars \/ \E p \in Pids : Reuse(p)
  BY <1>9 DEF Tick, Reuse, vars, Holders
<1> QED
  BY <1>1, <1>2, <1>3, <1>4, <1>5, <1>6, <1>7, <1>8, <1>9
  DEF Next, AcquireStep, ReleaseStep, Lock!Next

\* The lock file implements a mutual exclusion lock that breaks only in the windows of
\* _remove_if_unchanged and of the grace period, under any faults (ImplementsMutex).
THEOREM Implements == Spec => ImplementsMutex
<1>1. Init => Lock!Init
  BY DEF Init, Lock!Init, Holders, Holding
<1>2. LockInv /\ [Next]_vars => [Lock!Next]_<<Holders, breach # {}>>
  BY MapsToMutex
<1> QED
  BY <1>1, <1>2, LockInvariant, PTL DEF Spec, ImplementsMutex, Lock!Spec
==============================================================================
