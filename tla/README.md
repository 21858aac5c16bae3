# Verification of the System Locker Simple client

TLA+ modules that model the stateful core of `systemlocker_simple`, the TLC
configurations that check them on small instances, and TLAPS proofs of their
main theorems for every value of the constants. Source references are relative
to `src/src/systemlocker_simple/` unless they name `README.md` or `SECURITY.md`.

Contents: [1 The system](#1-the-system) | [2 Modules](#2-modules) |
[3 Runs](#3-runs) | [4 What disagrees with the code](#4-what-disagrees-with-the-code) |
[5 Proofs](#5-proofs) | [6 Limits](#6-limits) | [7 Plan](#7-plan)

## 1 The system

The package is a client library. A program creates a `Client`, authenticates a
user against a server with a key or a password, and sends along a hardware
identity (HWID). The HWID is not a plain hash: a random key is shared over the
hardware factors of the machine with a threshold scheme, so that the same key
comes out again when some of them have changed. The helper data that makes this
possible, and a random per-machine secret, are kept in a store that all programs
of the user on that machine use.

| component | source | state it keeps | operations |
|---|---|---|---|
| Storage lock | `slhwid/_store.py:23-122` | a lock file with a pid, a nonce and a time | acquire, recover a stale lock, release |
| Directory store | `slhwid/_store.py:147-205` | `hwid-device.bin` (helper), `slstore.bin` (secret) | read and atomically write each |
| Registry store | `slhwid/_store.py:208-313` | the same two values under HKLM or HKCU | the same, with a choice of hive that the store keeps (`_selected_root`) |
| Device identity | `slhwid/__init__.py` | the `Session`: key, factors, hard locks, expected helper | `prepare` (enroll or recover), `Session.commit` |
| Threshold core | `slhwid/core.py` | none (pure) | threshold, build shares, recover, refresh, serialize and parse |
| Factors | `slhwid/core.py` | none (pure) | normalise, group into slots, rename hard locks |
| Client | `client.py` | `_lock`, the cached session, the HTTP session | authenticate, intents, management |
| Invisible Folder | `invisible_folder.py` | a download destination | revision, download |
| Transport, errors, SSO | `transport.py`, `errors.py`, `sso.py` | none | one request; tables; a link |
| Factor collectors | `slhwid/_collect_*.py` | none | read the machine's signals |
| Legacy hardware hash | `hwid/` | none | one hash of the machine's signals |

How they interact: a thread of a program calls `Client.authenticate_*`. Under
`Client._lock` the first call prepares a session: it collects the factors, takes
the storage lock, reads the store, and enrolls or recovers. The HWID goes to the
server; when the server has accepted it, the thread calls `Session.commit`,
*without* the lock of the Client. A commit takes the storage lock again,
compares the helper on disk with the one that `prepare` read, and re-shares the
key over the factors seen now. Other programs do the same at any time, and
any of them may die between any two system calls. A call that asks for an
expiration or resets the HWID prepares a session too, but commits nothing;
variables, the management API and Invisible Folder do without the device.

Where it is hard, and what makes each part correct:

- **Storage lock.** Exclusion among processes *and* threads by a file that is
  created exclusively; recovery of the lock of a dead process by reading,
  judging and unlinking in separate system calls; a grace period for a lock that
  has no owner in it; a deadline. Correct when at most one is inside, only a
  dead owner's lock is recovered, an abandoned lock is recovered, and every
  attempt ends.
- **Device identity.** Two programs enroll at once, or enroll anew (forced)
  while a session of the retired identity is alive; programs want different hard
  locks; factors change between enrollment, recovery and commit; a crash hits
  between the two writes of an enrollment; a machine comes from the legacy
  schema. Correct when all programs and the server know one identity, a retired
  key is never written back, secret and helper stay a pair, hard locks are
  neither dropped nor given another value, and every helper that is written can
  be read and tolerates the losses the README promises.
- **Registry store.** A helper and its secret are two values in one of two
  hives; one hive is shared by all users while the lock is each user's own, and a
  program without the right to write it falls back to the other. Correct when
  each hive is a pair of one generation, whichever program ends wherever, and what
  a program has written is what the next one finds.
- **Threshold core.** The arithmetic at the boundary: few slots, many hard
  locks, the subset search, the diagnosis of a failed recovery. Correct when any
  threshold of unchanged shares gives the key and no fewer do, exactly the slots
  that changed are dead, and whoever is blamed for a refusal deserves it.
- **Client threads.** One session shared by threads; `prepare` waits for the
  storage under the lock of the Client; `commit` runs outside it and reads and
  writes `_committed` and `_key` between the steps of other threads. Correct when
  all requests carry one HWID, the key does not outlive the commit, every call
  ends, and a successful authentication refreshes the helper.
- **Invisible Folder.** The revision and the content come in two requests to a
  server that publishes in between, and the destination is overwritten in place by
  threads that may fail or die. Correct when no update is missed: a record that
  says what the server has means that the file is there.

The hazards of this code, each at its line and with the properties that would
catch it, are listed in `PROJECT.json`.

## 2 Modules

```
Mutex <--implements-- StorageLock          Factors <- Recovery <- DeviceIdentity
                          |                             | |            |   |
                 StorageLockProofs                      | |            |   +--implements--+
                                             RecoveryProofs <- DeviceIdentityProofs       |
                                                        |                                 v
                Sharing <- Interpolation <- SharingProofs                             PairStore
                                                                                          ^
                  ClientThreads <- ClientThreadsProofs                                    |
                                                             RegistryStore --implements---+
                  InvisibleFolder <- InvisibleFolderProofs         |
                                                             RegistryProofs
```

`Sharing` extends `Recovery`, and `SharingProofs` also `RecoveryProofs`. Each `MC` module
gives TLC the instances of the module it is named after. The two
upper layers use the lock as a lock: `DeviceIdentity` and `ClientThreads` have one
holder of the storage, which `StorageLock` justifies until it is breached, as the
abstract lock of `Mutex` says. `RegistryStore` has a lock for each user.

### StorageLock (and Mutex)

One *attempt* is one call of `_acquire_lock` with its nonce, and belongs to a
process; several attempts of one process are its threads. Each system call is a
step. `file` is the directory entry of the lock: who created it, and whether the
three lines are in it yet.

| code | action |
|---|---|
| `os.open(O_CREAT, O_EXCL)` (exists / other error) | `Create` (second disjunct / `CreateFails`) |
| write of the three lines; `OSError` of it, or of a flush or close after a complete write | `Write`; `WriteFails` (first, second disjunct) |
| `_read_lock` | `Read` |
| `_process_is_alive`, the age test | `Judge` with `Stale` |
| `_remove_if_unchanged`: read and compare, then `os.unlink` | `Reread`, `Unlink` |
| deadline, sleep | `WaitStep`; time is `Tick` |
| the release function | `Release`, `Reread`, `Unlink` |
| the operating system | `Crash`, `Reuse` (a pid is given again), `Denied` |

`Faults` says which faults an instance admits. `breach` is a history variable: it
records that an unlink hit a file other than the one that was read ("swap"), or
the file of a creator that was suspended between creating and writing it for the
whole grace period ("grace"). A write is taken as one step; the lock file's time
stamp, which the code uses only as its age, is `age`.

`Mutex` is a lock that excludes until it breaks and promises nothing then. Its
`broken` is `breach # {}`, so that `ImplementsMutex` says at once that the protocol is
a lock and that it fails only through the two windows.

### Factors and Recovery

Pure operators. A factor value is a number: missing, or one of a few values,
because only presence and change matter. The value of a grouped slot is the
values of its members. `Factors` has both schemas, the projection of raw signals
to slots and `MapMandatory`, the renaming of hard locks. `Recovery` has the
threshold formula, when a key can be shared, what a helper must satisfy to be
parsed, and when a recovery succeeds. The field arithmetic is replaced by its
result: a set of points yields the key exactly when it is as large as the
threshold and each point comes from the enrolled value; a helper therefore
records the enrolled values. `Sweeps` stands for the search of
`_find_recovering_subset` and needs all present hard locks among the points.

### Sharing

The arithmetic itself, over any prime and any functions for the hash and the
random source: `BuildShares` (salts, coordinates, Horner's rule), `KeyFromPoints`
and `EvaluateAt` (Lagrange), `RecoveringSubsets` (the sweep over all sets of
points), `Blamed` and `RecoverCore`, and around them a machine that enrolls,
recovers, refreshes and changes. `Recovery` is the reference definition:
`MatchesReference` compares every result of `RecoverCore` with it, on the helper that
`enrolled` remembers. The code takes the first set that gives the key; here it is
any. The check word is the key it is a hash of. `MaxDraws` bounds the numbers that the
random source has, so an instance is over when it has given them all. `top` is a history
variable: the leading coefficients of the helper's polynomials, which `ThresholdIsExact`
needs to say when one share fewer gives the key.

Two things that chance may do are in the model and have names. Two coordinates may be
one (`~Distinct(Common, salt)`), and `pow` raises, in the sweep or in that of the diagnosis
(`Raises`). Or a set with a changed point may give the key, or a changed point may be on
the curve (`~NoCoincidence`). `MatchesReference` and `BlameIsDeserved` except what they must; `KeyComesBack`
holds whatever fits: a key that comes out is the one that was shared.

### DeviceIdentity

An *app* is a program with one `Client`, which may end anywhere and start again.

| code | action |
|---|---|
| `collect` before the lock | `Collect` |
| `with store.lock()` of `prepare`, of `commit`; busy | `LockToPrepare`, `LockToCommit`; `LockBusy` |
| enrolling: `_ensure_slstore`, then share and write | `EnsureSecret`, then `EnrollHelper` |
| recovering | `RecoverSession`, with `Unavailable`, `Crowded`, `NewSlot` |
| every error of `prepare` (one after the helper is written: `EnrollHelper`, then `Exit`) | `PrepareRaises` |
| a request that the server accepts, its answer perhaps lost | `Authenticate` |
| `Session.commit` under the lock | `Commit` |
| end of a process, or an `OSError` out of a file operation | `Exit` |
| the world: hardware, lost or damaged files, HWID reset | `Drift`, `Tamper`, `ResetClaim` |

`synced` stands for `_expected_helper`: the sessions for which the helper file is
byte for byte the one they read. `Share` draws fresh randomness, so a re-share is
a different file even over the same factors, and empties `synced`.

### PairStore, and what implements it

What both stores promise: of each of some stores, the secret is drawn once, when
there is neither secret nor helper, and never replaced; a helper is bound to the
secret beside it; a store that is `broken` promises nothing. `DeviceIdentity` is one such
store, broken by a lost or damaged file (`ImplementsPair`); `RegistryStore` is one for
each hive.

### RegistryStore

Programs of different users and rights over HKLM and the HKCU of each user. Each
access to a hive that another user's program can change is a step.

| code | action |
|---|---|
| `RegistryStore.lock`, a file of the user | `Launch`, `StartCommit`, `Unlock` |
| `_select_root`: the helper in HKLM, then the other three values | `Peek`, then `Select` with `Selected` |
| `read_helper`; `read_slstore` and recovery | `ReadHelper`; `Recover` or `Refuse` |
| `_ensure_slstore`: look for a secret, or draw and write one | `Ensure` with `SelectedSecret`, then `Draw` |
| `_write_selected`: the pinned hive, HKLM, HKCU | `Target` |
| share and `write_helper`, of an enrollment and of a commit | `Enroll`; `Compare`, `Refresh` |
| end of a program, or an error and another try | `Exit` |

The three reads of `Select` after the first are one step: the secret of HKLM is
the only one among them that another user can change. A hive that is denied is
denied for all of a program's life (`Elevated`). `breach` records that HKLM was
written while a program of another user was in a locked block, or that a helper
for HKLM went to HKCU. Recovery succeeds exactly when the secret it finds is that of
the helper; hardware and server are `DeviceIdentity`'s.

### InvisibleFolder

Calls of `download_if_new` and `download_to_file` by the threads of one program, a
server that publishes, and an application that keeps the revision it was told.
Revision and content of one publication are one number.

| code | action |
|---|---|
| `metadata` and the revision in it; its errors | `Current`, `New`; `MetadataFails` |
| `download`; its errors | `Download`; `DownloadFails` |
| `Path.write_bytes`: open, write, `OSError` | `Open`, `Write` or `WriteDirect`; `OpenFails`, `WriteFails` |
| the result reaches the application | `Record` |
| server; end of the program | `Publish`; `Crash` |

A body may be cut short (`Download`): `_read_bounded` compares its length with
nothing. A download into memory shares nothing and is not modelled. `breach` records
the three ways in which an update can be missed: overlapping calls of one
destination, a direct download that fails half-way, and a short body.

### ClientThreads

The threads of one program over one `Client`. `lock`, `session`, `committed`,
`key` and `expected` are the attributes of the same names; `helper` counts
versions of the file, `identity` the HWID in it. `Resolve` and `Prepare` are
`_prepare_slhwid`; `Call` begins an authentication and `Ask` any other call, with the
HWID or without; `Post` and `Answer` are the request; `FetchSession` is
`_commit_slhwid`; `Check`, `Mark`, `Enter`, `Compare`, `Refresh` and `Wipe` are
the reads and writes of `Session.commit` in their order. `OtherEnters` and
`OtherLeaves` are another program. `PrepareRaises` may happen in any state: it
stands for a busy store, drifted hardware and a corrupt helper, which
`DeviceIdentity` tells apart, and for a `chmod` that raises after an enrollment has
written its helper (`_store.py:205`), so that the identity is there and no session is.

## 3 Runs

| run | instance | what it shows |
|---|---|---|
| `lock_faults` | 3 attempts in 2 processes (two are threads of one), `Wait` 1, `Grace` 4, every fault | `TypeOK`, with what an attempt judges, compares and unlinks having been read by it; two holders only after a recorded breach (`SafeUnlessBreached`); a recovery is only after a lock whose attempt has ended (`RecoversOnlyTheDead`); a holder's file is at the path (`HolderIsOnDisk`) and goes only by its own release (`OnlyOwnerRemoves`); the protocol is a lock that breaks with the breach (`ImplementsMutex`) |
| `lock_live` | the same, `Grace` 2, crash and stall, fair | every attempt ends (`Settles`); an abandoned lock does not outlive the next attempt (`AbandonedIsRecovered`) |
| `lock_race` | 3 processes, crash only | violates `MutualExclusion` |
| `lock_leak` | 2 attempts, denied unlinks only | violates `ReleaseRemoves` |
| `identity` | 2 apps, one of which locks 8 of 9 slots; 2 keys, 1 drift of three signals, one of which appears, 1 lost or damaged file; new machine or legacy helper | `TypeOK`, `OneIdentity`, `RetiredStaysRetired`, `ImplementsPair`, `HelperParses`, `ToleratesTwo`, `PendingIsHonest`, `LocksNeverWeaken`, `LocksAbsorbNothing` |
| `identity_migration` | legacy helper with `gpu_id` locked, the monitor drifts | violates `MigrationAbsorbsNothing` |
| `threads` | 3 threads, 1 call each of any kind, another program takes the storage twice, fair | `TypeOK`, `OneHwid`, `KeyIsGone`, `RefreshedUnlessRaced`, `Returns` |
| `threads_race` | 2 threads, 1 call each, no other program | violates `QuietlyReabsorbed` |
| `registry` | an elevated and an ordinary program of one user, an elevated one of another; 3 secrets, 3 helpers written | `TypeOK`; each hive is a pair until it is breached (`ImplementsPairs`); no refusal before a breach (`RefusedOnlyWhenBreached`); nobody enrolls unasked where a helper is (`EnrollsOnlyWhenNone`); a commit replaces its own helper (`CommitReplacesItsOwn`); what was written is selected next (`WritesAreReadNext`) |
| `registry_split` | the two programs of one user, 1 secret, 2 helpers written | violates `PairIsOneGeneration` |
| `folder` | 3 calls, 2 revisions, symmetric in the calls, deadlock checked | `TypeOK`; `NothingIsMissed` and `UpdatesMoveForward` but for a recorded breach; every error but `LOCAL_FAILURE` leaves the destination alone (`OnlyLocalFailureHurts`) |
| `sharing` | 9 slots or 8, field of 10007, keys of 2 numbers, 1 or 2 hard locks, 3 changes, 26 numbers drawn, which is 2 helpers | `TypeOK`; `MatchesReference`; `KeyComesBack`; `BlameIsDeserved`; `ThresholdIsExact` |

**Bounds, and why they suffice.** Three attempts are the least with a dead owner
and two recoveries that compete; two processes with three attempts put two
threads in one process and one outside. `Wait` 1 makes an attempt try, wait, and
time out; `Grace` beyond `Wait` lets one attempt give up on an ownerless file and a
later one remove it. Two keys make one retired and one current identity, and one
drift and one lost file make each of the code's error paths reachable; every
property of that run is also proved for any number of them. Nine slots are the
boundary of the threshold formula where hard locks begin to decide it. The
machine has more raw signals than slots, so both grouped and direct slots occur.
Three threads are the least in which a third finds what the race of two left; the
two uses of the store by another program let it retire the identity before and
after this one's prepare. Two users, one of them with programs of both rights, are
the least in which both breaches of the registry occur; three secrets are one for each
hive, and three helpers an enrollment, one that replaces it and the refresh that
meets it. Three calls are two that overlap and one that comes after; two revisions
are an old and a new one. The field of 10007 is small enough for TLC's integers and
large enough that no wrong set of points gives a key by accident, with the hash and
the numbers of `MCSharing`; its nine slots give a threshold of seven, so that two or three
changes are either side of it, and with the first salt two coordinates collide, so
that the next is taken. All outcomes of `recover_core` are reached there, the
`ValueError` of two equal coordinates (`Raises`) included. Every safety property of the passing runs is also proved
for every instance (section 5).

**Deadlock.** `folder` checks for it. The other configurations say
`CHECK_DEADLOCK FALSE`: an attempt, a call
and an app end for good, and with the bounds a behaviour stops. That nothing
waits forever is said by `Settles` and `Returns`.

**Fairness.** `lock_live` assumes that an acquisition that is running keeps
running (weak fairness per attempt: the loop of `_acquire_lock` waits only in
bounded sleeps) and that time passes. No fairness is given to the holder: it may
never release, and `Settles` still holds thanks to the deadline. `threads`
assumes that a thread that is in a call gets to run (weak fairness of its steps):
the request has a timeout, and the wait for the storage has a deadline, which is
why `EnterBusy` and `PrepareRaises` are steps of the thread that may end its wait
whatever the other program does. The other program has no fairness, it may keep
the storage for good. The server need not answer favourably.

**Strength.** For each property of each passing run `PROJECT.json` names a
plausible bug in one definition (`mutants`) under which TLC finds the property
violated: a lock without `O_EXCL`, a loop that ignores its deadline, a `prepare`
outside the lock, a secret drawn anew, a program that puts its hard locks in place
of the helper's, a hive chosen by rights instead of the pin, a destination opened before
the request, a comparison left out, and so on.

## 4 What disagrees with the code

Each of these is a run that TLC ends with a counterexample, and a finding.

1. **Two recoveries of one dead lock** (`lock_race`, `_store.py:85`). Both read the
   dead lock and find it unchanged; the first unlinks it and creates its own; the
   second unlinks that one and takes the lock as well. The comparison is of the
   contents read, and the unlink is by path. `SafeUnlessBreached` shows that this
   window and the grace period are the only ways to two holders.
2. **A release that leaves the lock** (`lock_leak`, `_store.py:88`). Where an open
   file cannot be deleted, a release whose unlink meets a reader swallows the
   error. The process is alive, so nobody recovers its lock.
3. **Migration absorbs a change** (`identity_migration`, `slhwid/__init__.py:228`).
   The check that a promoted slot has not changed looks at locks added to those of
   the helper; a legacy lock on `gpu_id` already counts as `display_group`, so a
   changed monitor becomes part of the new hard lock. Within one schema the
   comment is right: `LocksAbsorbNothing`, proved.
4. **Two commits of one session** (`threads_race`, `slhwid/__init__.py:115`). The
   second commit finds `_committed` set and drops `_key` while the first waits for
   the storage; the first raises a `TypeError` that is swallowed, and the refresh
   is lost. `RefreshedUnlessRaced` shows that nothing else loses it.

5. **A helper away from its secret** (`registry_split`, `_store.py:284`). An ordinary
   program that has pinned HKLM, where an elevated one enrolled, cannot write it. Its
   enrollment or refresh falls back to HKCU with the helper alone, where nobody reads
   it while the pair in HKLM is complete: what the program reports as done is lost with
   its end, and a forced enrollment tells the server a HWID that no later launch has.

One more has no run of its own. `pending_refresh` tells "Whether drift, newly available
factors, or added hard locks need a refresh" (`slhwid/__init__.py:105`), but of a helper of
the legacy schema it does not tell of newly available factors (`:243`): a signal that
only the current schema has, the TPM's for one, is bound by the commit of a session that
reports nothing pending. So is the migration itself. `PendingIsHonest` therefore says
of both schemas that no hard lock is added and no enrolled signal differs, and only of the
current one that the factors are those of the helper.

What the models show beside these, without a line in the repository that says
otherwise: an error of the close after a complete write, like a denied unlink, leaves the
lock of a living process (`WriteFails`); a recycled pid keeps the lock of a dead one for as
long as the new process lives (`Reuse`); the lock of the registry store is a file of the user, so that elevated
programs of two users overlap in HKLM (`breach` of HKLM in `RegistryStore`); an elevated
enrollment by another user takes over from a user's complete pair in HKCU (the last
exception of `WritesAreReadNext`); an elevated program that dies between its two writes
leaves a secret in HKLM beside which an ordinary program of a new user enrolls into HKCU
on every launch without finding it again; two updates of one destination that overlap
may leave an old file under a new record (`breach` "overlap"), and so does a body cut
short; and a changed factor whose coordinate meets that of another slot makes
`recover_core` raise a `ValueError`, at odds of about 2^-61 a pair.

## 5 Proofs

All are checked by TLAPS with nothing assumed but the named `ASSUME`s of the
modules: `ConstantsAssumption` (each attempt has a process, `Grace` is positive),
`IdentityAssumption` (hard locks name slots or signals; legacy helpers could have
been written), `ThreadsAssumption` and `RegistryAssumption` (the model values differ,
each program has a user), `FolderAssumption` (there is a revision), `SharingAssumption` (finitely many slots;
0, which stands for a missing factor, is no value; hard locks name slots; hash and random source give numbers) and `PrimeAssumption` (nothing but 1
and P divides P). `QuietExcludes` has the
hypothesis that it names.

**StorageLockProofs**, for any attempts, processes and faults.
`TypeCorrect` and `Safety`, which is `SafeUnlessBreached`, `HolderIsOnDisk` and
`RecoversOnlyTheDead`, from the inductive invariant `LockInv`. Exclusion alone is
not inductive: that two attempts cannot hold follows from the file at the path
being each holder's own, and that this file stays from what a reader can have
read in the past: a complete lock that was once read belongs to an attempt that
has at least written it (`FullIsPast`). `StepShape` says
once, over all actions, what a step can do to the file and to what was read of
it; the conjuncts about what was read follow from it.
`NextOnDisk` is the heart: an unlink that hits the file of a writer or a holder is
either that holder's release or a breach.
`RemovalIsByTheOwner`: an unlink that is no breach is of the file that was read, and
that is the owner's own or that of an attempt that has ended.
`Implements`, under every fault: each step is a step of `Mutex` or a stutter, and one
that records the first breach is its `Break`. `QuietExcludes`: without crash, io and stall no
breach occurs (`QuietInv`), so that there is exclusion.

**RecoveryProofs**, for any number of slots and locks. `ThresholdBounds` (above
the number of hard locks, at most the number of slots, and two less than the
slots when three are optional and there are at least eight); `SharedHelperParses`; `TwoLossesAreTolerated`;
`ShareRecovers`; `CulpritIsTheChange` (a hard lock that the diagnosis blames is
the one that is not as enrolled).

**DeviceIdentityProofs**, for any apps, locks, hardware and bounds.
`Invariance` is the inductive invariant `IdentityInv`: the type invariant, `LockHeld`
(the locked sections exclude each other), `KeysSpare`, `HelperGood` (every helper
parses and has the threshold of its slots), `SyncedAgree` (a session whose
expected helper is on disk agrees with it on key, secret and locks),
`EnrollsAlone`, `SecretKept`, `OneIdentity` and `RetiredStaysRetired`.
`SyncedAgree` carries the argument: a commit writes only from a synced session, so
what it writes has the helper's key, and no retired key comes back. From it
follow `TypeCorrect`, `OneIdentityAlways`, `RetiredForGood`, `SecretSafety`, `HelpersParse`,
`TwoMayFail` and `LocksStay`, and `IdentityImplementsPair`, the refinement of
`PairStore`: an app that is enrolling has a secret that is on disk. `LocksKeepTheirValues` needs
`LocksLive` on top: a synced session saw each of its hard locks with the value it was
enrolled with. `NothingPendingIsTrue` needs `HonestInv`: slots and collected factors are
functions on their names, so that agreeing on each slot is being equal; and for a helper of
either schema `ProjectionsAgree`, that two projections of the same signals agree on those
that both have.

**RegistryProofs**, for any users, programs and rights. `RegistryInv` has what the hives
keep (`HiveInv`: a helper has a secret, that of HKLM is never alone, and the helper of a
hive that was not breached is bound to the secret in it) and what each program knows at
each place (`ProgramInv`). What a program has read of HKLM stays true while it is in its
locked block, since a write by another user's program in that time is a breach of HKLM;
what it has read of the HKCU of its user stays true since the lock is that user's
(`OthersKeep`, `HivesKeep`; `OwnKeeps` is the step of a program itself). From it follow
`TypeCorrect`, `RefusalNeedsBreach`, `EnrollmentNeedsNone`, `CommitSafety`, `WritesAreFound` and the
refinement `RegistryImplementsPairs`.

**InvisibleFolderProofs**, for any number of calls and revisions. `NothingIsMissed` is not
inductive: `FolderInv` adds that a call which is about to write has a body not older than
the revision it will report, that this revision is newer than the record and the file
whole in between (`CallInv`), and that one call writes at a time while nothing overlaps
(`Alone`). From it follow `UpdateSafety`, `ErrorSafety` and `UpdateProgress`.

**ClientThreadsProofs**, for any number of threads and calls. `TypeCorrect`, `OneHwidAlways`,
`KeyIsWiped` and `RefreshIsNotLost`, from `ThreadInv`, which
adds how the phase of each thread relates to the session (`SessionInv`) and what
is known of the key and the helper until the commit that refreshes them is over
(`RefreshInv`).

**Interpolation**, for any prime and any number of points, is the mathematics of
secret sharing for the operators that `Sharing` is built of. `Sum`, `Product`, `Evaluate` and
`Inv` compute by recursion, and the induction theorems of the library, which
take an operator as a parameter, cannot be used. Induction is by the least counterexample instead:
`LeastSubset` and `LeastNat`, from the well-foundedness of the strict subsets of a finite
set, give to a set of counterexamples one with none below it. In the same way a
recursive function is known: `FoldExists` and `FoldIsUnique` show that a function that
satisfies the equation exists and that there is one only, so it is what CHOOSE takes.
On this rest:

- `FoldTakesAny`: a fold over a set whose steps commute does not depend on the order, so that
  `Sum` and `Product` (`SumStep`, `ProductStep`) can be taken apart at any element.
- `AddLaws`, `MulLaws`, `MulAssociates`, `MulDistributes`: the laws of `addmod`, `submod` and `mulmod`.
- `NoDivisorsOfZero`: the least divisor of zero would leave a smaller one as the remainder of P.
  `Fermat`: the multiples of a number are a permutation of the numbers but zero. `InvIsPower`: the
  squaring loop is the power P - 2. So `Inverses`, what `invmod` returns.
- `HornerStep`, `HornerExists`, `SyntheticDivision`: what the loop of `build_shares` passes through at a point are
  the coefficients of the quotient by it, and it ends with the remainder.
- `Lagrange`, by taking a point away and dividing by it: n points of a polynomial of degree n
  give its value at q but for the leading coefficient times the product of the
  differences. So one point more determines it (`EnoughPoints`), and n points do not
  unless its degree is lower (`TooFewPoints`).

**SharingProofs**, for any prime, hash, random source, slots, locks and machine. `EvaluateIsHorner`,
`SumsAreWeights` and `Signs` (in `Interpolation`) tie the code's three sums to it, with the
coordinates as they are computed (`CoordinatesArePlaced`: never zero, and apart where the
salt made them so). `EnoughGiveKey` and `FewerDoNot` follow. `CandidatesAre` says what a sweep
goes through, `SweepFinds` and `FindsSweep` that it finds something exactly when `Sweep` of
`Recovery` counts enough, and `Outcomes` in which ways `recover_core` ends. The inductive invariant
`SharingInv` is that the helper has the shares of what `enrolled` and `top` remember (`Shared`) and that
a result is what `RecoverCore` makes of helper and machine; the properties speak of the helper and
the machine of later states, and without `Shared` they would not follow. `WrittenIsShared` is its step for a
write, which for a refresh rests on `RecoveredKey`: the key that is shared again
is the one that was shared before. From it follow `SharingTypeCorrect`, `SharedKeyComesBack`,
`SharedThresholdIsExact`, `SharingMatchesReference` and `SharingBlameIsDeserved`. By `SharingMatchesReference` the
abstraction of `Recovery`, on which `DeviceIdentity` stands, is a theorem about the arithmetic, but for the
coincidences it names.

## 6 Limits

*Only model-checked:* `Settles`, `AbandonedIsRecovered` and `Returns` (liveness under
fairness is beyond TLAPS, as is ENABLED), and the five counterexamples. How seldom the
coincidences of `Sharing` are is not proved: that is a matter of probability, and of the
hash. That 2^61 - 1 is a prime is an assumption; TLC checks it of 10007.

*Abstractions:* the byte layouts and hashes of `core.py`; the
text rules by which a factor counts as sane; the temporary file behind an atomic
write and the permissions set on it; an accidental match of the 256-bit check
word; the wait for the storage within one step in `DeviceIdentity` and
`ClientThreads`. A `Session` is committed by one thread in `DeviceIdentity`, by
several in `ClientThreads`. `ClientThreads` has the "sl-hwid" mode: in the legacy mode, or with
a HWID of the caller's, there is no session and nothing to go wrong. In
`RegistryStore` no value is deleted, and an elevated program is never denied HKLM; in
`InvisibleFolder` the server does not go back to an earlier revision. A lock that hangs
in `_acquire_lock` because the unlink of a stale file is denied for ever is not covered by
`Settles`, whose instance has no denials.

*Not modelled:* errors and SSO links, which are tables and a string; the collectors and the
legacy hardware hash, which are pure input (`Drift` stands for all they may report).
Of the transport and the management API only what a call does to its caller is
modelled, and a HWID reset (`ResetClaim`); they keep no state.

## 7 Plan

Done: the storage lock over `Mutex`, which may break; the identity and the registry over
`PairStore`; the shares against `Recovery`; the threads of a Client with all of its calls;
Invisible Folder; their runs and theorems. What is left, in this order:

1. Composition: `DeviceIdentity` over a `Mutex` that breaks, to say what a
   breach can do to the identity, and what the comparison in `commit` still saves.
2. Proofs: that `ClientThreads` with one thread implements the `prepare` and `commit` of
   `DeviceIdentity`.
3. Liveness: a drift that a program authenticates with is in the helper
   eventually, when it commits alone.
4. The answers of the server: which errors leave a caller in doubt whether a reset or
   a claim has happened, once the server's side is documented.
