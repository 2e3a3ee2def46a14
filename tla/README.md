# A verification of jit

jit keeps secrets in a vault and hands them to tools one approved use at a time. Its heart is a
service (`jit-agent`, `src/internal/agent`) that holds the vault key in memory for the length of a
session, asks the human for approval, and serves many client processes at once over a socket. That
service is what these modules model first: it is concurrent, it holds locks across some steps and
not across others, it talks to a human who may take two minutes to answer, and its promises ("dropped
at every lock", "cannot outlive the session", "never served again") are all about orders of events.
Around it stand the commands and files that must not lose a secret whatever is interrupted: the
vault and its history, the changes of its master key, the mounts that serve secrets as files, and
the migration that moves secrets out of files and back.

Contents: [the system](#1-the-system) · [modules and code](#2-modules-and-code) ·
[what is checked](#3-what-is-checked) · [bounds and fairness](#4-bounds-and-fairness) ·
[what is proved](#5-what-is-proved) · [disagreements](#6-where-the-code-and-its-comments-disagree) ·
[not modelled](#7-what-is-not-modelled) · [plan](#8-plan)

## 1. The system

`PROJECT.json` lists every component with its status; here is what each keeps and does.

| component | state | operations | made hard by | correct when |
|---|---|---|---|---|
| **Session** `agent/session.go`, `events.go` | the vault key `mek`, `expiry`, `sessionStart`, `timerGen` and the idle timer, `lastDenied`, `challengeMu`, `discloseRefusals`; the event ring, the pending uses, `pendingLockNotify` | unlock, use, disclosed prompts (reveal, run, trust, grants), lock, history, idle timer | `mu` is never held across a prompt and `challengeMu` always is; a session has three ends (timer, explicit lock, collection by the next request); events are recorded under `mu` and delivered after it | a key is always watched by a timer and never handed out past its bounds; unlock and lock alternate in history; every event reaches the file; refusals pause what they should |
| **Consent gate** `agent/consent.go`, `consent/*.go` | engine cache, pending flights, refusal counts, `clears`, `session`; trust roots | gate an unwrap, trust a run, clear at lock, clear the pause | a prompt is answered after the session it was asked in ended; single flight with waiters; the end of a session is dealt with in several steps | approvals and trust end with their session; one leader per class; every waiter is released |
| **AWS credential cache** `agent/awscache.go` | entry, expiry, fill proofs | get, put, clear, wipe at lock | bytes are shared with readers and zeroed in place | gone with the session |
| **Process grants** `agent/grant.go` | `grants`, `grantTimers` | create, extend, revoke, serve (`timedUnwrap`), list and prune, expiry timers | ancestry is read outside `grantMu`, pids are given out again, a timer decides in one critical section and ends in another | answers its own process tree only, ends once, for good, and by itself |
| **Standing grants** `agent/standing.go`, `grantmove.go`, `grantorphans.go` | the ledger file, keys in the key stores, `standing`, cached keys | create, serve, revoke, save, stop; at start: load, move keys, clean up orphans | crashes, failed writes and deletes, snapshots under one lock and writes under another | a revoked grant is never opened again; a grant's only key is never gone; leftovers go |
| **Subscriptions** `agent/subscribe.go` | subscribers with bounded channels | subscribe, publish, hang up a laggard | overflow in the middle of a stream | a gap is never silent |
| **AI jobs** `agent/job*.go`, `internal/job` | `jobs`, `jobs.json`, job keys, `jobRunning` | allow, run, remove, carry to a setting, stop | the caller writes the folder and the vault while a run or a carry works on a copy; a save may fail on either side of a key call | a run uses only what was approved; one approval buys one try; a stop stays; keys are those of the jobs |
| **Vault** `internal/vault` | secret files, history versions | set, restore, rm, forget, prune | a kill between archive, rename and prune; a history at its limit; copies of a lost key in it | what is replaced can be restored; nothing goes but for room or by request |
| **Rekey and lost key** `vault/rekey.go`, `vault/lostkey.go`, `keychainwrap`, `secureenclave`, `cli/vaultrekey.go`, `cli/vaultmove.go` | keychain item, staged item, sealed files, the marker `rekey.inprogress`, the key of each envelope | rotate, move into the enclave and back, init over a lost key, resume | a kill, a failed operation or a reset enclave between any two steps | every envelope keeps a key that opens it; what was interrupted is finished |
| **Mounts** `internal/mount`, `cli/mount*.go` | Serve goroutines behind pipes, pointer files in their place, real content, attached runs, `mounts.yaml` | unlock, refresh and lock scans, resolve, attach and end a run, swap and restore, unmount, restart | a resolve that outlives a lock, a server that outlives its file, runs that share a mount, a death with the pointer file in place | no real content after a lock; no goroutine nobody can stop; the file is a pointer file exactly while a run needs it |
| **Migration** `internal/migrate`, `cli/migrate*.go` | the file, the vault entry, the manifest, the encrypted backup, the undo index, the registry | migrate, undo, remove, unmount, vault prune | each store is written on its own and nothing is rolled back; two projects derive the same names; the user edits | the user's text is somewhere it can be got back from; a mount serves its own file; an undo goes back to the user's text |
| **Sealed stores** `internal/sealstore` | sealed files, run directory | open, write, close, sweep | crash while open | sealed again |
| **Kept files** `atomicfile`, `jsonkeep`, `auditlog` | files | replace, append, trim | several processes | no torn file |
| the rest: CLI, client and protocol, key stores, lineage, scan, wraps, MCP, guard, 1Password | little or none | request and response, platform calls, pure scans | | |

How they meet. Every client call is a goroutine of the service (`Server.handle`). It may pass the
**gate** (which prompts), then needs the **session's** key (which may prompt), or is answered by a
**grant** without either. The end of a session is noticed by the session and dealt with by the
others: consent, trust and the AWS cache are cleared and the mounts are stopped, one after the
other, outside `mu`, by the timer goroutine, by the locking request, or by whoever collects a session
that was over and drains `pendingLockNotify`. Grants survive locks; standing grants also survive the
service and meet the **vault** when its own key moves to another store. **Jobs** have keys like
standing grants and are told of vault writes (`OnWrappedDEK`). **Mounts** follow the session by its
callbacks `OnUnlock`, `OnRefresh` and `OnLock`. The commands **rekey**, **migrate**, **unmount** and
**vault** are processes of their own: they meet each other and the service only in files, and the
marker and the registry are what they leave for one another. The hazards this makes are in
`PROJECT.json` under `hazards`, each at the line where it bites.

## 2. Modules and code

One action is one critical section: what the code does under one hold of one mutex, with everything
it calls. What it does between two is two actions, so any other goroutine may come between. A
goroutine's place in its function is `pc` (a request's `local[r].pc`), named for what it does next.

| module | lines of code it models |
|---|---|
| `SessionCore` | the session as critical sections on `Server.mu`: `touchSession`/`peekSession` (`Over`, `Live`, `Touch`), `collectIfDoneLocked` (`Collect`), `installSessionLocked` (`Install`), `armLockTimer` (`ArmLockTimer`, `LockDue`), `lockIfGen` (`DropKey`, `DropNow`, `DropTimed`), refusal (`Deny`). It is also a specification of its own, `CoreSpec`: the promise that Session and Gate keep |
| `Session` | the goroutines around it: `ensureUnlocked` and `ensureUnlockedFresh` (`EnsureTouch` … `Deliver`), the disclosed prompt (`DiscloseThrottled` … `DiscloseDeliver`) with `canOfferUnlock` and the adoption of its key, `lockIfGen` and the timer with their tails, `drainPendingLockNotify`, the pending uses and the ring, the durable file |
| `Gate` | `gateConsent` and the engine (`GateLookup`, `GateThrottle`, `GateJoin`, `GateWait`, `Remember`, `GateScore`, `GateFinish`, `EngineClear`), trust roots (`RecordTrust`, `GateDescent`), the AWS cache (`AwsLook`, `AwsRead`, `AwsFill`, `AwsClear`, `WipeAws`), and the session under them with all three of its ends |
| `ProcessGrants` | timed grants: `createGrant`, `armGrantExpiry`, `endGrantBy`, `extendGrant`, `revokeGrant`, `timedUnwrap`, `pruneGrants`, the timer callback; the root process that exits and whose pid goes to a stranger |
| `StandingGrants` | `createStandingGrant`, `standingUnwrap`, `revokeStanding`, `saveLedger`, `flushLedger`, `Close`; a crash anywhere; the start of the service: `SetGrantLedger` (`Load`), `moveStandingKeys` (`Settle`, `Reseal`, `MoveWrite`, `DropOld`), `DeleteOrphanGrantKeys`; moves of the vault's key and failures of every write and delete |
| `KeyCustody` | what every change of the master key promises: a key is destroyed only when no envelope is under it, and nothing is sealed under a destroyed key |
| `VaultKey` | the commands that change where the key rests, step by step: `vaultRekeyCmd` with `EnsureStagedRekeyMEK`, `Rewrap` and `PromoteStagedRekeyMEK` (`Rekey…`), `toEnclaveAs` (`In…`, `Copy…`), `toKeychain` (`Back…`), `keystore.Init` (`InitStart`, `InitKey`); and those that seal and remove envelopes meanwhile. It implements `KeyCustody` |
| `VaultHistory` | `setEnvelope`, `Restore`, `Remove`, `ForgetHistory` and `pruneHistory` on one secret, file by file, with `historyStamps` and the copies a lost key's record lists |
| `Mounts` | one mount: the scans of `start` (`EnsureServing`, `Claim`, `Capture`, `Decrypt`, `Install`), `stop` (`Lock`, `Invalidate`, `ClearRuns`), `revealForPID` (`Reveal…`, `SwapIn`, `Register`, `WatchRun`), `onRunExit` and `restoreSwappedMount`, `stopMount`, `jit unmount`, the loop of `mount.Serve` (`Serve…`), `startDecoyOnly` (`Restart`) |
| `Jobs` | `prepareJob` and `allowJob` (`Allow…`), `runJob` (`Run…`), `refuseJob`, `removeJob`, `carryMovedValue` (`Carry…`), `SetJobStore` with the cleanup of keys (`Restart`), and the caller's writes (`Edit`, `ChangeVault`, `ChangeSetting`) |
| `Migration` | `ApplyEnvFileSplit` (`StartMigrate`, `Claim`, `Store`, `WriteManifest`, `Backup`, `Record`, `Clear`, `Place`, `Register`), `migrateUndoRun` (`StartUndo`, `Unregister`, `Get`, `WriteBack`), `removeOneProject` (`StartRemove`, `Resolve`, `Delete…`, `Drop…`, `RemoveStore`), `unmountCmd`, `vaultPruneCmd` |
| `SessionCoreProofs`, `SessionProofs`, `GateProofs`, `ProcessGrantsProofs`, `StandingGrantsProofs`, `CommandProofs` (VaultKey with `KeyCustody`, VaultHistory, Migration), `MountsProofs`, `JobsProofs` | the theorems (section 5) |
| `MC…` | small instances: who asks for what, and which sets are symmetric |

Conventions. Time is an integer clock and deadlines are clock values. A key is the number of its
session (0 when locked), so "whose key is this" can be asked of any state. `challenger` is the holder
of `challengeMu`; a prompt is two actions, approved and refused, free at any moment while it is up.
A definition that begins with "Mutant of" is a plausible slip of the code (a dropped guard, a missing
reset, a swapped order), defined next to the one it would replace; `PROJECT.json` says which property
it breaks, so no property is there that the code could not violate.

*Session* keeps history the way the code does (the ring, the uses not yet in it, the parked lock
events and those each goroutine still owes the file) because its properties relate the two. *Gate*
leaves history out and keeps in every approval where it was given and where it was cached, which the
code does not store but its comments speak about. In *ProcessGrants* each grant carries the id of the
request that created it and there is one root process. In *StandingGrants* a record stands for all
secrets of a grant, sealed to one key, and which creation of the key that is, is its `gen`: a record
sealed to key 1 is lost if key 1 was deleted and key 2 made under the same id.

In the modules about commands (*VaultKey*, *VaultHistory*, *Migration*) an action is one write, rename
or removal of a file or one keychain or enclave operation with the code up to the next one, `at` (in
*VaultHistory* `stage`, in *Migration* the `pc` of a record) says which comes next, and a command may be killed before any of them: what it
holds in memory is gone, what is stored stays. In *VaultHistory* each of them may also fail and leave
more than it should: a version that is not removed, a prune that cannot look, a restore that stops
between its archive and its prune, an `rm` that deletes only some of the versions. A version of a secret is both its value and its
sealed bytes, since each write has a data key of its own. In *VaultKey* an envelope is the key it is
sealed under. In *VaultHistory* stamps are clock values, and a set that follows another within one
nanosecond does not happen. In *Migration* a file has one variable and a text of the user's is its
version number, growing with each edit.

*Jobs* and *Mounts* have handlers that overlap, as the service does. A job reads one secret at one
path; `Versions` are values of the vault and of the setting it may move to. Approvals are numbered:
the code tells them apart by the second they were given in, and each waits for a finger. Some
adjacent steps of a run or a carry that touch nothing anyone else reads are one action. `swaps` and
`guesses` count what a caller could try, in one life of the service. In *Mounts* there is one mount;
its Serve goroutine holds the pipe it opened by identity (`fd`, `onPath`), not by path; a pid is not
used again; what a reader of the pipe gets is not told apart beyond decoy or real.

## 3. What is checked

Runs that pass:

| run | question | properties |
|---|---|---|
| `session_safety` | three concurrent requests and the timer against one clocked session | `KeyIsWatched`: a key in memory always has an armed or firing timer of the current generation. `TimerEndsOnlyWhatIsOver`: a stale timer never ends a newer or still-live session. `HandedOutInsideBounds`: no key past idle expiry or ceiling, whether or not the timer noticed. `CoreSpec`: who opens a session finds it locked, even after queueing behind another prompt. `OfferStillTrue`: a prompt that offers to unlock is not overtaken. `HistoryIsWhole`: whichever of the three ends comes first, history has one lock for each unlock (`OneLockPerUnlock`), and each event is in the file or in exactly one pair of hands (`EventsConserved`). `PausesHold`: no prompt in a cooldown, and only a human lifts one. `TypeOK` |
| `session_liveness` | two requests under fair scheduling | `SessionEnds` (without another request), `WorkIsDone`: every request is answered, every event reaches the file |
| `gate_consent` | two tools on one class, one perhaps a trusted run, and a client that locks or unlocks | `AllowedInItsSession`: once the end of a session is dealt with, no approval cached in it and no trust recorded in it answers, however late that was. (The session in which trust was *declared* may be an earlier one: `TrustStaysInItsSession`, section 6.) `OneLeaderPerClass`. `CoreSpec` |
| `gate_aws` | two connections of one process, one that unwraps the AWS sign-in and one that fills the cache, one after the other or at once, while another process unwraps too, reads, clears or locks | `AwsDroppedAtLocks`: what was filled before a lock is gone after it, and a late fill finds its proof gone (with one exclusion, `overtaken`, below). Under fairness `EveryRequestAnswered`, followers of a failed leader included |
| `grants` | one grant, a client that extends it, one that extends it too or uses, lists or revokes it, its process that may exit and its pid that may be recycled | `AnswersOnlyItsTree`, `EndedForGood`, `WatchedUntilEndedOnce`: a live grant has a timer that will end it, and none is ended twice (with one exclusion, `crossed`, below). Under fairness `GrantsEnd`, a moved deadline included. `TypeOK` |
| `standing` | an old and a new grant, created, served, revoked, with a stop, two crashes, a move of the vault's key and one fault anywhere | `EndedIsNeverOpened`: what was revoked, or refused at its creation, is not opened again, not after a restart either. `LedgerAndCacheFollow`: an older snapshot never overwrites a newer one, and no key stays cached. `KeyOfAGrantIsKept`: never is the only key of a grant gone. `LeftoversGo`: a start without a fault leaves no key nothing names |
| `vault_key` | rotations, moves, init and writes on two envelopes, with two kills, two failed operations and two enclave resets anywhere | `CustodySpec`: every step of every command is a step `KeyCustody` allows. `VaultOpens`: where no marker stops the other commands, the store that will be opened has the key of all that is stored. Under fairness `InterruptedChangeFinishes` |
| `vault_history` | sets, restores, rm and forget of one secret with room for two versions, two kills, one failed operation and a lost key | `NewestIsWhatWasReplaced`; `OnlyOldVersionsGo`: never for room what a lost key's record lists or may have missed; `HistoryHolds`: a version asked for is not pruned before it is live (`RequestedVersionStays`), each kill and each failure leaves one version too many at most (`HistoryBounded`), and the next prune in which nothing fails takes them all (`PruneTidies`) |
| `mounts` | two handlers at once on one mount, two runs, two sessions, a death of the service | `RealIsOfTheSession`, `NoStrayServer`, `NoSelfDeadlock`; `SwapFollowsRuns`: a regular file while a run needs one (`SwapIsAFile`), and no pointer file left over (`PointerIsOwned`) |
| `jobs` | two requests at once on a job approved twice, while folder, secret and setting change, a save or key call fails and the service dies | `JobIsWhatWasApproved`; `OneTryAndStopped`: at most one swap and one guess per approval, and no carry or run brings a stopped job back; `KeysFollowJobs` |
| `migration` | four commands in a row on two files whose projects derive the same names, two of them stopped half way, two edits | `NothingIsLost`: the user's last text is at the path, in the vault or in a backup the index reaches (`LastTextKept`), and what is not the user's text can be undone (`UndoReachesIt`). `MountServesItsOwn`. `UndoGivesBackTheUsersText` |

`KeyCustody` is the abstract specification behind `vault_key`, and `CoreSpec` the one behind the
session: `Custody == INSTANCE KeyCustody WITH held <- Held` maps the four places a key can rest in to
the one set of keys that can still be produced, and every step of a rotation or a move must be a
`Make`, a `Seal`, a `Destroy` of a key nothing is under, a disaster of the hardware, or nothing.

Runs that find a disagreement are in section 6.

`SwapIsAFile` is stated for behaviours in which no scan serves the path while it is swapped and no
swap meets an unmount that waits (`crossed`): both happen in the code, and then it fails (section 6).

Two more properties exclude an order of steps that the code allows and that breaks them; the states
excluded are marked by a history variable, and section 6 has the property without the exclusion.
`AwsDroppedAtLocks` leaves out a fill that was `overtaken`: between its look at the session and the
fill itself another connection of the same process had its unwrap noted. Connections are served
concurrently (`transport.go:112`) and a proof belongs to a process, not to a call, so a fill of before
a lock is let in by a proof of after it (`AwsFilledInThisSession`). `WatchedUntilEndedOnce` and
`GrantsEnd` leave out a grant whose deadline was last moved while another request had yet to register
its timer (`crossed` of ProcessGrants): the two may register in the other order (`LiveIsWatched`).

`Settled` in Gate says that no end of a session is still being dealt with. It is needed: between the
wipe of the key and the clearing of the approvals the cache may still answer, by design, because the
key it would lead to is gone.

Deadlock is checked for everything that answers requests. In Mounts, Jobs and Migration it is not: once the
bounded commands, sessions and approvals are used up nothing has to happen. In Gate and ProcessGrants `Finished` is the one place a model may stop: everybody was answered
and no timer has anything to do; any other stop is reported.

## 4. Bounds and fairness

| bound | value | why it is enough |
|---|---|---|
| `Requests` | 2 to 4, each asks once | a hazard here needs a request, one that ends its session, and one that opens the next; two goroutines of one operation are enough to race it |
| `TTL`, `MaxSessionAge`, `MaxClock` | 1–2, 0 / 2 / 3, 3–4 | a session can be extended, hit its ceiling before its idle expiry, end, and be followed by another; in `session_safety` the ceiling is longer than one idle time and shorter than two. 0 is "no ceiling" and is what `gate_aws` runs |
| `DenialCooldown`, `Backoff` | 1–2, `<<1, 2>>` | the pause can be over or not when the next prompt comes; the second refusal escalates, the third stays at the last entry |
| `AwsLife`, `AwsMargin`, `AwsProofTTL` | 2, 1, 1 | an entry can be fresh, inside its margin and dead |
| `GrantTTL`, `MaxClock`, `MaxRecycled` of ProcessGrants | 1, 3, 1 | a deadline moves by a tick and then passes, with the timer going off after it; a deadline that passed is moved before the timer ended the grant, but in the run that one does not pass again: for this `MaxClock` must be 4, with which the same configuration holds too but takes more than four minutes. The root's pid belongs to nobody or to a stranger |
| `MaxCrashes`, `MaxMoves`, `MaxFaults` of StandingGrants | 2, 1, 1 | a crash at any step and once more in the recovery from it. One fault: the promise is kept with any single failure, and with two it is not (section 6) |
| `MaxCrashes`, `MaxFaults`, `MaxLosses` of VaultKey | 2, 2, 2 | an interrupted command, an interrupted resumption of it, and one that goes through; an operation and its cleanup fail; the enclave loses a key and the one that followed it |
| `Files`, `Keys` of VaultKey | 2, 4 | an envelope is already under the new key while another is not; the key before, the staged one, a fresh one and a lost one at a time. Names are used again when nothing has the key any more (`InUse`) |
| `HistoryKeep`, `Versions`, `MaxStamp`, `MaxKills`, `MaxFails` of VaultHistory | 2, 4, 5, 2, 1 | the history is full after three writes, and more meet it full; a kill leaves one too many, another before the next prune, and something fails in that one. The code keeps 5 (`history.go:45`); the proofs are for any |
| `Handlers`, `Procs`, `Servers` of Mounts | 2, 2, 2 | a handler decides and another acts before it does; one run keeps a swap another ends; the Serve goroutine being stopped and the one that takes its place |
| `MaxSessions`, `MaxCrashes` of Mounts | 2, 1 | a resolve of one session ends in the next; a death at any step, and a restart |
| `Requests`, `MaxApprovals`, `MaxChanges`, `MaxFaults`, `MaxRestarts` of Jobs | 2, 2, 3, 1, 1 | two overlap; a job is replaced under a run or a carry; the folder, the secret and the setting change once each, or one of them there and back; one save or key call fails before or after a death |
| `Paths`, `MaxNames` of Migration | 2, 2 | two projects that claim one name, and the next name free |
| `MaxStarts`, `MaxEdits`, `MaxStops` of Migration | 4, 2, 2 | migrate, edit, undo and one more; a command stopped half way and the one that cleans up after it stopped too |

In Migration the user is not at liberty to do everything (`Liberties`): in the runs that pass, the
editor does not save while a command works on that file or over a mount, a file the user changed
behind jit is not removed with its project, and a removal stops before its deletions or not at all.
What happens otherwise is in section 6.

Requests ask once and the actors are finite, so the state graphs are; nothing is cut by a state
constraint, only by these guards. `session_safety`, `vault_history`, `mounts`, `jobs` and `migration`
use the symmetry of requests, handlers, versions or files (the modules do not tell them apart and no
liveness is checked there).

Fairness (`FairSpec` in Session, Gate and ProcessGrants) is weak, on each goroutine's steps, the
timers and the clock: goroutines are scheduled, Go's mutexes hand over to a starving waiter, an armed
`time.AfterFunc` goes off, and a prompt ends, if only because the challenge gives up after about two
minutes (the refusal is always enabled). No fairness is assumed of a human's answer, of a client
asking, of a process exiting, nor, in StandingGrants, of a crash or the lack of one; that module
has safety only. VaultKey's `FairSpec` lets a running command go on and, when a marker was left,
somebody run the command that finishes it: the marker makes every other command refuse and name that
one, so whoever wants the vault back does. It assumes nothing of kills, failures or resets but
that they are finitely many. Weak fairness suffices for the mutexes because contenders are finite and each
acquires a bounded number of times.

## 5. What is proved

TLAPS checks these for every set of requests, handlers, grants, jobs, runs, envelopes and paths, every
idle time, ceiling, cooldown, ttl and size of history, and any number of kills, restarts and faults, but for the hypotheses
named below.

| module | theorems | rest on |
|---|---|---|
| `SessionCoreProofs` | `CoreTyped`, `CoreKeyIsWatched`, `CoreTimerEndsOnlyWhatIsOver` | `TimerInv` |
| `SessionProofs` | `SessionTyped`, `SessionImplementsCore`, `SessionKeyIsWatched`, `SessionTimerEndsOnlyWhatIsOver`, `SessionOfferStillTrue`, `SessionHistoryIsWhole`, `SessionHandedOutInsideBounds`, `SessionPausesHold` | `LockInv`, `HistoryInv`, `ForgiveInv` |
| `GateProofs` | `GateTyped`, `GateImplementsCore`, `GateKeyIsWatched`, `GateAllowedInItsSession`, `GateOneLeaderPerClass`, `GateAwsDroppedAtLocks` | `Parts` |
| `ProcessGrantsProofs` | `GrantsTyped`, `GrantsEndedForGood`, `GrantsAnswerOnlyTheirTree`, `GrantsEndedOnce`, `GrantsWatchedUntilEndedOnce` | `GrantInv`, `TellInv`, `WatchInv` |
| `StandingGrantsProofs` | `StandingTyped`, `StandingKeyOfAGrantIsKept`, `StandingLedgerFollows`, `StandingLeftoversGo`; with one fault at most `StandingLedgerAndCacheFollow`, `StandingEndedIsNeverOpened` | `KeptInv`, `EndInv` |
| `CommandProofs` | VaultKey: `VaultKeyImplementsCustody`, `VaultKeyInCustody`, `VaultKeyOpens` (one command at a time); `CustodyKeepsEveryEnvelope` | `VaultInv`, `CustodyInv` |
| | VaultHistory: `HistoryHoldsAlways`, `NewestIsReplaced`, `OnlyOldOnesGo` (one process at a time) | `HistoryInv` |
| | Migration: `NothingLost`, `MountsServeTheirOwn`, `UndoGivesBack` (one command at a time, no `Liberties`) | `MigrationInv` |
| `MountsProofs` | `MountsTyped`, `MountsRealIsOfTheSession`, `MountsNoStrayServer`, `MountsSwapFollowsRuns`, `MountsNoSelfDeadlock` | `IInv` |
| `JobsProofs` | `JobsTyped`, `JobsAreWhatWasApproved`, `JobsKeysFollow`, `JobsOneTryAndStopped` | `IInv` |

`SessionCoreProofs` (over `CoreSpec`). `CoreKeyIsWatched` and `CoreTimerEndsOnlyWhatIsOver`
need the strengthening `TimerInv`: the armed timer is of the current generation, and those that went
off are of no later one; while a key is in memory, there is an armed timer or one of the current
generation that went off, the armed one is due exactly at the earlier bound of the session, and the one
that went off finds that bound passed. "Some timer exists" alone is not inductive, because stopping a
timer that already went off does not stop it: only the generation tells its callback that the session
was extended.

`SessionProofs` (over `Spec` of Session). The central invariant is `LockInv`: whoever
is at a place between the acquisition and the release of `challengeMu` is `challenger`, so there is
one such request; and where that request counts on the vault being locked (`CountsOnLocked`: from its
last look at the session to the answer of its prompt) it is, because only the holder of `challengeMu`
installs a key. From it `SessionOfferStillTrue` follows, and with it `SessionImplementsCore`: the step that installs a
session, an approval two minutes after the look that found the vault locked, is `CoreNext`'s `Install`,
whose guard is that no key is there; every other step maps to a step of the core or leaves its
variables alone. `SessionKeyIsWatched` is then `CoreKeyIsWatched` carried over by that implementation
and not proved a second time. `HistoryInv` is about the events: the live session is the one opened last;
the unlocks and locks told so far are those due, in order; and each event is in the file or in exactly
one pair of hands (`Conserved`, `HeldOnce`), while nobody has one that is not in the ring yet, so what a
step adds is held by its taker only. `SessionHandedOutInsideBounds` takes from the core
that a live session has a start, so the ceiling that was looked at is its own. `SessionPausesHold` needs that
a request about to forgive the pauses is an explicit unlock a human approved.

`GateProofs`. Each request stays on the path of its operation (`PathOk`), through the detours that
drain parked locks; who is on its way through a prompt holds `challengeMu` and who counts on the vault being
locked finds it locked (`HolderOk`, as in Session; `GateImplementsCore` and `GateKeyIsWatched` follow in the same way); who leads a flight
is the one its class names (`FlightOk`). The rest is a balance of debts: an approval, a trust root or an AWS entry
of a session that ended is there only while somebody still owes its clearing (`ConsentOwed`,
`TrustOwed`, `AwsOwed`: the parked lock, a tail of the timer, a request about to drain). An approval not yet
cached whose session ended finds that `clears` moved on since it was asked for, or the clear is still owed
(`ApprovalOk`); a process about to fill the cache with a stale key has lost its proof, or a proof of its process was noted
since it looked (`overtaken`), or the wipe is owed (`FillOk`): nothing is assumed of how many connections a process has. When nothing is owed (`Settled`), nothing is left.

`ProcessGrantsProofs`. `GrantsEndedForGood` and `GrantsAnswerOnlyTheirTree` rest on
`GrantInv`. A grant is inserted by one request, once: until then its state is `none` (third conjunct
of `RecordOk`), so an insertion never meets a grant that ended. And what a serve noted about a
candidate before it let go of `grantMu` — that it exists, and that the caller descends from its root —
is never changed by others (`Keeps`: no step changes the root of a grant or brings an ended one back),
so when it takes the key at last, only "is it still live" has to be looked at again, which is what
`timedUnwrap` does. `GrantsEndedOnce` rests on `ToldOnce`: a grant that ended was told of, or exactly one
request or timer is between the end and the telling. `GrantsWatchedUntilEndedOnce` rests on `WatchInv`:
timers have numbers of their own, the handle of a grant names a timer of that grant, a request about to
arm does so for the deadline the grant has, at most one request arms for a grant that is not `crossed`
(`OneArms`), and the timer that watches such a grant is not the one whoever registers next will stop. There is no
hypothesis on who extends or how often; an extension that meets nobody arming takes the grant out of
`crossed` again, because the timer it arms is then the last.

`StandingGrantsProofs`. `KeptInv` holds for any number of crashes, moves and faults. Until a create
publishes its grant, nothing knows the id: no file, snapshot, cache or handler (`UnpublishedIsUnknown`), so
a failed create leaves nothing behind but a key. A grant the human was given is in the ledger under the very key that
exists, and memory and every snapshot about to be written agree with it (`GrantedOk`), therefore a late
write cannot drop it. Memory and ledger differ only while somebody is about to save, is writing, or owes a save
(`LedgerOwed`). A start knows that what it loaded is the ledger, that a grant it moves has both
keys, and that the old key goes only when the ledger names the new one (`StartOk`); a start without a fault has every key
named or on its list (`CleanStart`). `EndInv` is about what ended, with one fault at most: an end
is in no file and nobody's hands, or its keys are gone and the one fault is spent (`EndedOk`), and a revoke that is
about to save has deleted the keys or spent the fault (`RevokedKeys`). Its two theorems have the hypothesis
`MaxFaults <= 1`; with two the promise is broken (`RevokedIsNeverServed`, section 6).

`CommandProofs`, VaultKey. `VaultInv` says what each place of a rotation, a move, a move back and an init knows, and
what is left for the next command when it is killed there (`Shape`): a staged key is there in a rotation only; a
staged sealed file in a move in only, of the keychain's key, and it opens; what an enclave vault has in the keychain is a
copy of its key; every envelope no record gave up is under the vault's key or, in a rotation, the old or
the staged one; what a record lists is under no key still used. A rotation that is past its walk has left nothing
under the old key (`Walked`), which is what allows its destruction. With it every step is one
`CustodyNext` allows (`VaultKeyImplementsCustody`). Hypotheses: one command at a time (two break
the promise, section 6), and that keys never run out (`~IsFiniteSet(Keys)`: they are 256 random bits; that
finitely many are in use at a time is part of the proof). `CustodyKeepsEveryEnvelope` is about the abstract specification: `InCustody` is
inductive for `CustodySpec` once it is known that `under` is a function on the envelopes.

`CommandProofs`, VaultHistory. A prune reads the history once and then removes versions one by one, and
may be killed between any two of them or fail to remove one, so the bound is not what is inductive. `HistoryInv` says what each stage knows. A
set that has archived has the live version as the newest of the history (`SetKnows`), a restore also
that the version it was asked for is older than that (`RestoreKnows`): this is `NewestIsReplaced` at
the step that writes. What a prune still has to drop has `HistoryKeep` newer versions among those it
keeps (`DroppedAreOld`), whatever went before it, which is `OnlyOldOnesGo`. And the versions that take a
place are `HistoryKeep` and one more per kill and per failed operation, with one more while a set or a restore is
between its archive and its prune (`RoomCounted`). A prune that listed all there is and whose removals
all worked so far keeps `HistoryKeep`, however many it found (`DroppedAreOld` with `missed`); that is
`PruneTidies`, and why leftovers do not add up. That the choice of the prune leaves `HistoryKeep` (`TooOld`) is
a lemma about finite sets of naturals, for any set. Hypotheses: one process at a time, and `HistorySpec`,
in which the clock is not set back; section 6 shows both are needed.

`CommandProofs`, Migration. `LastTextKept` is not inductive: which of its places has the text changes at
every step, and the step that empties one relies on another being full. `MigrationInv` says where the text of
each file is (`FileOk`): at the path, under a profile of its own store (`Serving`), in the newest backup (`Copied`), or in a
snapshot (`Snapped`); that a path which is not text has a newest backup which is, and as new as what jit
took (`Backed`); and that a registered mount is served its own. And it says what each place of a
command knows. A migration that has the name it claimed finds it free or its own; one about
to clear the path has both its profile and its backup (`MigrateKnows`). An undo about to clear a text has just
snapped it, and what it writes back is `Backed` (`UndoKnows`). An unmount or a removal holds the newest text in its
memory, while the vault still has it (`BackKnows`). What a removal lists to delete is of its own project
(`RemoveKnows`), and a prune has listed all snapshots and no newest backup (`PruneKnows`). A removal past the point where it may stop
(`Deleting`) has the text at the path and needs the vault no more. Ids and texts are numbered (`IdsOk`, `TextsOk`):
the next record is newer than all others, which is what "newest backup" rests on. Hypotheses: one command
at a time and `Liberties = {}`; section 6 shows what happens with two commands and with each of the
liberties. `MigrationAssumption` has the paths finite, because texts are numbered through them.

`HistoryInv` and `MigrationInv` were checked by TLC at the bounds of the runs before they were proved.

`MountsProofs`. A handler that has the swap lock is at a place that needs it, and the run it
attaches is its own (`HandlerOk`, `OneHandlerPerRun`). A resolve under way may arm what it decrypted only
in its own session, or where a lock is about to disarm it; otherwise the generation it captured is behind
(`ResolveOk`). From the moment a swap stopped the Serve goroutine, nothing serves the path (`SwapOk`), and a
pointer file is a run's, or of whoever is about to register or restore it (`PointerOk`).

`JobsProofs`. Requests go on with copies of jobs that were stopped, replaced or removed meanwhile.
`KnownOk`: every copy of a job, wherever a request has it, is of one approval and one name, and as its human was shown it.
`FreshOk` and `PendingOk`: an approval not stored yet is nobody else's. `TriesOk`: whoever was
caught is about to stop the job, if it is not stopped. `OneAtATime`: one run of a name, and one carry.

Each constant has a named assumption in the module that declares it, as weak as the code allows
(`GrantOpsAssumption`: requests ask for one of the five operations; `BackoffAssumption`: the schedule
is not empty; `NoneIsNobody`, `NoneIsNothing`: the value that stands for nothing is none of the
others; `StandingOpsAssumption`, `GateOpsAssumption`: the operations asked for are those of the service). Everything else is
proved from the definitions and from the hypotheses named above.

Only model-checked: liveness (`SessionEnds`, `WorkIsDone`, `EveryRequestAnswered`, `GrantsEnd`,
`InterruptedChangeFinishes`), which is out of the prover's reach. The
invariants and action properties of the runs that pass are all proved, under the hypotheses named; what
they do not cover (commands that overlap, `Liberties`, a clock set back, a second fault) is what section 6 is about.

## 6. Where the code and its comments disagree

One run checks a sentence of the code's own comments, finds it violated, and is kept as a run; the
finding in `PROJECT.json` quotes it and says how it comes about.

| run | what is said | what happens |
|---|---|---|
| `migration_remove_edit` | nothing is ever simply destroyed (`undo.go:260`, `migrateremove.go:462`) | after an undo and an edit, `jit migrate remove` takes the file for one jit rewrote (`rewrittenInPlace`), puts the old backup over it, and its sweep of stragglers deletes the snapshot it took of the edit |

More were met while modelling. Each is a definition of its module. To see one, take the named
configuration with `Spec` (`HistorySpec`, `MigrationSpec`; unless another is named), the definition as its only property, and the
changes in the second column.

| definition | configuration | sentence | what happens |
|---|---|---|---|
| `UsesInsideTheirSession` | `SessionSafety.cfg` with `Ops = {"unlock", "use", "lock", "history"}` | a use is recorded before the lock of its session (`session.go:895`) | the key is copied in one critical section and the use recorded in the next; a lock fits between |
| `NoApprovalFromBefore` | `GateConsent.cfg` with `OpsOf <- BeforeOps`, `Descends <- NoTrees`, `DenialCooldown = 2`, `MaxSessionAge = 0` | an approval given while locked must not answer in the session that follows (`session.go:679`) | given before the unlock and cached after it, it is stamped with the new session |
| `TrustStaysInItsSession` | `GateConsent.cfg` | `consent.go:341` | `OpTrust` records the root after its prompt; approved in one session, it may be recorded in the next (`server.go:717`) |
| `CountsOnlyRefusals` | `GateConsent.cfg` | `agent/consent.go:283`, `consent/consent.go:99` | a disclosed-prompt pause or an unlock cooldown that turned the caller away counts as a refusal (`agent/consent.go:278`); `consent/consent.go:397` accepts this for challenges that fail on their own |
| `OnePromptForBoth` (PROPERTY) | `GateConsent.cfg` | `consent/consent.go:236` | a second tool that looked before the first was approved may lead a flight of its own after it (`consent/consent.go:326`) |
| `AwsDroppedAtEveryLock` | `GateAws.cfg` | the cache is dropped on every re-lock (`awscache.go:19`) | not when the session was collected by a request instead of ended by its timer |
| `AwsFilledInThisSession` | `GateAws.cfg` | the unwrap that lets a fill in was "in this session" (`awscache.go:31`) | with two connections of one process, a put looks at the session, a lock wipes cache and proofs, an unwrap that already had its key is noted, and the put is let in: credentials of before the lock stay after it |
| `AwsServesCredentials` | `GateAws.cfg` | `awscache.go:19` | the entry is copied with its bytes shared; a clear during the gate's prompt zeroes what is then served (`awscache.go:120`) |
| `AwsServesInsideMargin` (PROPERTY) | `GateAws.cfg` | `awscache.go:19` | the margin is checked before the prompt, not after it (`awscache.go:113`) |
| `ExpiredMeansExpired` (PROPERTY) | `Grants.cfg` with `MaxRecycled = 0` | a stale timer finds nothing expired after an extend (`grant.go:799`) | it decided before the extension and ends the grant after it |
| `TimersEndWithTheirGrants` | `Grants.cfg` | `grant.go:737` | a timer is registered after its grant ended (`grant.go:836`) |
| `LiveIsWatched` | `Grants.cfg` | `grant.go:769` | two extensions set their deadlines in one order and register their timers in the other (`grant.go:699`); the grant is then ended late, by its next use or a list |
| `UnsavedIsMarked` | `Standing.cfg` | `standing.go:624` | a save clears `ledgerDirty` for a count it did not write (`standing.go:670`) |
| `ListedWasNotRefused` | `Standing.cfg` with `Requests = {r1, r2}`, `OpsOf <- CreateServe`, `MaxCrashes = 1`, `MaxMoves = 0` | a create that could not be recorded makes no grant (`standing.go:814`) | a concurrent save recorded it |
| `RevokedIsNeverServed` (PROPERTY) | `Standing.cfg` with `Requests = {r1, r2}`, `OpsOf <- RevokeServe`, `MaxCrashes = 1`, `MaxFaults = 2` | `standing.go:120` | the ledger write and the delete of the key both fail: after a restart the grant is listed and served (`standing.go:1023`) |
| `InCustody`, with `ServedSpec` and CHECK_DEADLOCK FALSE | `VaultKey.cfg` with `Files = {f1}`, `Keys = {k1, k2, k3}`, `MaxCrashes = 1`, `MaxFaults = 0`, `MaxLosses = 0` | the service is locked so that it cannot go on with the old key (`vaultrekey.go`, `defer lockAgent()`) | the marker goes before the deferred lock; a service that unlocked during the rotation seals under the destroyed key between the two |
| `RmMeansGone` | `VaultHistory.cfg` | "rm means gone" (`vault.go:621`) | rm removes the live file first: killed after it, or if a version cannot be deleted, the versions stay and can be restored, and a second rm finds no secret |
| `LostCopiesStay` (PROPERTY) | `VaultHistory.cfg` | "a version that is, or may be, sealed to a lost Secure Enclave key … is never pruned" (`history.go:84`) | a version that was live when a record could not list everything is archived later under a stamp of after the record, and counts as any other |
| `CarriedIsNotStoppedForTheMove` (PROPERTY) | `Jobs.cfg` with `MaxApprovals = 1` | only a job that "was not carried along" stops for the move (`job.go:770`) | a run that copied the job before it was carried stops it with what its copy says |
| `UserFileLeftAlone` (PROPERTY) | `Mounts.cfg` | "left untouched and surfaced, never clobbered" (`reconcileSwappedMounts`) | the reconciliation leaves it; the scan after it serves what the registry lists, and puts a pipe there |

Others show themselves in properties that hold in the runs, when a bound or a liberty is changed:

| property | configuration | what happens |
|---|---|---|
| `CustodySpec` | `VaultKey.cfg`, `LossySpec` | a move into the enclave is killed after the promotion, the enclave loses its key, and the resumption deletes the keychain copy unopened: it trusts the sealed file that is there (`vaultmove.go:30`: "the old copy is deleted only after the new one has been read back and compared") |
| `InCustody`, `VaultOpens` | `VaultKey.cfg` with `Commands = {c1, c2}`, `Files = {f1}`, no kills, faults or losses | the marker is looked at when a command starts and the key read after its prompt: a set seals under the old key after the rotation's walk |
| `NewestIsWhatWasReplaced` | `VaultHistory.cfg` with `Processes = {c1, c2}` | two sets read the same live value, and what the first wrote is archived by nobody |
| `NewestIsWhatWasReplaced` | `VaultHistory.cfg`, `SteppedSpec`, `MaxSteps = 1` | after the clock was set back, what was just archived is not the newest stamp |
| `LastTextKept` | `Migration.cfg` with `Liberties = {"edits"}` | a text saved between the backup and the replacement of the file is in no backup |
| `MountServesItsOwn` | `Migration.cfg` with `Liberties = {"stops"}`, `MaxEdits = 0`, `MaxStops = 1` | a removal killed after it deleted the secrets leaves the manifest; its path is free, another project claims it, and the first migrates again to the name it believes its own |
| `NothingIsLost` | `Migration.cfg` with `Liberties = {"removes"}`, `MaxStarts = 3`, `MaxEdits = 0`, `MaxStops = 1` | a migrate killed between taking the file away and putting its own there leaves nothing to recognise; a removal then deletes the secret and the backup |
| `MountServesItsOwn`, `LastTextKept` | `Migration.cfg` with `Invocations = {c1, "c2"}`, `MaxStarts` 2 and 3, `MaxEdits = 1`, `MaxStops = 0` | two migrates claim one name at once; a removal deletes the backup of a migration still under way |

And some were met on the way and left out of the models or noted in them. *Jobs*: two approvals of one
new name at once (the second replaces the first without `--replace`); a stop whose save fails is
forgotten by a restart (`refuseJob` ignores the error). *Mounts*: a `jit unmount` refused at the
fingerprint leaves the pipe without a writer until the next unlock or refresh; a reveal that was under way
when the lock cleared the runs registers after it, and so outlives its session; a scan while the file
is swapped serves the pointer file's path; a swap does not wait for an unmount that does; a
resolve that saw the session open may, after a lock, prompt with the swap lock held; a late `OnLock`
clears what the next unlock has resolved. *Migration*: an undo whose read of the backup fails after the
mount was stopped leaves an unregistered pipe with no server, where `runRestores` says all is "left
exactly as it was".

None hands a secret to a process nobody approved in the session at hand, except `NoApprovalFromBefore`
and `TrustStaysInItsSession`, where the approval is real but older than the comment says, and
`RevokedIsNeverServed`, which takes two failures.

## 7. What is not modelled

Inside the modelled components. *Session, Gate*: `notifyFresh` and its folding of passes (Mounts lets a
fresh unlock scan or not), the 200-event cap of the ring, memory locking; the gate's best-effort path
for readers, fork-time checks of trust roots, and Always decisions, which no caller of the service asks
for. *Grants*: the end of timed grants when the service stops and the name filter of a tree grant;
ledger records kept unread because a newer jit wrote them, and rotated secrets. In ProcessGrants no pid
is given out again between the fork-time check and the walk of the ancestry, two reads of the process
table next to each other; in StandingGrants the process that asks is the one the grant names, and the
ancestry walk is left to ProcessGrants. *VaultKey*: `--force` removal of a foreign key, the rule
about recovery files, records of a lost key that cannot be read, settling such a record after an import,
`jit vault delete`. Also in *VaultKey*, the two removals of `keyMover.abort` (`vaultmove.go:250`), whose errors the code ignores,
are one step that succeeds (`Abort`): a marker left over is what a kill leaves too, and a staged file left
over is removed by the next move before it makes its own (`vaultmove.go:341`).
*VaultHistory*: several secrets (they share nothing but the record of a lost key),
metadata, import. *Mounts*: pid reuse, the hard cap of a run, kqueue itself, a failed `RestoreFIFO`, a
Serve goroutine that ends by itself on a structural error, the graceful shutdown, mounts of a job, who a
reader is and what it gets. *Jobs*: which command lines and folders may be approved, output and limits of
a run, library manifests, proposals, the move of job keys (the move in StandingGrants is the same code).
*Migration*: the categories besides .env, .env.bak and tfvars (MCP, AWS, kubeconfig, shell, loose files),
the split of settings, links a restore follows, records of created and cleaned files, `jit vault clean`,
orphaned mounts, file modes. The wording of prompts and events everywhere.

Outside the code: the key stores and the enclave (operations that may fail, keys that may be lost), the
prompt (an answer at any moment), the process table, the file system (a write that happens or fails,
never half: `internal/atomicfile`), the user's editor.

Components with status `not_modelled` in `PROJECT.json` give their reason there: pure I/O or parsing
(client, protocol, scan, guard, MCP, launchers), platform calls (1Password, screen lock), or a place in
the plan. The command line and the detectors are most of the repository's lines and keep no state of
their own between calls; that is why the modelled share of the lines stays small.

## 8. Plan

Models, in order of what could go wrong most:

1. **Subscribe** composed with Session's hand-off of events: a gap is never silent (`subscribe.go:71`).
2. StandingGrants with several secrets per grant and a half-moved record (`grantmove.go:110`); job keys
   in the same move.
3. **AuditLog**: append and trim by several processes; **SealedStores**: a crash while open.
4. `notifyFresh` between Session and Mounts.

Proofs: `LastTextKept` and `MountServesItsOwn` of Migration under one liberty at a time, where a weaker
form of them holds; `NewestIsWhatWasReplaced` after a clock that was set back and has caught up again.
