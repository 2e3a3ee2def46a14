--------------------------------- MODULE Jobs ---------------------------------
(***************************************************************************)
(* AI jobs: commands a human approved once, that the agent then runs with  *)
(* secrets for a caller who never sees them.  The caller can write the     *)
(* job's folder, the vault and the settings at any moment, and send any    *)
(* request while others wait on a prompt, so every check is of a snapshot  *)
(* and every conclusion is drawn under jobMu.  The jobs modelled read one  *)
(* secret, at one vault path, and their folder is one place with a few     *)
(* contents.  A vault version is both its wrapped bytes and its value.     *)
(* Why a job stopped is kept only as far as a property asks.               *)
(* Approvals of a name are told apart by their second in the code and by   *)
(* their number here: each one waits for a finger.                         *)
(* Sources: src/internal/agent/job.go, jobcarry.go, grantorphans.go.       *)
(***************************************************************************)
EXTENDS Naturals, FiniteSets

CONSTANTS
    Names,          \* job names
    Requests,       \* requests that may be in the service at once
    Contents,       \* what the job folder may hold
    Versions,       \* the secret's versions in the vault, and settings' values
    None,
    MaxApprovals,   \* bound: approvals a human may give
    MaxChanges,     \* bound: writes to the folder, the vault and the setting
    MaxFaults,      \* bound: saves and key-store calls that fail
    MaxRestarts     \* bound: deaths of the service

ASSUME BoundsAreNaturals == {MaxApprovals, MaxChanges, MaxFaults, MaxRestarts} \subseteq Nat

VARIABLES
    folder,      \* what the job folder holds
    vault,       \* the version stored at the path, or None
    setting,     \* the value of the plain setting the path was moved to, or None
    jobs, disk,  \* s.jobs and jobs.json: name |-> job, or None
    keys,        \* approvals whose job key is in the key store
    running,     \* s.jobRunning
    at, mem,     \* where each request is, and what it holds
    given,       \* approvals given
    approved,    \* ghost: approval |-> what the human was shown
    swaps,       \* ghost: approval |-> runs caught with other code than approved
    guesses,     \* ghost: approval |-> mismatched settings compared, this life
    undeleted,   \* ghost: keys whose delete failed
    faults, restarts, changes

world == <<folder, vault, setting>>
kept == <<jobs, disk>>
ghosts == <<approved, swaps, guesses, undeleted>>
bounds == <<given, faults, restarts, changes>>
vars == <<world, kept, keys, running, at, mem, ghosts, bounds>>

Approvals == 1 .. MaxApprovals
Optional(S) == S \union {None}
Reasons == {"moved", "not as approved"}
Flags == BOOLEAN

\* job.Job.  A carried job's secret became a setting with this value, whose
\* file is part of its fingerprint.
Job == [approval : Approvals, code : Contents, secret : Versions, never : Flags,
        carried : Optional(Versions), stopped : Optional(Reasons)]

ASSUME NoneIsNothing == None \notin Contents \union Versions \union Reasons \union Job

\* A request's own variables: the job's name, its copy of the job (or the one
\* it is making), the copies a carry still has to look at, the value it read
\* or whether it has one, the key it will delete, the reason it will refuse for.
Memory == [name : Optional(Names), job : Optional(Job), cands : [Names -> Optional(Job)],
           value : Optional(Versions), key : 0 .. MaxApprovals, why : Optional(Reasons)]
NoCands == [n \in Names |-> None]
Blank == [name |-> None, job |-> None, cands |-> NoCands, value |-> None, key |-> 0, why |-> None]

Places == {"idle", "allow prompt", "allow failed", "allow save", "delete key",
           "run enter", "run secret", "run open", "run prompt", "run recheck",
           "run on", "run refuse",
           "carry next", "carry open", "carry stop", "carry check", "carry store"}

Init ==
    /\ folder \in Contents /\ vault \in Versions /\ setting = None
    /\ jobs = [n \in Names |-> None] /\ disk = jobs
    /\ keys = {} /\ running = {}
    /\ at = [r \in Requests |-> "idle"] /\ mem = [r \in Requests |-> Blank]
    /\ given = 0
    /\ approved = [a \in Approvals |-> None]
    /\ swaps = [a \in Approvals |-> 0] /\ guesses = [a \in Approvals |-> 0]
    /\ undeleted = {}
    /\ faults = 0 /\ restarts = 0 /\ changes = 0

-------------------------------------------------------------------------------
Go(r, from, to) == at[r] = from /\ at' = [at EXCEPT ![r] = to]
Goto(r, from, to, m) == Go(r, from, to) /\ mem' = [mem EXCEPT ![r] = m]
End(r, from) == Goto(r, from, "idle", Blank)

Fault == faults < MaxFaults /\ faults' = faults + 1

\* saveJobsLocked, whose caller keeps the change in memory whatever happens.
SaveOrNot ==
    \/ disk' = jobs' /\ UNCHANGED faults
    \/ Fault /\ UNCHANGED disk

\* saveJobsLocked, whose caller takes the change back when it fails.
SaveOrRollBack(new, saved) ==
    \/ saved /\ jobs' = new /\ disk' = new /\ UNCHANGED faults
    \/ ~saved /\ Fault /\ UNCHANGED kept

\* The stored job is still the approval request r copied.
Current(r) ==
    LET cur == jobs[mem[r].name]
    IN cur # None /\ cur.approval = mem[r].job.approval
Going(r) == Current(r) /\ jobs[mem[r].name].stopped = None
HasSecret(j) == j.carried = None
StopJob(r, why) == jobs' = [jobs EXCEPT ![mem[r].name].stopped = why]

\* jobChanges: the folder and, of a carried job, its setting's file.
Changed(j) == folder # j.code \/ j.carried \notin {None, setting}

-------------------------------------------------------------------------------
(* job_allow *)

\* prepareJob, and the check for a job of that name before the prompt.
AllowStart(r, n, replace, never) ==
    /\ given < MaxApprovals /\ given' = given + 1
    /\ vault # None /\ (jobs[n] # None => replace)
    /\ Goto(r, "idle", "allow prompt",
            [Blank EXCEPT !.name = n,
                          !.job = [approval |-> given + 1, code |-> folder, secret |-> vault,
                                   never |-> never, carried |-> None, stopped |-> None]])
    /\ UNCHANGED <<world, kept, keys, running, ghosts, faults, restarts, changes>>

\* No finger, a folder changed while the prompt was up, or no key.
AllowRefused(r) ==
    /\ at[r] \in {"allow prompt", "allow failed"} /\ End(r, at[r])
    /\ UNCHANGED <<world, kept, keys, running, ghosts, bounds>>

Approve(j) == approved' = [approved EXCEPT ![j.approval] = [code |-> j.code, value |-> j.secret]]

\* A job that never asks gets its key, or the request fails.
MakeKey(r) ==
    \/ /\ keys' = keys \union {a \in {mem[r].job.approval} : mem[r].job.never}
       /\ at' = [at EXCEPT ![r] = "allow save"] /\ UNCHANGED faults
    \/ /\ mem[r].job.never /\ Fault
       /\ at' = [at EXCEPT ![r] = "allow failed"] /\ UNCHANGED keys

\* The finger, the folder again, and the job's key.
AllowGiven(r) ==
    /\ at[r] = "allow prompt" /\ folder = mem[r].job.code
    /\ MakeKey(r) /\ Approve(mem[r].job)
    /\ UNCHANGED <<world, kept, running, mem, swaps, guesses, undeleted, given, restarts, changes>>

\* Mutant of AllowSave: a save that failed leaves the new key.
AllowSaveKeepsKey(r) ==
    LET m == mem[r]
        prev == jobs[m.name]
        old == IF prev # None /\ prev.never THEN prev.approval ELSE 0
    IN /\ at[r] = "allow save"
       /\ \E saved \in Flags :
            /\ SaveOrRollBack([jobs EXCEPT ![m.name] = m.job], saved)
            /\ Goto(r, "allow save", "delete key", [Blank EXCEPT !.key = IF saved THEN old ELSE 0])
       /\ UNCHANGED <<world, keys, running, ghosts, given, restarts, changes>>

\* The job takes its name's place, or the save fails and nothing did; then one
\* key is deleted, the replaced job's or the new one.
AllowSave(r) ==
    LET m == mem[r]
        prev == jobs[m.name]
        old == IF prev # None /\ prev.never THEN prev.approval ELSE 0
        new == IF m.job.never THEN m.job.approval ELSE 0
    IN /\ at[r] = "allow save"
       /\ \E saved \in Flags :
            /\ SaveOrRollBack([jobs EXCEPT ![m.name] = m.job], saved)
            /\ Goto(r, "allow save", "delete key", [Blank EXCEPT !.key = IF saved THEN old ELSE new])
       /\ UNCHANGED <<world, keys, running, ghosts, given, restarts, changes>>

DeleteKey(r) ==
    /\ End(r, "delete key")
    /\ \/ keys' = keys \ {mem[r].key} /\ UNCHANGED <<undeleted, faults>>
       \/ mem[r].key # 0 /\ Fault /\ undeleted' = undeleted \union {mem[r].key} /\ UNCHANGED keys
    /\ UNCHANGED <<world, kept, running, approved, swaps, guesses, given, restarts, changes>>

\* job_remove.
Remove(r, n) ==
    /\ jobs[n] # None
    /\ \E saved \in Flags :
         /\ SaveOrRollBack([jobs EXCEPT ![n] = None], saved)
         /\ Goto(r, "idle", "delete key",
                 [Blank EXCEPT !.key = IF saved /\ jobs[n].never THEN jobs[n].approval ELSE 0])
    /\ UNCHANGED <<world, keys, running, ghosts, given, restarts, changes>>

Allow(r) ==
    \/ \E n \in Names, replace, never \in Flags : AllowStart(r, n, replace, never)
    \/ AllowRefused(r) \/ AllowGiven(r) \/ AllowSave(r) \/ DeleteKey(r)

-------------------------------------------------------------------------------
(* job_run *)

RunStart(r, n) ==
    /\ jobs[n] # None
    /\ Goto(r, "idle", "run enter", [Blank EXCEPT !.name = n, !.job = jobs[n]])
    /\ UNCHANGED <<world, kept, keys, running, ghosts, bounds>>

\* A run holds its job's name at these places.
Held == {"run secret", "run open", "run prompt", "run recheck", "run on", "run refuse"}

\* The run's request ends, and with it its hold on the name.
Leave(r, from) == End(r, from) /\ running' = running \ {mem[r].name}
Refuse(r, from, why) == Goto(r, from, "run refuse", [mem[r] EXCEPT !.why = why])

\* The copy's stop, and the folder.
CheckCopy(r) ==
    IF mem[r].job.stopped # None THEN End(r, "run enter") /\ UNCHANGED running
    ELSE /\ running' = running \union {mem[r].name}
         /\ IF Changed(mem[r].job) THEN Refuse(r, "run enter", "not as approved")
                                   ELSE Go(r, "run enter", "run secret") /\ UNCHANGED mem

\* One run of a job at a time; the copy was taken before.
RunEnter(r) ==
    /\ at[r] = "run enter"
    /\ IF mem[r].name \in running THEN End(r, "run enter") /\ UNCHANGED running
                                  ELSE CheckCopy(r)
    /\ UNCHANGED <<world, kept, keys, ghosts, bounds>>

\* A rotated secret stops the job, and so does one moved into a setting; one
\* deleted from the vault is left out.
RunSecret(r) ==
    LET j == mem[r].job
        rotated == HasSecret(j) /\ vault \notin {None, j.secret}
        moved == HasSecret(j) /\ vault = None /\ setting # None
    IN /\ at[r] = "run secret"
       /\ IF rotated \/ moved
          THEN Refuse(r, "run secret", IF rotated THEN "not as approved" ELSE "moved")
          ELSE Goto(r, "run secret", IF j.never THEN "run open" ELSE "run prompt",
                    [mem[r] EXCEPT !.value = IF HasSecret(j) THEN vault ELSE None])
       /\ UNCHANGED <<world, kept, keys, running, ghosts, bounds>>

Recheck(r, from) == Goto(r, from, "run recheck", [mem[r] EXCEPT !.value = None])

\* A job that never asks opens its secret with its key.
RunOpen(r) ==
    /\ at[r] = "run open"
    /\ IF mem[r].value # None /\ mem[r].job.approval \notin keys
       THEN Refuse(r, "run open", "not as approved")
       ELSE Recheck(r, "run open")
    /\ UNCHANGED <<world, kept, keys, running, ghosts, bounds>>

\* A key that cannot be used right now skips the run: refuseJobRun.
RunSkip(r) ==
    /\ at[r] = "run open"
    /\ mem[r].value # None /\ Fault
    /\ Leave(r, "run open")
    /\ disk' \in IF Current(r) THEN {disk, jobs} ELSE {disk}
    /\ UNCHANGED <<world, jobs, keys, ghosts, given, restarts, changes>>

\* One that asks prompts, secret or no secret.
RunPrompt(r) ==
    /\ \/ Recheck(r, "run prompt") /\ UNCHANGED running
       \/ Leave(r, "run prompt")
    /\ UNCHANGED <<world, kept, keys, ghosts, bounds>>

\* The folder again; then the stored job, not the copy: approved again,
\* removed or stopped, and the run ends here; else its program starts.
RunLive(r) ==
    /\ at[r] = "run recheck"
    /\ IF Changed(mem[r].job) THEN Refuse(r, "run recheck", "not as approved") /\ UNCHANGED running
       ELSE IF Going(r) THEN Go(r, "run recheck", "run on") /\ UNCHANGED <<mem, running>>
       ELSE Leave(r, "run recheck")
    /\ UNCHANGED <<world, kept, keys, ghosts, bounds>>

RunnerFails(r) ==
    /\ Leave(r, "run on")
    /\ UNCHANGED <<world, kept, keys, ghosts, bounds>>

\* Changed code withholds the output and stops the job; else the run is
\* recorded, of which only the save of the list matters here.
RunEnd(r) ==
    /\ at[r] = "run on"
    /\ IF Changed(mem[r].job)
       THEN /\ Refuse(r, "run on", "not as approved")
            /\ swaps' = [swaps EXCEPT ![mem[r].job.approval] = @ + 1]
            /\ UNCHANGED <<disk, running, faults>>
       ELSE /\ Leave(r, "run on") /\ UNCHANGED swaps
            /\ \/ disk' = (IF Current(r) THEN jobs ELSE disk) /\ UNCHANGED faults
               \/ Current(r) /\ Fault /\ UNCHANGED disk
    /\ UNCHANGED <<world, jobs, keys, approved, guesses, undeleted, given, restarts, changes>>

\* refuseJob: sticky until approved again, on the approval that was refused.
RunRefuse(r) ==
    /\ Leave(r, "run refuse")
    /\ IF Current(r) THEN StopJob(r, mem[r].why) /\ SaveOrNot
                     ELSE UNCHANGED <<kept, faults>>
    /\ UNCHANGED <<world, keys, ghosts, given, restarts, changes>>

Run(r) ==
    \/ \E n \in Names : RunStart(r, n)
    \/ RunEnter(r) \/ RunSecret(r) \/ RunOpen(r) \/ RunSkip(r)
    \/ RunPrompt(r) \/ RunLive(r) \/ RunnerFails(r) \/ RunEnd(r)
    \/ RunRefuse(r)

-------------------------------------------------------------------------------
(* job_carry, one at a time under carryMu *)

Carrying == {"carry next", "carry open", "carry stop", "carry check", "carry store"}

\* The jobs that get the value are copied, and its setting is read once.
CarryStart(r) ==
    LET cands == [n \in Names |-> IF jobs[n] # None /\ HasSecret(jobs[n]) THEN jobs[n] ELSE None]
    IN /\ \A q \in Requests : at[q] \notin Carrying
       /\ setting # None /\ cands # NoCands
       /\ Goto(r, "idle", "carry next", [Blank EXCEPT !.cands = cands, !.value = setting])
       /\ UNCHANGED <<world, kept, keys, running, ghosts, bounds>>

Answer(r, from) == Goto(r, from, "carry next", [mem[r] EXCEPT !.name = None, !.job = None])

\* carryJob up to the value, or straight to a stop once a setting mismatched.
CarryNext(r, n) ==
    LET j == mem[r].cands[n]
        now == jobs[n]
        carriable == /\ vault = j.secret
                     /\ now # None /\ now.approval = j.approval /\ now.stopped = None
    IN /\ at[r] = "carry next"
       /\ j # None
       /\ Goto(r, "carry next",
               IF mem[r].why # None THEN "carry stop" ELSE IF carriable THEN "carry open" ELSE "carry next",
               IF mem[r].why # None \/ carriable
               THEN [mem[r] EXCEPT !.cands[n] = None, !.name = n, !.job = j]
               ELSE [mem[r] EXCEPT !.cands[n] = None])
       /\ UNCHANGED <<world, kept, keys, running, ghosts, bounds>>

\* The vault is locked, the job's key cannot be used, or the copy changed.
CarryCannotOpen(r) ==
    /\ Answer(r, "carry open")
    /\ UNCHANGED <<world, kept, keys, running, ghosts, bounds>>

CarryCompare(r) ==
    LET j == mem[r].job
        same == mem[r].value = j.secret
    IN /\ at[r] = "carry open"
       /\ vault = j.secret /\ (j.never => j.approval \in keys)
       /\ Goto(r, "carry open", IF same THEN "carry check" ELSE "carry stop",
               [mem[r] EXCEPT !.why = IF same THEN None ELSE "not as approved"])
       /\ guesses' = IF same THEN guesses ELSE [guesses EXCEPT ![j.approval] = @ + 1]
       /\ UNCHANGED <<world, kept, keys, running, approved, swaps, undeleted, bounds>>

\* stopCarried.
CarryStop(r) ==
    /\ Answer(r, "carry stop")
    /\ IF Going(r) THEN StopJob(r, "not as approved") /\ SaveOrNot
                   ELSE UNCHANGED <<kept, faults>>
    /\ UNCHANGED <<world, keys, running, ghosts, given, restarts, changes>>

\* Mutant of CarryCheck: the file fingerprinted is not compared again, and the
\* carried job keeps the value read before.
CarryCheckOnce(r) ==
    /\ at[r] = "carry check" /\ setting # None
    /\ IF folder = mem[r].job.code
       THEN Goto(r, "carry check", "carry store", [mem[r] EXCEPT !.value = setting])
       ELSE Answer(r, "carry check")
    /\ UNCHANGED <<world, kept, keys, running, ghosts, bounds>>

\* The folder as approved, and the setting's file still the bytes compared.
CarryCheck(r) ==
    /\ at[r] = "carry check"
    /\ IF folder = mem[r].job.code /\ setting = mem[r].value
       THEN Go(r, "carry check", "carry store") /\ UNCHANGED mem
       ELSE Answer(r, "carry check")
    /\ UNCHANGED <<world, kept, keys, running, ghosts, bounds>>

\* Mutant of CarryStore: the copy, with its setting, replaces the stored job.
CarryStoreCopy(r) ==
    /\ Answer(r, "carry store")
    /\ IF Current(r)
       THEN \E saved \in Flags :
               SaveOrRollBack([jobs EXCEPT ![mem[r].name] = [mem[r].job EXCEPT !.carried = mem[r].value]], saved)
       ELSE UNCHANGED <<kept, faults>>
    /\ UNCHANGED <<world, keys, running, ghosts, given, restarts, changes>>

\* storeCarried.
CarryStore(r) ==
    LET cur == jobs[mem[r].name]
    IN /\ Answer(r, "carry store")
       /\ IF Going(r) /\ cur.code = mem[r].job.code /\ cur.carried = mem[r].job.carried
          THEN \E saved \in Flags :
                  SaveOrRollBack([jobs EXCEPT ![mem[r].name].carried = mem[r].value], saved)
          ELSE UNCHANGED <<kept, faults>>
       /\ UNCHANGED <<world, keys, running, ghosts, given, restarts, changes>>

CarryEnd(r) ==
    /\ mem[r].cands = NoCands /\ End(r, "carry next")
    /\ UNCHANGED <<world, kept, keys, running, ghosts, bounds>>

Carry(r) ==
    \/ CarryStart(r) \/ CarryCannotOpen(r) \/ CarryCompare(r) \/ CarryStop(r)
    \/ \E n \in Names : CarryNext(r, n)
    \/ CarryCheck(r) \/ CarryStore(r) \/ CarryEnd(r)

-------------------------------------------------------------------------------
Change == changes < MaxChanges /\ changes' = changes + 1

\* Any program of the user, the caller of a job among them, may write the
\* folder and the settings; the vault changes by its commands.
Edit ==
    /\ Change /\ folder' \in Contents /\ folder' # folder
    /\ UNCHANGED <<vault, setting, kept, keys, running, at, mem, ghosts, given, faults, restarts>>

ChangeVault ==
    /\ Change /\ vault' \in Optional(Versions) /\ vault' # vault
    /\ UNCHANGED <<folder, setting, kept, keys, running, at, mem, ghosts, given, faults, restarts>>

ChangeSetting ==
    /\ Change /\ setting' \in Optional(Versions) /\ setting' # setting
    /\ UNCHANGED <<folder, vault, kept, keys, running, at, mem, ghosts, given, faults, restarts>>

Named(k, stored) == \E n \in Names : stored[n] # None /\ stored[n].never /\ stored[n].approval = k

\* SetJobStore and DeleteOrphanGrantKeys, before the service listens.
Restart ==
    /\ restarts < MaxRestarts /\ restarts' = restarts + 1
    /\ jobs' = disk
    /\ keys' = {k \in keys : Named(k, disk)} /\ undeleted' = {}
    /\ running' = {}
    /\ at' = [r \in Requests |-> "idle"] /\ mem' = [r \in Requests |-> Blank]
    /\ swaps' = [a \in Approvals |-> 0] /\ guesses' = [a \in Approvals |-> 0]
    /\ UNCHANGED <<world, disk, approved, given, faults, changes>>

Next ==
    \/ \E r \in Requests :
         Allow(r) \/ Run(r) \/ Carry(r) \/ \E n \in Names : Remove(r, n)
    \/ Edit \/ ChangeVault \/ ChangeSetting \/ Restart

Spec == Init /\ [][Next]_vars

-------------------------------------------------------------------------------
TypeOK ==
    /\ folder \in Contents /\ vault \in Optional(Versions) /\ setting \in Optional(Versions)
    /\ {jobs, disk} \subseteq [Names -> Optional(Job)]
    /\ {keys, undeleted} \subseteq SUBSET Approvals
    /\ running = {mem[r].name : r \in {q \in Requests : at[q] \in Held}}
    /\ at \in [Requests -> Places] /\ mem \in [Requests -> Memory]
    /\ approved \in [Approvals -> Optional([code : Contents, value : Versions])]
    /\ given \in 0 .. MaxApprovals /\ faults \in 0 .. MaxFaults /\ restarts \in 0 .. MaxRestarts
    /\ changes \in 0 .. MaxChanges

(* One approval buys one caught swap of the code, and one guess at the value *)
(* of a secret, while the service lives: however many requests the caller    *)
(* overlaps, the first of each stops the job before a second can be tried    *)
(* (job.go:738, jobcarry.go:207).                                            *)
OneTryPerApproval == \A a \in Approvals : swaps[a] <= 1 /\ guesses[a] <= 1

(* A stored job runs the folder its human was shown and reads the value they *)
(* approved, whichever of the vault and a setting holds it now, although     *)
(* both may be rewritten while they are checked (job.go:351, jobcarry.go:226).*)
JobIsWhatWasApproved ==
    \A n \in Names : jobs[n] # None =>
        LET shown == approved[jobs[n].approval]
        IN /\ jobs[n].code = shown.code
           /\ (IF HasSecret(jobs[n]) THEN jobs[n].secret ELSE jobs[n].carried) = shown.value

(* A stopped job stays stopped until it is approved again or removed; no     *)
(* carry or run under way brings it back (job.go:979, jobcarry.go:269).      *)
StopIsSticky ==
    [][\A n \in Names :
         /\ jobs[n] # None /\ jobs[n].stopped # None
         /\ jobs'[n] # None /\ jobs'[n].approval = jobs[n].approval
         => jobs'[n].stopped # None \/ restarts' # restarts]_vars

(* A caller that was caught has had its try.                                 *)
OneTryAndStopped == []OneTryPerApproval /\ StopIsSticky

(* A job that never asks has its key, in memory and in jobs.json, so at      *)
(* whichever moment the service dies: a replacement whose save failed has    *)
(* not cost the old job its key (job.go:416, :450).                          *)
KeyOfAJobIsKept ==
    \A stored \in {jobs, disk}, n \in Names :
        stored[n] # None /\ stored[n].never => stored[n].approval \in keys

(* No key outlives its job: one that no stored job names belongs to a        *)
(* request under way, or could not be deleted (job.go:446).                  *)
NoStrayKey ==
    \A k \in keys :
        \/ Named(k, jobs) \/ k \in undeleted
        \/ \E r \in Requests : \/ at[r] = "allow save" /\ mem[r].job.approval = k
                               \/ at[r] = "delete key" /\ mem[r].key = k

(* The keys in the store are those of the jobs, no fewer and no more.        *)
KeysFollowJobs == TypeOK /\ KeyOfAJobIsKept /\ NoStrayKey

(* A job carried to its setting is not stopped for the move: only one that   *)
(* "was not carried along" is (job.go:770).                                  *)
CarriedIsNotStoppedForTheMove ==
    [][\A n \in Names :
         jobs[n] # None /\ jobs'[n] # None /\ jobs[n].carried # None /\ jobs[n].stopped = None
         => jobs'[n].stopped # "moved"]_vars
===============================================================================
