-------------------------------- MODULE Mounts --------------------------------
(***************************************************************************)
(* One mounted .env and everything the service does to it.  A Serve        *)
(* goroutine stands behind the named pipe at its path and writes decoys,   *)
(* or the real content while a session has armed it.  `jit run` attaches   *)
(* to it, either as a grant (the pipe stays) or as a swap (a pointer file  *)
(* stands in its place until the last such run ends); `jit unmount` puts   *)
(* the plain file back; unlocks, locks and refreshes come at any time.     *)
(* All of these are handlers of their own, with locks held only for some   *)
(* of their steps.  The registry lists the mount or does not; a process    *)
(* identifier is not used again.                                           *)
(* Sources: src/internal/cli/mountmanager.go, mountruns.go, mountswap.go,  *)
(* unmount.go, src/internal/mount/mount.go, swap.go.                       *)
(***************************************************************************)
EXTENDS Naturals

CONSTANTS
    Handlers,      \* goroutines of the service, and `jit unmount` commands
    Procs,         \* target processes of `jit run`
    Servers,       \* incarnations of servedMount; one that has ended is used again
    None,
    MaxSessions,   \* bound: unlocks
    MaxCrashes     \* bound: deaths of the service

ASSUME BoundsAreNaturals == {MaxSessions, MaxCrashes} \subseteq Nat
Modes == {"grant", "swap"}
ASSUME NoneIsNobody == None \notin Handlers \union Procs \union Servers \union Modes

VARIABLES
    up,            \* the service runs
    disk,          \* what is at the mount's path
    registered,    \* mounts.yaml lists it
    open, session, \* whether the session is open, and how many there were
    served,        \* m.served[path]
    servers,       \* each servedMount and where its Serve goroutine is
    alive, runs,   \* target processes; m.runs, as the mode each holds this mount in
    swapMu,        \* the handler holding it
    at, mem,       \* where each handler is, and what it holds
    crossed,       \* ghost: a scan served the path while the mount was away, or an
                   \* unmount waited for its Serve goroutine when a swap came
    crashes

vars == <<up, disk, registered, open, session, served, servers, alive, runs,
          swapMu, at, mem, crossed, crashes>>
sessionVars == <<open, session>>
serveVars == <<served, servers>>
runVars == <<alive, runs>>
rest == <<up, registered, crashes>>

\* plain: the user's own file; spoiled: a regular file with decoys written over it
Contents == {"pipe", "pointer", "plain", "spoiled"}
ServePlaces == {"done", "loop", "waiting", "serving", "written"}
Places == {"idle", "ensure", "claim", "capture", "decrypt", "install",
           "stop", "clear runs", "restore",
           "reveal", "await", "swap file", "register", "arm",
           "unmount await", "unmount write", "unmount forget"}
\* fd: what a Serve cycle has open; onPath: whether that is what is at the path
ServedMount == [at : ServePlaces, cancelled : BOOLEAN, fd : {"pipe", "file"}, onPath : BOOLEAN,
                gen : Nat, real : 0 .. MaxSessions]
\* real and val: the session whose key decrypted the content, 0 for none
Memory == [sm : Servers \union {None}, gen : Nat, val : 0 .. MaxSessions,
           proc : Procs \union {None}, mode : Modes \union {None}]
Blank == [sm |-> None, gen |-> 0, val |-> 0, proc |-> None, mode |-> None]
Ended == [at |-> "done", cancelled |-> FALSE, fd |-> "pipe", onPath |-> FALSE, gen |-> 0, real |-> 0]

\* mountSwapHeldByAnyLocked, mountSwapHeldByOtherLocked
HeldByAny == \E p \in Procs : runs[p] = "swap"
HeldByOther(p) == \E q \in Procs \ {p} : runs[q] = "swap"

Init ==
    /\ up = TRUE /\ disk = "pipe" /\ registered = TRUE
    /\ open = FALSE /\ session = 0
    /\ \E i \in Servers :
         /\ served = i
         /\ servers = [j \in Servers |-> IF j = i THEN [Ended EXCEPT !.at = "loop"] ELSE Ended]
    /\ alive = Procs /\ runs = [p \in Procs |-> None]
    /\ swapMu = None
    /\ at = [h \in Handlers |-> "idle"] /\ mem = [h \in Handlers |-> Blank]
    /\ crossed = FALSE /\ crashes = 0

-------------------------------------------------------------------------------
(* Handlers *)

Go(h, from, to) == at[h] = from /\ at' = [at EXCEPT ![h] = to]
Start(h, to, m) == Go(h, "idle", to) /\ mem' = [mem EXCEPT ![h] = m]
Remember(h, m) == mem' = [mem EXCEPT ![h] = m]

\* A handler's work on the mount ends: the swap lock goes if it was held.
Finish(h, from) ==
    /\ Go(h, from, "idle")
    /\ Remember(h, Blank)
    /\ swapMu' = IF swapMu = h THEN None ELSE swapMu

Free(i) == servers[i].at = "done" /\ i # served /\ \A h \in Handlers : mem[h].sm # i
OffPath(s) == [i \in Servers |-> [s[i] EXCEPT !.onPath = FALSE]]

-------------------------------------------------------------------------------
(* OnUnlock and OnRefresh: start *)

\* A fresh unlock scans the mounts, unless notifyFresh folds its scan away.
Unlock(h) ==
    /\ up /\ ~open /\ session < MaxSessions
    /\ open' = TRUE /\ session' = session + 1
    /\ \/ registered /\ Start(h, "ensure", Blank)
       \/ at[h] = "idle" /\ UNCHANGED <<at, mem>>
    /\ UNCHANGED <<rest, disk, serveVars, runVars, swapMu, crossed>>

Refresh(h) ==
    /\ up /\ open /\ registered /\ Start(h, "ensure", Blank)
    /\ UNCHANGED <<rest, disk, sessionVars, serveVars, runVars, swapMu, crossed>>

\* A scan goes on to resolve; resumeServing, under the swap lock, does so only
\* while the session is open.
ToResolve(h, from) ==
    IF swapMu = h /\ ~open THEN Finish(h, from)
    ELSE Go(h, from, "capture") /\ UNCHANGED <<mem, swapMu>>

\* ensureServing's first check.
EnsureServing(h) ==
    /\ IF served = None THEN Go(h, "ensure", "claim") /\ UNCHANGED <<mem, swapMu>>
       ELSE ToResolve(h, "ensure")
    /\ UNCHANGED <<rest, disk, sessionVars, serveVars, runVars, crossed>>

\* The pipe was taken away on purpose, or is about to be.
Away(h) ==
    \/ disk # "pipe" \/ ~registered \/ swapMu \notin {None, h}
    \/ \E g \in Handlers : at[g] \in {"unmount await", "unmount write", "unmount forget"}

Serve(h) ==
    /\ \E i \in Servers :
         /\ Free(i) /\ served' = i
         /\ servers' = [servers EXCEPT ![i] = [Ended EXCEPT !.at = "loop"]]
    /\ crossed' = (crossed \/ Away(h))

\* The second check, in one critical section with the insert.
Claim(h) ==
    /\ at[h] = "claim"
    /\ IF served = None THEN Serve(h) ELSE UNCHANGED <<serveVars, crossed>>
    /\ ToResolve(h, "claim")
    /\ UNCHANGED <<rest, disk, sessionVars, runVars>>

-------------------------------------------------------------------------------
(* resolveReal *)

Capture(h) ==
    /\ IF served = None THEN Finish(h, "capture")
       ELSE /\ Go(h, "capture", "decrypt")
            /\ Remember(h, [mem[h] EXCEPT !.sm = served, !.gen = servers[served].gen])
            /\ UNCHANGED swapMu
    /\ UNCHANGED <<rest, disk, sessionVars, serveVars, runVars, crossed>>

Decrypt(h) ==
    /\ open /\ Go(h, "decrypt", "install")
    /\ Remember(h, [mem[h] EXCEPT !.val = session])
    /\ UNCHANGED <<rest, disk, sessionVars, serveVars, runVars, swapMu, crossed>>

\* The session ended since: the unwrap prompts, and an approval opens another.
DecryptPrompts(h) ==
    /\ ~open /\ session < MaxSessions /\ Go(h, "decrypt", "install")
    /\ open' = TRUE /\ session' = session + 1
    /\ Remember(h, [mem[h] EXCEPT !.val = session + 1])
    /\ UNCHANGED <<rest, disk, serveVars, runVars, swapMu, crossed>>

\* Refused, or the profile, a secret or the template cannot be read.
DecryptFails(h) ==
    /\ Finish(h, "decrypt")
    /\ UNCHANGED <<rest, disk, sessionVars, serveVars, runVars, crossed>>

Arm(i, val) == servers' = [servers EXCEPT ![i].real = val]

\* Mutant of Install: whatever the lock did meanwhile, the content is armed.
InstallAnyGen(h) ==
    /\ at[h] = "install" /\ Arm(mem[h].sm, mem[h].val) /\ Finish(h, "install")
    /\ UNCHANGED <<rest, disk, sessionVars, served, runVars, crossed>>

\* setRealIfGen
Install(h) ==
    /\ at[h] = "install"
    /\ IF servers[mem[h].sm].gen = mem[h].gen THEN Arm(mem[h].sm, mem[h].val) ELSE UNCHANGED servers
    /\ Finish(h, "install")
    /\ UNCHANGED <<rest, disk, sessionVars, served, runVars, crossed>>

-------------------------------------------------------------------------------
(* OnLock: stop *)

Lock(h) ==
    /\ up /\ open /\ Start(h, "stop", Blank)
    /\ open' = FALSE
    /\ UNCHANGED <<rest, disk, session, serveVars, runVars, swapMu, crossed>>

Invalidate(h) ==
    /\ Go(h, "stop", "clear runs")
    /\ servers' = IF served = None THEN servers
                  ELSE [servers EXCEPT ![served] = [servers[served] EXCEPT !.gen = @ + 1, !.real = 0]]
    /\ UNCHANGED <<rest, disk, sessionVars, served, runVars, swapMu, mem, crossed>>

ClearRuns(h) ==
    /\ Go(h, "clear runs", IF HeldByAny THEN "restore" ELSE "idle")
    /\ runs' = [p \in Procs |-> None]
    /\ UNCHANGED <<rest, disk, sessionVars, serveVars, alive, swapMu, mem, crossed>>

-------------------------------------------------------------------------------
(* OnRevealPID: revealForPID *)

\* A run asks once for a mount.
Reveal(h, p, m) ==
    /\ up /\ open /\ p \in alive /\ runs[p] = None /\ \A g \in Handlers : mem[g].proc # p
    /\ Start(h, "reveal", [Blank EXCEPT !.proc = p, !.mode = m])
    /\ UNCHANGED <<rest, disk, sessionVars, serveVars, runVars, swapMu, crossed>>

\* validateGrantMount
RevealGrant(h) ==
    /\ mem[h].mode = "grant"
    /\ IF served # None /\ servers[served].real # 0 THEN Go(h, "reveal", "register") /\ UNCHANGED mem
       ELSE Go(h, "reveal", "idle") /\ Remember(h, Blank)
    /\ UNCHANGED <<rest, disk, sessionVars, serveVars, runVars, swapMu, crossed>>

\* Mutant of StopServing: the caller goes on as soon as it has cancelled.
StopServingNoWait(h, from, await, then, m) ==
    /\ served' = None
    /\ servers' = IF served = None THEN servers ELSE [servers EXCEPT ![served].cancelled = TRUE]
    /\ Go(h, from, then) /\ Remember(h, m)

\* stopMount, up to its wait for the Serve goroutine to end.
StopServing(h, from, await, then, m) ==
    /\ served' = None
    /\ servers' = IF served = None THEN servers ELSE [servers EXCEPT ![served].cancelled = TRUE]
    /\ Go(h, from, IF served = None THEN then ELSE await)
    /\ Remember(h, [m EXCEPT !.sm = served])

RevealSwap(h) ==
    /\ mem[h].mode = "swap" /\ swapMu = None
    /\ \/ ~registered /\ Go(h, "reveal", "idle") /\ Remember(h, Blank) /\ UNCHANGED <<swapMu, serveVars>>
       \/ /\ registered /\ HeldByOther(mem[h].proc)
          /\ Go(h, "reveal", "register") /\ swapMu' = h /\ UNCHANGED <<mem, serveVars>>
       \/ /\ registered /\ ~HeldByOther(mem[h].proc)
          /\ StopServing(h, "reveal", "await", "swap file", mem[h]) /\ swapMu' = h
    /\ crossed' = (crossed \/ \E g \in Handlers : at[g] = "unmount await")
    /\ UNCHANGED <<rest, disk, sessionVars, runVars>>

Awaited(h, from, to) ==
    /\ mem[h].sm # None /\ servers[mem[h].sm].at = "done"
    /\ Go(h, from, to) /\ Remember(h, [mem[h] EXCEPT !.sm = None])

Await(h) ==
    /\ Awaited(h, "await", "swap file")
    /\ UNCHANGED <<rest, disk, sessionVars, serveVars, runVars, swapMu, crossed>>

\* Something else is at the path from here on; a pipe that was there is orphaned.
Place(what) == disk' = what /\ servers' = OffPath(servers)

\* SwapToPointer, which leaves anything that is no pipe alone.
SwapIn(h) ==
    /\ Go(h, "swap file", "register")
    /\ IF disk = "pipe" THEN Place("pointer") ELSE UNCHANGED <<disk, servers>>
    /\ UNCHANGED <<rest, sessionVars, served, runVars, swapMu, mem, crossed>>

\* It fails: the pipe is put back and served again.
SwapInFails(h) ==
    /\ disk = "pipe" /\ Go(h, "swap file", "ensure") /\ Remember(h, Blank)
    /\ UNCHANGED <<rest, disk, sessionVars, serveVars, runVars, swapMu, crossed>>

\* Mutant of Register: the exit watch is armed before the swap lock is released.
RegisterLocked(h) ==
    /\ at[h] = "register"
    /\ runs' = [runs EXCEPT ![mem[h].proc] = mem[h].mode]
    /\ Go(h, "register", "arm")
    /\ UNCHANGED <<rest, disk, sessionVars, serveVars, alive, swapMu, mem, crossed>>

\* registerRun, under the swap lock in either mode
Register(h) ==
    /\ at[h] = "register" /\ swapMu = IF mem[h].mode = "swap" THEN h ELSE None
    /\ runs' = [runs EXCEPT ![mem[h].proc] = mem[h].mode]
    /\ Go(h, "register", "arm") /\ swapMu' = None
    /\ UNCHANGED <<rest, disk, sessionVars, serveVars, alive, mem, crossed>>

-------------------------------------------------------------------------------
(* The end of a run *)

\* onRunExit
RunEnds(h, from, p) ==
    /\ runs' = [runs EXCEPT ![p] = None]
    /\ Go(h, from, IF runs[p] = "swap" /\ ~HeldByOther(p) THEN "restore" ELSE "idle")
    /\ Remember(h, Blank)

\* watchRunPID: the process may have ended before.
WatchRun(h) ==
    /\ at[h] = "arm"
    /\ IF mem[h].proc \in alive THEN Go(h, "arm", "idle") /\ Remember(h, Blank) /\ UNCHANGED runs
       ELSE RunEnds(h, "arm", mem[h].proc)
    /\ UNCHANGED <<rest, disk, sessionVars, serveVars, alive, swapMu, crossed>>

ProcExit(p) ==
    /\ p \in alive /\ alive' = alive \ {p}
    /\ UNCHANGED <<rest, disk, sessionVars, serveVars, runs, swapMu, at, mem, crossed>>

\* The exit watch, a status read or a reader's grant check finds it gone; the
\* reader's leaves the restore to a goroutine of its own.
RunGone(h, p) ==
    /\ up /\ runs[p] # None /\ p \notin alive /\ RunEnds(h, "idle", p)
    /\ UNCHANGED <<rest, disk, sessionVars, serveVars, alive, swapMu, crossed>>

\* RestoreFIFO
PutBack == IF disk = "pipe" THEN UNCHANGED <<disk, servers>> ELSE Place("pipe")

\* Mutant of Restore: decided when the run ended, and not asked again.
RestoreUnchecked(h) ==
    /\ swapMu = None
    /\ IF ~registered
       THEN Go(h, "restore", "idle") /\ UNCHANGED <<disk, servers, swapMu>>
       ELSE Go(h, "restore", "ensure") /\ PutBack /\ swapMu' = h
    /\ UNCHANGED <<rest, sessionVars, served, runVars, mem, crossed>>

\* restoreSwappedMount
Restore(h) ==
    /\ swapMu = None
    /\ IF HeldByAny \/ ~registered
       THEN Go(h, "restore", "idle") /\ UNCHANGED <<disk, servers, swapMu>>
       ELSE Go(h, "restore", "ensure") /\ PutBack /\ swapMu' = h
    /\ UNCHANGED <<rest, sessionVars, served, runVars, mem, crossed>>

-------------------------------------------------------------------------------
(* jit unmount *)

Unmount(h) ==
    /\ registered
    /\ IF up THEN StopServing(h, "idle", "unmount await", "unmount write", Blank)
       ELSE Start(h, "unmount write", Blank) /\ UNCHANGED serveVars
    /\ UNCHANGED <<rest, disk, sessionVars, runVars, swapMu, crossed>>

UnmountAwait(h) ==
    /\ Awaited(h, "unmount await", "unmount write")
    /\ UNCHANGED <<rest, disk, sessionVars, serveVars, runVars, swapMu, crossed>>

\* The fingerprint is refused, or a secret cannot be resolved.
UnmountRefused(h) ==
    /\ Go(h, "unmount write", "idle") /\ Remember(h, Blank)
    /\ UNCHANGED <<rest, disk, sessionVars, serveVars, runVars, swapMu, crossed>>

UnmountWrite(h) ==
    /\ Go(h, "unmount write", "unmount forget") /\ Place("plain")
    /\ UNCHANGED <<rest, sessionVars, served, runVars, swapMu, mem, crossed>>

UnmountForget(h) ==
    /\ Go(h, "unmount forget", "idle") /\ Remember(h, Blank)
    /\ registered' = FALSE
    /\ UNCHANGED <<up, crashes, disk, sessionVars, serveVars, runVars, swapMu, crossed>>

-------------------------------------------------------------------------------
(* mount.Serve *)

Step(i, from, s) == servers[i].at = from /\ servers' = [servers EXCEPT ![i] = s]

\* The top of the loop: a pipe is waited on; a regular file opens at once.
ServeLoop(i) ==
    /\ Step(i, "loop", IF servers[i].cancelled THEN Ended
                       ELSE IF disk = "pipe" THEN [servers[i] EXCEPT !.at = "waiting", !.fd = "pipe", !.onPath = TRUE]
                       ELSE [servers[i] EXCEPT !.at = "serving", !.fd = "file", !.onPath = TRUE])
    /\ UNCHANGED <<rest, disk, sessionVars, served, runVars, swapMu, at, mem, crossed>>

ServeCancelled(i) ==
    /\ servers[i].cancelled /\ Step(i, "waiting", Ended)
    /\ UNCHANGED <<rest, disk, sessionVars, served, runVars, swapMu, at, mem, crossed>>

ServeReader(i) ==
    /\ servers[i].onPath /\ Step(i, "waiting", [servers[i] EXCEPT !.at = "serving"])
    /\ UNCHANGED <<rest, disk, sessionVars, served, runVars, swapMu, at, mem, crossed>>

ServeWrite(i) ==
    /\ Step(i, "serving", [servers[i] EXCEPT !.at = "written"])
    /\ disk' = IF servers[i].fd = "file" /\ servers[i].onPath THEN "spoiled" ELSE disk
    /\ UNCHANGED <<rest, sessionVars, served, runVars, swapMu, at, mem, crossed>>

\* Nobody lingers: what is at the path is used again.
ServeReuse(i) ==
    /\ Step(i, "written", [servers[i] EXCEPT !.at = "loop", !.fd = "pipe", !.onPath = FALSE])
    /\ UNCHANGED <<rest, disk, sessionVars, served, runVars, swapMu, at, mem, crossed>>

\* isolateHeldPipe: a fresh pipe is renamed over whatever is at the path.
ServeIsolate(i) ==
    /\ servers[i].at = "written"
    /\ disk' = "pipe"
    /\ servers' = [OffPath(servers) EXCEPT ![i].at = "loop", ![i].fd = "pipe"]
    /\ UNCHANGED <<rest, sessionVars, served, runVars, swapMu, at, mem, crossed>>

-------------------------------------------------------------------------------
(* The service dies and is started again *)

OfCommand(h) == at[h] \in {"unmount write", "unmount forget"}

Crash ==
    /\ up /\ crashes < MaxCrashes /\ crashes' = crashes + 1
    /\ up' = FALSE /\ open' = FALSE
    /\ served' = None /\ servers' = [i \in Servers |-> Ended]
    /\ runs' = [p \in Procs |-> None]
    /\ swapMu' = None
    /\ at' = [h \in Handlers |-> IF OfCommand(h) THEN at[h] ELSE "idle"]
    /\ mem' = [h \in Handlers |-> IF OfCommand(h) THEN mem[h] ELSE Blank]
    /\ UNCHANGED <<disk, registered, session, alive, crossed>>

\* startDecoyOnly: jit's own pointer file is taken back, and what is listed is served.
Restart ==
    /\ ~up /\ up' = TRUE
    /\ disk' = IF disk = "pointer" /\ registered THEN "pipe" ELSE disk
    /\ IF registered THEN
            \E i \in Servers :
                /\ served' = i /\ servers' = [servers EXCEPT ![i] = [Ended EXCEPT !.at = "loop"]]
                /\ crossed' = (crossed \/ disk \notin {"pipe", "pointer"} \/ \E h \in Handlers : OfCommand(h))
       ELSE UNCHANGED <<serveVars, crossed>>
    /\ UNCHANGED <<registered, crashes, sessionVars, runVars, swapMu, at, mem>>

-------------------------------------------------------------------------------
Scan(h) ==
    \/ EnsureServing(h) \/ Claim(h)
    \/ Capture(h) \/ Decrypt(h) \/ DecryptPrompts(h) \/ DecryptFails(h) \/ Install(h)
Stop(h) == Invalidate(h) \/ ClearRuns(h) \/ Restore(h)
RevealForPID(h) ==
    \/ RevealGrant(h) \/ RevealSwap(h) \/ Await(h) \/ SwapIn(h) \/ SwapInFails(h)
    \/ Register(h) \/ WatchRun(h)
Unmounting(h) == UnmountAwait(h) \/ UnmountRefused(h) \/ UnmountWrite(h) \/ UnmountForget(h)
Handle(h) == Scan(h) \/ Stop(h) \/ RevealForPID(h) \/ Unmounting(h)
Come(h) ==
    \/ Unlock(h) \/ Refresh(h) \/ Lock(h) \/ Unmount(h)
    \/ \E p \in Procs : RunGone(h, p) \/ \E m \in Modes : Reveal(h, p, m)
Serving(i) ==
    ServeLoop(i) \/ ServeCancelled(i) \/ ServeReader(i) \/ ServeWrite(i) \/ ServeReuse(i) \/ ServeIsolate(i)

Next ==
    \/ \E h \in Handlers : Handle(h) \/ Come(h)
    \/ \E i \in Servers : Serving(i)
    \/ \E p \in Procs : ProcExit(p)
    \/ Crash \/ Restart

Spec == Init /\ [][Next]_vars

-------------------------------------------------------------------------------
TypeOK ==
    /\ up \in BOOLEAN /\ disk \in Contents /\ registered \in BOOLEAN
    /\ open \in BOOLEAN /\ session \in 0 .. MaxSessions
    /\ served \in Servers \union {None} /\ servers \in [Servers -> ServedMount]
    /\ served # None => servers[served].at # "done"
    /\ alive \subseteq Procs /\ runs \in [Procs -> Modes \union {None}]
    /\ swapMu \in Handlers \union {None}
    /\ at \in [Handlers -> Places] /\ mem \in [Handlers -> Memory]
    /\ crossed \in BOOLEAN /\ crashes \in 0 .. MaxCrashes

(* Real content is armed only by the session that is open, or until the    *)
(* lock that ended its session comes to it: a resolve that was under way   *)
(* when the lock came installs nothing after it.                           *)
RealIsOfTheSession ==
    served # None /\ servers[served].real # 0 =>
        \/ open /\ servers[served].real = session
        \/ \E h \in Handlers : at[h] = "stop"

(* A Serve goroutine that goes on is the one at the path, or somebody      *)
(* waits for it to end before touching the file: none is left that nothing *)
(* can cancel, and none that still writes to, or renames a pipe over, a    *)
(* path it was stopped for (stopMount, ensureServing).                     *)
NoStrayServer ==
    \A i \in Servers : servers[i].at # "done" =>
        i = served \/ \E h \in Handlers : at[h] \in {"await", "unmount await"} /\ mem[h].sm = i

(* A run that swapped the mount finds a regular file there for as long as  *)
(* it is attached, however other runs of the same mount come and go.       *)
(* What breaks this is noted in crossed: a scan that serves the path       *)
(* meanwhile, and a swap that finds an unmount waiting, and so does not.   *)
SwapIsAFile == HeldByAny /\ ~crossed => disk # "pipe"

(* A pointer file belongs to a run, or is about to be taken back: whatever *)
(* ends the runs, none is left for good at a mount that is listed.         *)
PointerIsOwned ==
    up /\ registered /\ disk = "pointer" =>
        HeldByAny \/ \E h \in Handlers : at[h] \in {"register", "restore"}

(* The file is a pointer file exactly as long as a run needs it to be.       *)
SwapFollowsRuns == TypeOK /\ SwapIsAFile /\ PointerIsOwned

(* Who holds the swap lock never waits for it: a run that ended before its *)
(* watch was armed is torn down by the handler that attached it.           *)
NoSelfDeadlock == \A h \in Handlers : swapMu = h => at[h] \notin {"reveal", "restore"}

(* A file a user has at the path is left alone, whatever the registry says *)
(* (reconcileSwappedMounts: "left untouched and surfaced, never            *)
(* clobbered").  It is not: any scan serves what is listed.                *)
UserFileLeftAlone == [][disk = "plain" => disk' = "plain"]_disk
===============================================================================
