--------------------------- MODULE ProcessGrants ---------------------------
(***************************************************************************)
(* Timed process grants (internal/agent/grant.go): a human approves once   *)
(* that one process tree may unwrap named secrets until a deadline; the    *)
(* plaintext keys wait in memory and outlive every lock of the session.    *)
(* One action is one critical section on grantMu, or one step between two. *)
(* Requests:                                                               *)
(*   "create"  createGrant, for the one root process                       *)
(*   "extend"  extendGrant: a new prompt, then a new deadline              *)
(*   "revoke"  revokeGrant: no prompt                                      *)
(*   "serve"   grantUnwrap's timedUnwrap, of bytes every grant covers      *)
(*   "list"    listGrants, or an unwrap no grant covers: pruneGrants       *)
(* Each grant carries the id of the request that created it.  Of the       *)
(* disclosed prompt only challengeMu and its answer are kept: its backoff  *)
(* is in Session, and reads here as a refusal.                             *)
(***************************************************************************)
EXTENDS Naturals, FiniteSets

CONSTANTS
    Requests,
    NoOne,
    OpsOf,           \* what each request may ask for
    GrantTTL,        \* the ttl every create and extend asks for
    MaxClock,        \* bound: the clock stops here
    MaxRecycled      \* bound: how often the root's pid is given out again

ASSUME GrantNoOneAssumption == NoOne \notin Requests
ASSUME GrantTTLAssumption == GrantTTL \in Nat \ {0}
ASSUME GrantOpsAssumption ==
    \A r \in Requests :
        OpsOf[r] \subseteq {"create", "extend", "revoke", "serve", "list"}
ASSUME GrantBoundsAssumption == MaxClock \in Nat /\ MaxRecycled \in Nat

VARIABLES
    now,
    alive, start,    \* the root's pid: is there a process, and which (its fork time)
    grants,          \* Server.grants, with the ended ones kept for the record
    handle,          \* Server.grantTimers: the timer registered for each id
    armed,           \* running timers
    fired,           \* timers that went off and wait for grantMu
    expiring,        \* grants a timer found expired and is about to end
    timerRecords,    \* grants a timer ended and has not recorded yet
    armings,         \* how many timers were made: their identity
    challenger,      \* holder of challengeMu
    local,           \* each request's place and its variables
    ends,            \* KindGrantEnd events of each grant
    crossed          \* history: whose deadline was last moved while another
                     \* request was still arming a timer for it

processVars == <<alive, start>>
timerVars == <<handle, armed, fired, expiring, timerRecords, armings>>
vars == <<now, processVars, grants, timerVars, challenger, local, ends, crossed>>

Causes == {"none", "expired", "revoked", "exited"}
Grant == [state : {"none", "live", "ended"}, start : Nat, expires : Nat]
GrantTimer == [n : Nat, id : Requests, due : Nat]
Places == {"idle", "stamp", "queue", "prompt", "build", "insert", "arm",
           "register", "read", "verify", "extend", "revoke", "snapshot",
           "walk", "take", "prune", "pruning", "end", "record", "done"}
Local == [pc : Places, ret : Places,
          op : {"none", "create", "extend", "revoke", "serve", "list"},
          id : Requests,                       \* the grant in hand
          start : Nat,                         \* fork time noted before a prompt
          expires : Nat,                       \* deadline it will arm for
          tree : Nat,                          \* the root it descends from
          seen : Nat,                          \* the clock it read
          cause : Causes,                      \* why it ends the grant in hand
          checks : SUBSET [id : Requests, expired : BOOLEAN],
          timer : Nat,                         \* the timer it just made
          served : BOOLEAN]

TypeOK ==
    /\ now \in Nat
    /\ alive \in BOOLEAN /\ start \in Nat
    /\ grants \in [Requests -> Grant]
    /\ handle \in [Requests -> SUBSET Nat]
    /\ armed \subseteq GrantTimer /\ fired \subseteq GrantTimer
    /\ expiring \subseteq Requests /\ timerRecords \subseteq Requests
    /\ armings \in Nat
    /\ challenger \in Requests \cup {NoOne}
    /\ local \in [Requests -> Local]
    /\ ends \in [Requests -> Nat]
    /\ crossed \subseteq Requests

Init ==
    /\ now = 1
    /\ alive = TRUE /\ start = 1
    /\ grants = [r \in Requests |-> [state |-> "none", start |-> 0, expires |-> 0]]
    /\ handle = [r \in Requests |-> {}]
    /\ armed = {} /\ fired = {}
    /\ expiring = {} /\ timerRecords = {}
    /\ armings = 0
    /\ challenger = NoOne
    /\ local = [r \in Requests |->
                  [pc |-> "idle", ret |-> "done", op |-> "none", id |-> r,
                   start |-> 0, expires |-> 0, tree |-> 0, seen |-> 0,
                   cause |-> "none", checks |-> {}, timer |-> 0,
                   served |-> FALSE]]
    /\ ends = [r \in Requests |-> 0]
    /\ crossed = {}

-----------------------------------------------------------------------------
At(r, place) == local[r].pc = place
Goto(r, place) == local' = [local EXCEPT ![r].pc = place]
IsLive(id) == grants[id].state = "live"
RootIs(stamp) == alive /\ start = stamp

\* r goes on to end the grant id, and then to the place ret.
GoEnd(r, id, cause, ret) ==
    local' = [local EXCEPT ![r].pc = "end", ![r].id = id, ![r].cause = cause,
                           ![r].ret = ret]

-----------------------------------------------------------------------------
(* createGrant.                                                            *)

\* The target is stamped before the prompt.
CreateStamp(r) ==
    /\ At(r, "stamp")
    /\ local' = [local EXCEPT ![r].pc = IF alive THEN "queue" ELSE "done",
                              ![r].start = start]
    /\ UNCHANGED <<now, processVars, grants, timerVars, challenger, ends, crossed>>

\* discloseChallengeOp.
PromptQueue(r) ==
    /\ At(r, "queue")
    /\ challenger = NoOne
    /\ challenger' = r
    /\ Goto(r, "prompt")
    /\ UNCHANGED <<now, processVars, grants, timerVars, ends, crossed>>

PromptApproved(r) ==
    /\ At(r, "prompt")
    /\ challenger' = NoOne
    /\ Goto(r, IF local[r].op = "create" THEN "build" ELSE "extend")
    /\ UNCHANGED <<now, processVars, grants, timerVars, ends, crossed>>

PromptRefused(r) ==
    /\ At(r, "prompt")
    /\ challenger' = NoOne
    /\ Goto(r, "done")
    /\ UNCHANGED <<now, processVars, grants, timerVars, ends, crossed>>

\* Every covered secret is unwrapped, or nothing is granted; and the process
\* the prompt named must still be there.
CreateBuild(r) ==
    /\ At(r, "build")
    /\ \/ Goto(r, "done")
       \/ /\ RootIs(local[r].start)
          /\ local' = [local EXCEPT ![r].pc = "insert",
                                    ![r].expires = now + GrantTTL]
    /\ UNCHANGED <<now, processVars, grants, timerVars, challenger, ends, crossed>>

CreateInsert(r) ==
    /\ At(r, "insert")
    /\ grants' = [grants EXCEPT ![r] = [state |-> "live",
                                        start |-> local[r].start,
                                        expires |-> local[r].expires]]
    /\ Goto(r, "arm")
    /\ UNCHANGED <<now, processVars, timerVars, challenger, ends, crossed>>

-----------------------------------------------------------------------------
(* armGrantExpiry: the timer runs before it is registered.                 *)

\* Mutant of ArmExpiry: armed for the deadline of the request, doubled.
ArmExpiryLate(r) ==
    /\ At(r, "arm")
    /\ armings' = armings + 1
    /\ armed' = armed \cup {[n |-> armings + 1, id |-> local[r].id,
                             due |-> local[r].expires + GrantTTL + 1]}
    /\ local' = [local EXCEPT ![r].pc = "register", ![r].timer = armings + 1]
    /\ UNCHANGED <<now, processVars, grants, handle, fired, expiring,
                   timerRecords, challenger, ends, crossed>>

ArmExpiry(r) ==
    /\ At(r, "arm")
    /\ armings' = armings + 1
    /\ armed' = armed \cup {[n |-> armings + 1, id |-> local[r].id,
                             due |-> local[r].expires + 1]}
    /\ local' = [local EXCEPT ![r].pc = "register", ![r].timer = armings + 1]
    /\ UNCHANGED <<now, processVars, grants, handle, fired, expiring,
                   timerRecords, challenger, ends, crossed>>

\* Mutant of RegisterTimer: the timer registered before is kept, the new one
\* stopped.
RegisterKeepsFirst(r) ==
    LET id == local[r].id
        kept == IF handle[id] = {} THEN {local[r].timer} ELSE handle[id]
    IN  /\ At(r, "register")
        /\ armed' = {t \in armed : t.n = local[r].timer => t.n \in kept}
        /\ handle' = [handle EXCEPT ![id] = kept]
        /\ Goto(r, "done")
        /\ UNCHANGED <<now, processVars, grants, fired, expiring,
                       timerRecords, armings, challenger, ends, crossed>>

\* The timer registered before is stopped, if it has not gone off.
RegisterTimer(r) ==
    LET id == local[r].id
    IN  /\ At(r, "register")
        /\ armed' = {t \in armed : t.n \notin handle[id]}
        /\ handle' = [handle EXCEPT ![id] = {local[r].timer}]
        /\ Goto(r, "done")
        /\ UNCHANGED <<now, processVars, grants, fired, expiring,
                       timerRecords, armings, challenger, ends, crossed>>

TimerFires ==
    /\ \E t \in armed : /\ now >= t.due
                        /\ armed' = armed \ {t}
                        /\ fired' = fired \cup {t}
    /\ UNCHANGED <<now, processVars, grants, handle, expiring, timerRecords,
                   armings, challenger, local, ends, crossed>>

\* The callback decides under grantMu, unregisters its own handle ...
TimerDecides ==
    /\ \E t \in fired :
          /\ fired' = fired \ {t}
          /\ handle' = [handle EXCEPT ![t.id] = @ \ {t.n}]
          /\ expiring' = IF IsLive(t.id) /\ now > grants[t.id].expires
                         THEN expiring \cup {t.id} ELSE expiring
    /\ UNCHANGED <<now, processVars, grants, armed, timerRecords, armings,
                   challenger, local, ends, crossed>>

-----------------------------------------------------------------------------
(* endGrantBy.                                                             *)

\* Mutant of EndLive: a grant already gone is ended again.
EndLiveAgain(id) ==
    /\ grants[id].state # "none"
    /\ grants' = [grants EXCEPT ![id].state = "ended"]
    /\ armed' = {t \in armed : t.n \notin handle[id]}
    /\ handle' = [handle EXCEPT ![id] = {}]

\* A live grant leaves the map, its keys are wiped, its timer stopped.
EndLive(id) ==
    /\ IsLive(id)
    /\ grants' = [grants EXCEPT ![id].state = "ended"]
    /\ armed' = {t \in armed : t.n \notin handle[id]}
    /\ handle' = [handle EXCEPT ![id] = {}]

End(r) ==
    /\ At(r, "end")
    /\ EndLive(local[r].id)
    /\ Goto(r, "record")
    /\ UNCHANGED <<now, processVars, fired, expiring, timerRecords, armings,
                   challenger, ends, crossed>>

\* Someone else ended it first.
EndGone(r) ==
    /\ At(r, "end")
    /\ ~IsLive(local[r].id)
    /\ Goto(r, local[r].ret)
    /\ UNCHANGED <<now, processVars, grants, timerVars, challenger, ends, crossed>>

RecordEnd(r) ==
    /\ At(r, "record")
    /\ ends' = [ends EXCEPT ![local[r].id] = @ + 1]
    /\ Goto(r, local[r].ret)
    /\ UNCHANGED <<now, processVars, grants, timerVars, challenger, crossed>>

\* ... and then ends what it found expired.
TimerEnds ==
    /\ \E id \in expiring :
          /\ expiring' = expiring \ {id}
          /\ \/ EndLive(id) /\ timerRecords' = timerRecords \cup {id}
             \/ ~IsLive(id) /\ UNCHANGED <<grants, armed, handle, timerRecords>>
    /\ UNCHANGED <<now, processVars, fired, armings, challenger, local, ends, crossed>>

TimerRecords ==
    /\ \E id \in timerRecords :
          /\ timerRecords' = timerRecords \ {id}
          /\ ends' = [ends EXCEPT ![id] = @ + 1]
    /\ UNCHANGED <<now, processVars, grants, handle, armed, fired, expiring,
                   armings, challenger, local, crossed>>

-----------------------------------------------------------------------------
(* extendGrant and revokeGrant, of the grant in hand.                      *)

ExtendRead(r) ==
    /\ At(r, "read")
    /\ local' = [local EXCEPT ![r].pc = IF IsLive(local[r].id) THEN "verify"
                                        ELSE "done",
                              ![r].start = grants[local[r].id].start]
    /\ UNCHANGED <<now, processVars, grants, timerVars, challenger, ends, crossed>>

\* The root must still be the process the grant was made for.
ExtendVerify(r) ==
    /\ At(r, "verify")
    /\ IF RootIs(local[r].start) THEN Goto(r, "queue")
       ELSE GoEnd(r, local[r].id, "exited", "done")
    /\ UNCHANGED <<now, processVars, grants, timerVars, challenger, ends, crossed>>

\* Mutant of ExtendSet: the grant read before the prompt is put back.
ExtendResurrects(r) ==
    LET id == local[r].id
    IN  /\ At(r, "extend")
        /\ grants' = [grants EXCEPT ![id].expires = now + GrantTTL,
                                    ![id].state = "live"]
        /\ local' = [local EXCEPT ![r].pc = "arm",
                                  ![r].expires = now + GrantTTL]
        /\ UNCHANGED <<now, processVars, timerVars, challenger, ends, crossed>>

\* Mutant of ExtendSet: what is left is stored, not the deadline.
ExtendStoresWhatIsLeft(r) ==
    LET id == local[r].id
    IN  /\ At(r, "extend")
        /\ grants' = [grants EXCEPT ![id].expires = @ - now]
        /\ Goto(r, "arm")
        /\ UNCHANGED <<now, processVars, timerVars, challenger, ends, crossed>>

\* Another request that armed a timer for the grant, or is about to.
Arming(r, id) ==
    \E q \in Requests \ {r} :
        local[q].id = id /\ local[q].pc \in {"arm", "register"}

\* It may have ended during the prompt.
ExtendSet(r) ==
    LET id == local[r].id
    IN  /\ At(r, "extend")
        /\ IF IsLive(id)
           THEN /\ grants' = [grants EXCEPT ![id].expires = now + GrantTTL]
                /\ crossed' = IF Arming(r, id) THEN crossed \cup {id}
                              ELSE crossed \ {id}
                /\ local' = [local EXCEPT ![r].pc = "arm",
                                          ![r].expires = now + GrantTTL]
           ELSE Goto(r, "done") /\ UNCHANGED <<grants, crossed>>
        /\ UNCHANGED <<now, processVars, timerVars, challenger, ends>>

Revoke(r) ==
    /\ At(r, "revoke")
    /\ IF IsLive(local[r].id) THEN GoEnd(r, local[r].id, "revoked", "done")
       ELSE Goto(r, "done")
    /\ UNCHANGED <<now, processVars, grants, timerVars, challenger, ends, crossed>>

-----------------------------------------------------------------------------
(* timedUnwrap and pruneGrants.                                            *)

Live == {id \in Requests : IsLive(id)}

\* The candidates are noted, and the clock is read once; with none, the dead
\* are pruned.
ServeSnapshot(r) ==
    /\ At(r, "snapshot")
    /\ local' = [local EXCEPT
                    ![r].pc = IF Live = {} THEN "prune" ELSE "walk",
                    ![r].seen = now,
                    ![r].checks = {[id |-> id, expired |-> FALSE] : id \in Live}]
    /\ UNCHANGED <<now, processVars, grants, timerVars, challenger, ends, crossed>>

\* Mutant of SameRoot: the fork time is not compared.
SameRootByPid(id) == alive

\* The process that has the root's pid is the one the grant was made for.
SameRoot(id) == alive /\ start = grants[id].start

\* The next candidate: its root is dead, or the caller is not in its tree, or
\* it is worth a look under grantMu.  (No pid is given out again between the
\* fork-time check and the walk of the ancestry.)
ServeWalk(r) ==
    /\ At(r, "walk")
    /\ \/ /\ local[r].checks = {}
          /\ Goto(r, "done")
       \/ \E c \in local[r].checks :
             LET rest == local[r].checks \ {c}
             IN  local' = [local EXCEPT
                     ![r].checks = rest,
                     ![r].id = c.id,
                     ![r].cause = IF SameRoot(c.id) THEN "none" ELSE "exited",
                     ![r].ret = "walk",
                     ![r].pc = CASE ~SameRoot(c.id) -> "end"
                                 [] SameRoot(c.id) ->
                                      IF alive /\ local[r].tree = start
                                      THEN "take" ELSE "walk"]
    /\ UNCHANGED <<now, processVars, grants, timerVars, challenger, ends, crossed>>

\* A revoke may have won the race.
ServeTake(r) ==
    LET id == local[r].id
    IN  /\ At(r, "take")
        /\ CASE ~IsLive(id) -> Goto(r, "walk")
             [] IsLive(id) /\ local[r].seen > grants[id].expires ->
                   GoEnd(r, id, "expired", "walk")
             [] IsLive(id) /\ local[r].seen <= grants[id].expires ->
                   local' = [local EXCEPT ![r].pc = "done", ![r].served = TRUE]
        /\ UNCHANGED <<now, processVars, grants, timerVars, challenger, ends, crossed>>

PruneSnapshot(r) ==
    /\ At(r, "prune")
    /\ local' = [local EXCEPT
                    ![r].pc = "pruning",
                    ![r].checks = {[id |-> id, expired |-> now > grants[id].expires]
                                      : id \in Live}]
    /\ UNCHANGED <<now, processVars, grants, timerVars, challenger, ends, crossed>>

Prune(r) ==
    /\ At(r, "pruning")
    /\ \/ /\ local[r].checks = {}
          /\ Goto(r, "done")
       \/ \E c \in local[r].checks :
             local' = [local EXCEPT
                 ![r].checks = @ \ {c},
                 ![r].id = c.id,
                 ![r].cause = IF c.expired THEN "expired" ELSE "exited",
                 ![r].ret = "pruning",
                 ![r].pc = IF c.expired \/ ~SameRoot(c.id) THEN "end"
                           ELSE "pruning"]
    /\ UNCHANGED <<now, processVars, grants, timerVars, challenger, ends, crossed>>

-----------------------------------------------------------------------------
(* The clients, the root process, the clock.                               *)

Entry(o) ==
    CASE o = "create" -> "stamp"
      [] o = "extend" -> "read"
      [] o = "revoke" -> "revoke"
      [] o = "serve" -> "snapshot"
      [] o = "list" -> "prune"

\* Who asks about a grant has its id from the answer to its creation or from
\* a list; who unwraps descends from the process that has the root's pid, or
\* from none.
Ask(r) ==
    /\ At(r, "idle")
    /\ \E o \in OpsOf[r], tree \in {0, start} :
          /\ o # "serve" \/ ~alive => tree = 0
          /\ \E id \in Requests :
                /\ IF o \in {"extend", "revoke"}
                   THEN grants[id].state # "none" ELSE id = r
                /\ local' = [local EXCEPT ![r].pc = Entry(o), ![r].op = o,
                                          ![r].id = id, ![r].tree = tree]
    /\ UNCHANGED <<now, processVars, grants, timerVars, challenger, ends, crossed>>

RootExits ==
    /\ alive
    /\ alive' = FALSE
    /\ UNCHANGED <<now, start, grants, timerVars, challenger, local, ends, crossed>>

\* Its pid is given to a stranger.
PidRecycled ==
    /\ ~alive /\ start <= MaxRecycled
    /\ alive' = TRUE /\ start' = start + 1
    /\ UNCHANGED <<now, grants, timerVars, challenger, local, ends, crossed>>

Clock ==
    /\ now < MaxClock
    /\ now' = now + 1
    /\ UNCHANGED <<processVars, grants, timerVars, challenger, local, ends, crossed>>

Step(r) ==
    \/ CreateStamp(r) \/ PromptQueue(r) \/ PromptApproved(r)
    \/ PromptRefused(r) \/ CreateBuild(r) \/ CreateInsert(r)
    \/ ArmExpiry(r) \/ RegisterTimer(r) \/ End(r) \/ EndGone(r)
    \/ RecordEnd(r) \/ ExtendRead(r) \/ ExtendVerify(r) \/ ExtendSet(r)
    \/ Revoke(r) \/ ServeSnapshot(r) \/ ServeWalk(r) \/ ServeTake(r)
    \/ PruneSnapshot(r) \/ Prune(r)

TimerStep == TimerFires \/ TimerDecides \/ TimerEnds \/ TimerRecords

\* All that can be asked was answered, and no timer has anything to do.
Quiet ==
    /\ \A r \in Requests : local[r].pc \in {"idle", "done"}
    /\ now = MaxClock
    /\ \A t \in armed : t.due > now
    /\ fired = {} /\ expiring = {} /\ timerRecords = {}

Finished == Quiet /\ UNCHANGED vars

Next ==
    \/ \E r \in Requests : Ask(r) \/ Step(r)
    \/ TimerStep \/ RootExits \/ PidRecycled \/ Clock
    \/ Finished

Spec == Init /\ [][Next]_vars

\* Goroutines are scheduled, prompts end, timers go off; nobody has to ask,
\* and no process has to exit.
Fairness ==
    /\ \A r \in Requests : WF_vars(Step(r))
    /\ WF_vars(TimerStep)
    /\ WF_vars(Clock)

FairSpec == Spec /\ Fairness

-----------------------------------------------------------------------------
(* Properties.                                                             *)

\* A grant answers only the tree of the very process its prompt named: not a
\* stranger that was given the dead root's pid, not a process outside it.
AnswersOnlyItsTree ==
    [][\A r \in Requests :
          (~local[r].served /\ local'[r].served) =>
              /\ IsLive(local[r].id)
              /\ local[r].tree = grants[local[r].id].start]_vars

\* Expiry timer, prune, serve and revoke race to end a grant; it ends once,
\* and its end is recorded once (endGrantBy).
EndedOnce ==
    \A id \in Requests :
        ends[id] + Cardinality({r \in Requests : At(r, "record") /\ local[r].id = id})
                 + (IF id \in timerRecords THEN 1 ELSE 0)
          = IF grants[id].state = "ended" THEN 1 ELSE 0

\* What ended stays ended, though an extension approved meanwhile is on its
\* way ("extend cannot resurrect one").
EndedForGood ==
    [][\A id \in Requests :
          grants[id].state = "ended" => grants'[id].state = "ended"]_vars

\* A live grant is watched by a timer for its own deadline, or about to be:
\* "by each grant's own expiry timer, so an ended grant's DEKs never linger
\* much past the moment they stopped being authorized" (pruneGrants).  However
\* often it is extended: only an extension that moved the deadline while
\* another request was still arming for the grant loses the timer, until the
\* next that has nobody in its way (extendGrant, armGrantExpiry).
Watched(id) ==
    \/ \E t \in armed : t.id = id /\ t.due <= grants[id].expires + 1
    \/ \E t \in fired : t.id = id /\ now > grants[id].expires
    \/ id \in expiring
    \/ \E r \in Requests :
          /\ local[r].id = id
          /\ \/ At(r, "arm") /\ local[r].expires <= grants[id].expires
             \/ At(r, "end")
GrantIsWatched ==
    \A id \in Requests : IsLive(id) /\ id \notin crossed => Watched(id)

\* A grant is watched for as long as it lives and its end is told once.
WatchedUntilEndedOnce == GrantIsWatched /\ EndedOnce

\* A grant ends by itself, though no request ever asks again (unless two
\* extensions crossed, or the bounded clock stops before).  (Grants are made
\* and extended finitely often, so one that never ends would keep this from
\* ever holding again.)
GrantsEnd ==
    []<>(\A id \in Requests :
             IsLive(id) => id \in crossed \/ grants[id].expires >= MaxClock)

-----------------------------------------------------------------------------
(* What comments say and the code does not do.                             *)

\* "by each grant's own expiry timer" (pruneGrants), of every grant: two
\* extensions whose timers are registered in the other order than their
\* deadlines were set.
LiveIsWatched == \A id \in Requests : IsLive(id) => Watched(id)

\* "the stale timer's prune then finds nothing expired ... the prune's own
\* deadline re-check is the guard" (armGrantExpiry): no grant is ended as
\* expired before its deadline.
ExpiredMeansExpired ==
    [][\A id \in Requests :
          (/\ IsLive(id) /\ grants'[id].state = "ended"
           /\ \/ timerRecords' # timerRecords
              \/ \E r \in Requests : /\ At(r, "end") /\ local'[r].pc = "record"
                                     /\ local[r].cause = "expired")
             => now > grants[id].expires]_vars

\* "keeps timers from outliving the grants they time" (endGrantBy).
TimersEndWithTheirGrants ==
    \A id \in Requests : handle[id] # {} => IsLive(id)
=============================================================================
