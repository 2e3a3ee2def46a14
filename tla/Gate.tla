-------------------------------- MODULE Gate --------------------------------
(***************************************************************************)
(* Per-process consent in front of the session: gateConsent and the        *)
(* consent engine (internal/consent), trust roots, and the AWS credential  *)
(* cache, composed with the session of SessionCore.  The locks are those   *)
(* of the code: Server.mu (the operators of SessionCore), challengeMu,     *)
(* Engine.mu, trustMu and awsCacheMu; one action is one critical section.  *)
(* Requests:                                                               *)
(*   "unwrap"    OpUnwrap of a gated class                                 *)
(*   "unlock"    OpUnlock                                                  *)
(*   "trust"     OpTrust                                                   *)
(*   "lock"      OpLock, LockWithCause                                     *)
(*   "awsget", "awsput", "awsclear"   the AWS cache ops                    *)
(* History is left to Session.  All requests share one launcher, so one    *)
(* disclosed-prompt pause; every prompt here is disclosed under            *)
(* OpRevealPID, except the plain unlock.                                   *)
(***************************************************************************)
EXTENDS SessionCore, Sequences, FiniteSets

CONSTANTS
    Requests,
    NoOne,
    Classes,         \* credential classes: the consent keys of this launcher
    Uncached,        \* those of callers without an exec path: never cached
    OpsOf,           \* what each request may ask for
    ClassOf,         \* the class it asks for
    ProcessOf,       \* the process it comes from
    Descends,        \* <<r, q>>: r's process descends from q's
    AwsSignIn,       \* awsSignInClass: a class, or NoOne
    Backoff,         \* both refusal schedules
    AwsLife,         \* how long the credentials a fill brings will live
    AwsMargin,       \* awsCacheMargin
    AwsProofTTL      \* awsCacheProofTTL

AllOps == {"unwrap", "unlock", "trust", "lock", "awsget", "awsput", "awsclear"}

ASSUME GateOpsAssumption == \A r \in Requests : OpsOf[r] \subseteq AllOps
ASSUME GateNoOneAssumption == NoOne \notin Requests \cup Classes
ASSUME GateClassesAssumption ==
    /\ Uncached \subseteq Classes
    /\ AwsSignIn \in Classes \cup {NoOne}
    /\ DOMAIN ClassOf = Requests /\ \A r \in Requests : ClassOf[r] \in Classes
    /\ DOMAIN ProcessOf = Requests
    /\ Descends \subseteq Requests \X Requests
ASSUME GateBackoffAssumption == Backoff \in Seq(Nat) /\ Len(Backoff) > 0
ASSUME AwsAssumption == AwsLife \in Nat /\ AwsMargin \in Nat /\ AwsProofTTL \in Nat

VARIABLES
    local,           \* each request's place and its variables
    challenger,      \* holder of challengeMu
    paused,          \* discloseRefusals of the launcher
    cache,           \* Engine.cache
    pending,         \* Engine.pending: who leads the flight of a class
    refusals,        \* Engine.refusals
    clears,          \* Engine.clears
    session,         \* Engine.session
    trustRoots,      \* Server.trustRoots
    lockParked,      \* pendingLockNotify holds a lock
    tails,           \* lock goroutines past mu, by what they clear next
    awsCache,        \* the one profile's entry
    awsFills,        \* how many entries were stored: their identity
    awsWiped,        \* entries whose bytes were zeroed
    awsProofs,       \* Server.awsProofs
    overtaken,       \* history: past their look at the session when a proof
                     \* of their own process was noted
    refused,         \* history: how often a human refused each class
    collected        \* history: the sessions ended by a collection

engineVars == <<cache, pending, refusals, clears, session>>
challengeVars == <<challenger, paused, refused>>
lockVars == <<lockParked, tails, collected>>
awsVars == <<awsCache, awsFills, awsWiped, awsProofs, overtaken>>
vars == <<coreVars, local, engineVars, challengeVars, lockVars, trustRoots,
          awsVars>>

NoRefusal == [count |-> 0, until |-> 0]
NoEntry == [expires |-> 0, born |-> 0, session |-> 0, given |-> 0,
            cachedIn |-> 0]
NoCredentials == [id |-> 0, expires |-> 0, filled |-> 0, overtaken |-> FALSE]
Credentials == [id : Nat, expires : Nat, filled : Nat, overtaken : BOOLEAN]
TailStages == {"consent", "trust", "aws"}

Places == {"idle", "look", "gate", "drain", "drainConsent", "drainTrust",
           "descent", "lookup", "throttle", "join", "wait", "ready", "dqueue",
           "offer", "dask", "dprompt", "adopt", "drelease", "remember",
           "check", "score", "finish", "touch", "touched", "queue", "recheck",
           "rechecked", "ask", "prompt", "release", "served", "clearBackoff",
           "forgive", "record", "lock", "read", "fill", "awsclear", "done"}

Local == [pc : Places, ret : Places,
          op : AllOps \cup {"none"},
          got : Nat,                          \* session of the key in hand
          verdict : {"none", "allow", "deny", "throttled"},
          unlocking : BOOLEAN,                \* the prompt offers to unlock
          leader : Requests \cup {NoOne},     \* whose flight it waits on
          clears : Nat,                       \* clearCount before the prompt
          given : Nat,                        \* session its approval was given in
          held : Credentials,                 \* AWS entry it read
          data : {"none", "credentials", "zeroes"}]

TypeOK ==
    /\ CoreTypeOK
    /\ local \in [Requests -> Local]
    /\ challenger \in Requests \cup {NoOne}
    /\ paused \in [count : Nat, until : Nat]
    /\ cache \in [Classes -> [expires : Nat, born : Nat, session : Nat,
                              given : Nat, cachedIn : Nat]]
    /\ pending \in [Classes -> Requests \cup {NoOne}]
    /\ refusals \in [Classes -> [count : Nat, until : Nat]]
    /\ clears \in Nat
    /\ session \in Nat
    /\ trustRoots \subseteq [root : Requests, declared : Nat, recorded : Nat]
    /\ lockParked \in BOOLEAN
    /\ tails \in [TailStages -> Nat]
    /\ awsCache \in Credentials
    /\ awsFills \in Nat
    /\ awsWiped \subseteq Nat
    /\ awsProofs \subseteq [process : {ProcessOf[r] : r \in Requests}, at : Nat]
    /\ overtaken \subseteq Requests
    /\ refused \in [Classes -> Nat]
    /\ collected \subseteq Nat

Init ==
    /\ CoreInit
    /\ local = [r \in Requests |->
                  [pc |-> "idle", ret |-> "idle", op |-> "none", got |-> Locked,
                   verdict |-> "none", unlocking |-> FALSE, leader |-> NoOne,
                   clears |-> 0, given |-> Locked,
                   held |-> NoCredentials, data |-> "none"]]
    /\ challenger = NoOne
    /\ paused = NoRefusal
    /\ cache = [c \in Classes |-> NoEntry]
    /\ pending = [c \in Classes |-> NoOne]
    /\ refusals = [c \in Classes |-> NoRefusal]
    /\ clears = 0
    /\ session = 0
    /\ trustRoots = {}
    /\ lockParked = FALSE
    /\ tails = [s \in TailStages |-> 0]
    /\ awsCache = NoCredentials
    /\ awsFills = 0
    /\ awsWiped = {}
    /\ awsProofs = {}
    /\ overtaken = {}
    /\ refused = [c \in Classes |-> 0]
    /\ collected = {}

-----------------------------------------------------------------------------
(* Helpers.                                                                *)

At(r, place) == local[r].pc = place
Goto(r, place) == local' = [local EXCEPT ![r].pc = place]
Class(r) == ClassOf[r]

BackoffFor(count) ==
    IF count = 0 THEN 0
    ELSE Backoff[IF count > Len(Backoff) THEN Len(Backoff) ELSE count]

Escalated(refusal) ==
    [count |-> refusal.count + 1, until |-> now + BackoffFor(refusal.count + 1)]

\* Engine.Clear.
EngineClear ==
    /\ cache' = [c \in Classes |-> NoEntry]
    /\ clears' = clears + 1
    /\ refusals' = [c \in Classes |-> NoRefusal]
    /\ UNCHANGED <<pending, session>>

\* Mutant of WipeAws: the right to fill the cache survives.
WipeAwsKeepsProofs ==
    /\ awsWiped' = awsWiped \cup ({awsCache.id} \ {0})
    /\ awsCache' = NoCredentials
    /\ UNCHANGED <<awsFills, awsProofs, overtaken>>

\* clearAWSCache: the bytes are zeroed in place.
WipeAws ==
    /\ awsWiped' = awsWiped \cup ({awsCache.id} \ {0})
    /\ awsCache' = NoCredentials
    /\ awsProofs' = {}
    /\ UNCHANGED <<awsFills, overtaken>>

\* installSessionLocked, with the consent engine's part in it.
InstallSession ==
    /\ Install
    /\ session' = session + 1
    /\ UNCHANGED <<cache, pending, refusals, clears>>

CollectSession ==
    /\ Collect
    /\ lockParked' = TRUE
    /\ collected' = collected \cup {mek}
    /\ UNCHANGED tails

FindLocked == mek = Locked /\ UNCHANGED <<coreVars, lockVars>>

\* peekSession and touchSession up to the release of mu; then their deferred
\* notifyPendingLock, and on to the place named.
Peek(r, next) ==
    /\ \/ /\ Live
          /\ local' = [local EXCEPT ![r].pc = "drain", ![r].ret = next,
                                    ![r].got = mek]
          /\ UNCHANGED <<coreVars, lockVars>>
       \/ /\ FindLocked \/ CollectSession
          /\ local' = [local EXCEPT ![r].pc = "drain", ![r].ret = next,
                                    ![r].got = Locked]
    /\ UNCHANGED <<engineVars, challengeVars, trustRoots, awsVars>>

TouchSession(r, next) ==
    /\ \/ /\ Touch
          /\ local' = [local EXCEPT ![r].pc = "drain", ![r].ret = next,
                                    ![r].got = mek]
          /\ UNCHANGED lockVars
       \/ /\ FindLocked \/ CollectSession
          /\ local' = [local EXCEPT ![r].pc = "drain", ![r].ret = next,
                                    ![r].got = Locked]
    /\ UNCHANGED <<engineVars, challengeVars, trustRoots, awsVars>>

\* notifyPendingLock: whoever finds a lock parked clears consent, then trust.
Drain(r) ==
    /\ At(r, "drain")
    /\ lockParked' = FALSE
    /\ Goto(r, IF lockParked THEN "drainConsent" ELSE local[r].ret)
    /\ UNCHANGED <<coreVars, engineVars, challengeVars, tails, collected,
                   trustRoots, awsVars>>

DrainConsent(r) ==
    /\ At(r, "drainConsent")
    /\ EngineClear
    /\ Goto(r, "drainTrust")
    /\ UNCHANGED <<coreVars, challengeVars, lockVars, trustRoots, awsVars>>

DrainTrust(r) ==
    /\ At(r, "drainTrust")
    /\ trustRoots' = {}
    /\ Goto(r, local[r].ret)
    /\ UNCHANGED <<coreVars, engineVars, challengeVars, lockVars, awsVars>>

-----------------------------------------------------------------------------
(* gateConsent and Engine.Decide.                                          *)

\* gateConsent settles the session first.  The peek verifyClassBinding makes
\* just before it, for an unwrap, finds and does the same.
Gate(r) == At(r, "gate") /\ Peek(r, "descent")

\* Where a request goes that was allowed: an unwrap unlocks, a cache read is
\* served.
Allowed(r) == IF local[r].op = "awsget" THEN "served" ELSE "touch"

\* descendsFromTrust.
TrustedTree(r) == \E t \in trustRoots : <<r, t.root>> \in Descends

GateDescent(r) ==
    /\ At(r, "descent")
    /\ local' = [local EXCEPT
                    ![r].pc = IF TrustedTree(r) THEN Allowed(r) ELSE "lookup",
                    ![r].verdict = IF TrustedTree(r) THEN "allow" ELSE "none"]
    /\ UNCHANGED <<coreVars, engineVars, challengeVars, lockVars, trustRoots,
                   awsVars>>

\* A standing decision lookup would honor.
Servable(c) ==
    /\ cache[c] # NoEntry
    /\ now < cache[c].expires
    /\ cache[c].session = session        \* decided in this unlock session
    /\ MaxSessionAge > 0 => now < cache[c].born + MaxSessionAge

\* A caller without an exec path has no identity to look up.
GateLookup(r) ==
    LET c == Class(r)
    IN  /\ At(r, "lookup")
        /\ IF c \notin Uncached /\ Servable(c)
           THEN /\ cache' = [cache EXCEPT ![c].expires = now + TTL]
                /\ local' = [local EXCEPT ![r].pc = Allowed(r),
                                          ![r].verdict = "allow",
                                          ![r].given = cache[c].given]
           ELSE /\ cache' = [cache EXCEPT ![c] = NoEntry]
                /\ Goto(r, "throttle")
        /\ UNCHANGED <<coreVars, pending, refusals, clears, session,
                       challengeVars, lockVars, trustRoots, awsVars>>

\* Mutant of GateThrottle: a paused request goes round instead of failing.
GateThrottleRetries(r) ==
    /\ At(r, "throttle")
    /\ Goto(r, IF now < refusals[Class(r)].until THEN "lookup" ELSE "join")
    /\ UNCHANGED <<coreVars, engineVars, challengeVars, lockVars, trustRoots,
                   awsVars>>

\* The count outlives the pause; its expiry an hour later is beyond the clock.
GateThrottle(r) ==
    /\ At(r, "throttle")
    /\ IF now < refusals[Class(r)].until
       THEN local' = [local EXCEPT ![r].pc = "done", ![r].verdict = "throttled"]
       ELSE Goto(r, "join")
    /\ UNCHANGED <<coreVars, engineVars, challengeVars, lockVars, trustRoots,
                   awsVars>>

\* Mutant of GateJoin: everyone leads.
GateJoinAlwaysLeads(r) ==
    /\ At(r, "join")
    /\ pending' = [pending EXCEPT ![Class(r)] = r]
    /\ Goto(r, "ready")
    /\ UNCHANGED <<coreVars, cache, refusals, clears, session, challengeVars,
                   lockVars, trustRoots, awsVars>>

GateJoin(r) ==
    /\ At(r, "join")
    /\ IF pending[Class(r)] = NoOne
       THEN pending' = [pending EXCEPT ![Class(r)] = r] /\ Goto(r, "ready")
       ELSE /\ local' = [local EXCEPT ![r].pc = "wait",
                                      ![r].leader = pending[Class(r)]]
            /\ UNCHANGED pending
    /\ UNCHANGED <<coreVars, cache, refusals, clears, session, challengeVars,
                   lockVars, trustRoots, awsVars>>

\* The leader's channel was closed: back to the lookup.
GateWait(r) ==
    /\ At(r, "wait")
    /\ pending[Class(r)] # local[r].leader
    /\ local' = [local EXCEPT ![r].pc = "lookup", ![r].leader = NoOne]
    /\ UNCHANGED <<coreVars, engineVars, challengeVars, lockVars, trustRoots,
                   awsVars>>

GateReady(r) ==
    /\ At(r, "ready")
    /\ local' = [local EXCEPT ![r].pc = "dqueue", ![r].clears = clears]
    /\ UNCHANGED <<coreVars, engineVars, challengeVars, lockVars, trustRoots,
                   awsVars>>

\* Mutant of Remember: the Clear count is not compared.
RememberIgnoresClears(r) ==
    /\ At(r, "remember")
    /\ cache' = [cache EXCEPT ![Class(r)] = [expires |-> now + TTL,
                                             born |-> now,
                                             session |-> session,
                                             given |-> local[r].given,
                                             cachedIn |-> mek]]
    /\ Goto(r, "check")
    /\ UNCHANGED <<coreVars, pending, refusals, clears, session,
                   challengeVars, lockVars, trustRoots, awsVars>>

\* remember: cached in the unlock session of this moment, unless a Clear ran
\* since the prompt was asked for.
Remember(r) ==
    LET c == Class(r)
    IN  /\ At(r, "remember")
        /\ cache' = IF clears = local[r].clears /\ c \notin Uncached
                    THEN [cache EXCEPT ![c] = [expires |-> now + TTL,
                                               born |-> now,
                                               session |-> session,
                                               given |-> local[r].given,
                                               cachedIn |-> mek]]
                    ELSE cache
        /\ Goto(r, "check")
        /\ UNCHANGED <<coreVars, pending, refusals, clears, session,
                       challengeVars, lockVars, trustRoots, awsVars>>

GateCheck(r) ==
    /\ At(r, "check")
    /\ Goto(r, IF clears = local[r].clears THEN "score" ELSE "finish")
    /\ UNCHANGED <<coreVars, engineVars, challengeVars, lockVars, trustRoots,
                   awsVars>>

GateScore(r) ==
    LET c == Class(r)
    IN  /\ At(r, "score")
        /\ refusals' = [refusals EXCEPT ![c] = IF local[r].verdict = "allow"
                                               THEN NoRefusal
                                               ELSE Escalated(refusals[c])]
        /\ Goto(r, "finish")
        /\ UNCHANGED <<coreVars, cache, pending, clears, session,
                       challengeVars, lockVars, trustRoots, awsVars>>

GateFinish(r) ==
    /\ At(r, "finish")
    /\ pending' = [pending EXCEPT ![Class(r)] = NoOne]
    /\ Goto(r, IF local[r].verdict = "allow" THEN Allowed(r) ELSE "done")
    /\ UNCHANGED <<coreVars, cache, refusals, clears, session, challengeVars,
                   lockVars, trustRoots, awsVars>>

-----------------------------------------------------------------------------
(* discloseChallengeFull, for the gate and for OpTrust.                    *)

\* Where a request goes once its disclosed prompt was answered or denied it.
Answered(r, allowed) ==
    CASE local[r].op = "trust" -> IF allowed THEN "record" ELSE "done"
      [] local[r].op # "trust" -> IF allowed THEN "remember" ELSE "check"

\* Inside the pause after a refusal nobody is asked; the gate takes the error
\* for a Deny.
DiscloseTurnedAway(r) ==
    /\ At(r, "dqueue")
    /\ challenger = NoOne
    /\ now < paused.until
    /\ local' = [local EXCEPT ![r].pc = Answered(r, FALSE), ![r].verdict = "deny"]
    /\ UNCHANGED <<coreVars, engineVars, challengeVars, lockVars, trustRoots,
                   awsVars>>

DiscloseLock(r) ==
    /\ At(r, "dqueue")
    /\ challenger = NoOne
    /\ now >= paused.until
    /\ challenger' = r
    /\ Goto(r, IF local[r].op = "trust" THEN "dprompt" ELSE "offer")
    /\ UNCHANGED <<coreVars, engineVars, paused, refused, lockVars, trustRoots,
                   awsVars>>

\* canOfferUnlock.
DisclosePeek(r) == At(r, "offer") /\ Peek(r, "dask")

DiscloseAsk(r) ==
    /\ At(r, "dask")
    /\ local' = [local EXCEPT
                    ![r].pc = "dprompt",
                    ![r].unlocking = local[r].got = Locked /\ ~CoolingDown]
    /\ UNCHANGED <<coreVars, engineVars, challengeVars, lockVars, trustRoots,
                   awsVars>>

DiscloseApproved(r) ==
    /\ At(r, "dprompt")
    /\ paused' = NoRefusal
    /\ local' = [local EXCEPT
                    ![r].pc = IF local[r].unlocking THEN "adopt" ELSE "drelease",
                    ![r].verdict = "allow",
                    ![r].given = mek]
    /\ UNCHANGED <<coreVars, engineVars, challenger, refused, lockVars,
                   trustRoots, awsVars>>

DiscloseRefused(r) ==
    /\ At(r, "dprompt")
    /\ paused' = Escalated(paused)
    /\ refused' = [refused EXCEPT ![Class(r)] = @ + 1]
    /\ local' = [local EXCEPT ![r].pc = "drelease", ![r].verdict = "deny"]
    /\ UNCHANGED <<coreVars, engineVars, challenger, lockVars, trustRoots,
                   awsVars>>

\* adoptDisclosedSession: the approval opens a session and belongs to it,
\* unless one is live after all.
Adopt(r) ==
    /\ At(r, "adopt")
    /\ IF Live
       THEN /\ UNCHANGED <<coreVars, engineVars, lockVars>>
            /\ local' = [local EXCEPT ![r].pc = "drain", ![r].ret = "drelease"]
       ELSE /\ InstallSession
            /\ lockParked' = (lockParked \/ mek # Locked)
            /\ local' = [local EXCEPT ![r].pc = "drain", ![r].ret = "drelease",
                                      ![r].given = opened + 1]
            /\ UNCHANGED <<tails, collected>>
    /\ UNCHANGED <<challengeVars, trustRoots, awsVars>>

DiscloseRelease(r) ==
    /\ At(r, "drelease")
    /\ challenger' = NoOne
    /\ Goto(r, Answered(r, local[r].verdict = "allow"))
    /\ UNCHANGED <<coreVars, engineVars, paused, refused, lockVars, trustRoots,
                   awsVars>>

\* Server.trust.
RecordTrust(r) ==
    /\ At(r, "record")
    /\ trustRoots' = trustRoots \cup
          {[root |-> r, declared |-> local[r].given, recorded |-> mek]}
    /\ Goto(r, "done")
    /\ UNCHANGED <<coreVars, engineVars, challengeVars, lockVars, awsVars>>

-----------------------------------------------------------------------------
(* ensureUnlockedFresh, as in Session, without its history.                *)

EnsureTouch(r) == At(r, "touch") /\ TouchSession(r, "touched")

EnsureTouched(r) ==
    /\ At(r, "touched")
    /\ Goto(r, IF local[r].got # Locked THEN "served" ELSE "queue")
    /\ UNCHANGED <<coreVars, engineVars, challengeVars, lockVars, trustRoots,
                   awsVars>>

ChallengeLock(r) ==
    /\ At(r, "queue")
    /\ challenger = NoOne
    /\ challenger' = r
    /\ Goto(r, "recheck")
    /\ UNCHANGED <<coreVars, engineVars, paused, refused, lockVars, trustRoots,
                   awsVars>>

\* Mutant of ChallengeRetouch: the session is not looked at again.
ChallengeWithoutRetouch(r) ==
    /\ At(r, "recheck")
    /\ Goto(r, "rechecked")
    /\ UNCHANGED <<coreVars, engineVars, challengeVars, lockVars, trustRoots,
                   awsVars>>

ChallengeRetouch(r) == At(r, "recheck") /\ TouchSession(r, "rechecked")

ChallengeRechecked(r) ==
    /\ At(r, "rechecked")
    /\ Goto(r, IF local[r].got # Locked THEN "release" ELSE "ask")
    /\ UNCHANGED <<coreVars, engineVars, challengeVars, lockVars, trustRoots,
                   awsVars>>

ChallengeAsk(r) ==
    /\ At(r, "ask")
    /\ Goto(r, IF local[r].op # "unlock" /\ CoolingDown THEN "release"
               ELSE "prompt")
    /\ UNCHANGED <<coreVars, engineVars, challengeVars, lockVars, trustRoots,
                   awsVars>>

ChallengeApproved(r) ==
    /\ At(r, "prompt")
    /\ InstallSession
    /\ local' = [local EXCEPT ![r].pc = "release", ![r].got = opened + 1,
                              ![r].verdict = "allow"]
    /\ UNCHANGED <<challengeVars, lockVars, trustRoots, awsVars>>

ChallengeRefused(r) ==
    /\ At(r, "prompt")
    /\ Deny
    /\ Goto(r, "release")
    /\ UNCHANGED <<engineVars, challengeVars, lockVars, trustRoots, awsVars>>

\* OpUnlock that asked a human goes on to clear both kinds of pause.
ChallengeRelease(r) ==
    /\ At(r, "release")
    /\ challenger' = NoOne
    /\ Goto(r, CASE local[r].got = Locked -> "done"
                 [] local[r].got # Locked /\ local[r].op # "unlock" -> "served"
                 [] local[r].got # Locked /\ local[r].op = "unlock" ->
                       IF local[r].verdict = "allow" THEN "clearBackoff"
                       ELSE "done")
    /\ UNCHANGED <<coreVars, engineVars, paused, refused, lockVars, trustRoots,
                   awsVars>>

\* Engine.ClearBackoff.
ClearBackoff(r) ==
    /\ At(r, "clearBackoff")
    /\ refusals' = [c \in Classes |-> NoRefusal]
    /\ Goto(r, "forgive")
    /\ UNCHANGED <<coreVars, cache, pending, clears, session, challengeVars,
                   lockVars, trustRoots, awsVars>>

ClearDiscloseBackoff(r) ==
    /\ At(r, "forgive")
    /\ challenger = NoOne
    /\ paused' = NoRefusal
    /\ Goto(r, "done")
    /\ UNCHANGED <<coreVars, engineVars, challenger, refused, lockVars,
                   trustRoots, awsVars>>

-----------------------------------------------------------------------------
(* What the key or the approval is used for.                               *)

\* OpUnwrap that read the sealed AWS sign-in earns its process the right to
\* fill the cache (noteAWSUnwrap).
ServeUnwrap(r) ==
    /\ At(r, "served")
    /\ local[r].op \in {"unwrap", "unlock"}
    /\ IF local[r].op = "unwrap" /\ Class(r) = AwsSignIn
       THEN /\ awsProofs' = {p \in awsProofs : p.process # ProcessOf[r]} \cup
                               {[process |-> ProcessOf[r], at |-> now]}
            /\ overtaken' = overtaken \cup
                  {q \in Requests : /\ ProcessOf[q] = ProcessOf[r]
                                    /\ local[q].pc \notin {"idle", "look"}}
       ELSE UNCHANGED <<awsProofs, overtaken>>
    /\ Goto(r, "done")
    /\ UNCHANGED <<coreVars, engineVars, challengeVars, lockVars, trustRoots,
                   awsCache, awsFills, awsWiped>>

\* awsCacheGet hands out a copy of the bytes of the entry it read earlier.
ServeAws(r) ==
    /\ At(r, "served")
    /\ local[r].op = "awsget"
    /\ local' = [local EXCEPT
                    ![r].pc = "done",
                    ![r].data = IF local[r].held.id \in awsWiped THEN "zeroes"
                                ELSE "credentials"]
    /\ UNCHANGED <<coreVars, engineVars, challengeVars, lockVars, trustRoots,
                   awsVars>>

\* awsCacheGet and awsCachePut ask sessionLive before anything else.
AwsLook(r) ==
    /\ At(r, "look")
    /\ Peek(r, IF local[r].op = "awsget" THEN "read" ELSE "fill")

\* A miss prompts nothing: the caller falls back to a real unwrap.
AwsRead(r) ==
    /\ At(r, "read")
    /\ local' = [local EXCEPT
                    ![r].pc = IF /\ local[r].got # Locked
                                 /\ awsCache.id # 0
                                 /\ awsCache.expires >= now + AwsMargin
                              THEN "gate" ELSE "done",
                    ![r].held = awsCache]
    /\ UNCHANGED <<coreVars, engineVars, challengeVars, lockVars, trustRoots,
                   awsVars>>

Proven(r) == \E p \in awsProofs :
                /\ p.process = ProcessOf[r]
                /\ now <= p.at + AwsProofTTL

\* fillAWSCache.
AwsFill(r) ==
    /\ At(r, "fill")
    /\ IF local[r].got # Locked /\ Proven(r) /\ AwsLife >= AwsMargin
       THEN /\ awsFills' = awsFills + 1
            /\ awsCache' = [id |-> awsFills + 1, expires |-> now + AwsLife,
                            filled |-> local[r].got,
                            overtaken |-> r \in overtaken]
       ELSE UNCHANGED <<awsFills, awsCache>>
    /\ Goto(r, "done")
    /\ UNCHANGED <<coreVars, engineVars, challengeVars, lockVars, trustRoots,
                   awsWiped, awsProofs, overtaken>>

\* OpAWSCacheClear, and the last thing a lock clears.
AwsClear(r) ==
    /\ At(r, "awsclear")
    /\ WipeAws
    /\ Goto(r, "done")
    /\ UNCHANGED <<coreVars, engineVars, challengeVars, lockVars, trustRoots>>

-----------------------------------------------------------------------------
(* Locks, timers, and the client.                                          *)

\* lockIfGen past its critical section clears consent, trust, AWS cache.
LockSession(r) ==
    /\ At(r, "lock")
    /\ DropNow
    /\ local' = [local EXCEPT ![r].pc = "drainConsent", ![r].ret = "awsclear"]
    /\ UNCHANGED <<engineVars, challengeVars, lockVars, trustRoots, awsVars>>

TimerLocks ==
    /\ DropTimed
    /\ tails' = [tails EXCEPT !["consent"] = @ + 1]
    /\ UNCHANGED <<local, engineVars, challengeVars, lockParked, collected,
                   trustRoots, awsVars>>

TimerClearsConsent ==
    /\ tails["consent"] > 0
    /\ EngineClear
    /\ tails' = [tails EXCEPT !["consent"] = @ - 1, !["trust"] = @ + 1]
    /\ UNCHANGED <<coreVars, local, challengeVars, lockParked, collected,
                   trustRoots, awsVars>>

TimerClearsTrust ==
    /\ tails["trust"] > 0
    /\ trustRoots' = {}
    /\ tails' = [tails EXCEPT !["trust"] = @ - 1, !["aws"] = @ + 1]
    /\ UNCHANGED <<coreVars, local, engineVars, challengeVars, lockParked,
                   collected, awsVars>>

TimerClearsAws ==
    /\ tails["aws"] > 0
    /\ WipeAws
    /\ tails' = [tails EXCEPT !["aws"] = @ - 1]
    /\ UNCHANGED <<coreVars, local, engineVars, challengeVars, lockParked,
                   collected, trustRoots>>

TimerStep ==
    \/ /\ TimerFires \/ TimerNeutralized
       /\ UNCHANGED <<local, engineVars, challengeVars, lockVars, trustRoots,
                      awsVars>>
    \/ TimerLocks \/ TimerClearsConsent \/ TimerClearsTrust \/ TimerClearsAws

Clock ==
    /\ Tick
    /\ UNCHANGED <<local, engineVars, challengeVars, lockVars, trustRoots,
                   awsVars>>

\* Server.handle: every connection has its goroutine, also two of one process.
Entry(o) ==
    CASE o = "unwrap" -> "gate"
      [] o = "unlock" -> "touch"
      [] o = "trust" -> "dqueue"
      [] o = "lock" -> "lock"
      [] o \in {"awsget", "awsput"} -> "look"
      [] o = "awsclear" -> "awsclear"

Ask(r) ==
    /\ At(r, "idle")
    /\ \E o \in OpsOf[r] :
          local' = [local EXCEPT ![r].pc = Entry(o), ![r].op = o]
    /\ UNCHANGED <<coreVars, engineVars, challengeVars, lockVars, trustRoots,
                   awsVars>>

Step(r) ==
    \/ Gate(r) \/ Drain(r) \/ DrainConsent(r) \/ DrainTrust(r)
    \/ GateDescent(r) \/ GateLookup(r) \/ GateThrottle(r) \/ GateJoin(r)
    \/ GateWait(r) \/ GateReady(r) \/ Remember(r) \/ GateCheck(r)
    \/ GateScore(r) \/ GateFinish(r)
    \/ DiscloseTurnedAway(r) \/ DiscloseLock(r) \/ DisclosePeek(r)
    \/ DiscloseAsk(r) \/ DiscloseApproved(r) \/ DiscloseRefused(r)
    \/ Adopt(r) \/ DiscloseRelease(r) \/ RecordTrust(r)
    \/ EnsureTouch(r) \/ EnsureTouched(r) \/ ChallengeLock(r)
    \/ ChallengeRetouch(r) \/ ChallengeRechecked(r) \/ ChallengeAsk(r)
    \/ ChallengeApproved(r) \/ ChallengeRefused(r) \/ ChallengeRelease(r)
    \/ ClearBackoff(r) \/ ClearDiscloseBackoff(r)
    \/ ServeUnwrap(r) \/ ServeAws(r)
    \/ AwsLook(r) \/ AwsRead(r) \/ AwsFill(r) \/ AwsClear(r)
    \/ LockSession(r)

\* Every client answered and every timer goroutine gone: nothing is left to do.
Quiet ==
    /\ \A r \in Requests : At(r, "done")
    /\ now = MaxClock
    /\ \A t \in lockTimer : t.due > now
    /\ firing = {}
    /\ \A s \in TailStages : tails[s] = 0

Finished == Quiet /\ UNCHANGED vars

Next ==
    \/ \E r \in Requests : Ask(r) \/ Step(r)
    \/ TimerStep
    \/ Clock
    \/ Finished

Spec == Init /\ [][Next]_vars

\* As in Session: goroutines are scheduled, mutexes hand over in turn, armed
\* timers go off, prompts end.
Fairness ==
    /\ \A r \in Requests : WF_vars(Step(r))
    /\ WF_vars(TimerStep)
    /\ WF_vars(Clock)

FairSpec == Spec /\ Fairness

-----------------------------------------------------------------------------
(* Properties.                                                             *)

\* No session that ended still waits for someone to clear what rode in it.
Settled ==
    /\ ~lockParked
    /\ \A s \in TailStages : tails[s] = 0
    /\ \A r \in Requests :
          /\ local[r].pc \notin {"drainConsent", "drainTrust"}
          /\ local[r].pc = "awsclear" => local[r].op # "lock"

\* Consent never outlives the unlock it rode in on: once the end of a session
\* has been dealt with, no approval given in it answers any more, whoever
\* cached it and however late (Engine.clears, Engine.session, Engine.Clear);
\* and none cached while the vault was locked answers in a later session.
ApprovalsEndWithTheirSession ==
    Settled => \A c \in Classes : Servable(c) =>
                  /\ cache[c].given \in {Locked, mek}
                  /\ cache[c].cachedIn = mek

\* Nor does the trust recorded in a session (notifyPendingLock, lockIfGen).
TrustEndsWithItsSession ==
    Settled => \A t \in trustRoots : t.recorded \in {Locked, mek}

\* What a human allowed in a session, a class or a run, ends with it.
AllowedInItsSession ==
    /\ TypeOK
    /\ ApprovalsEndWithTheirSession
    /\ TrustEndsWithItsSession

\* One flight per class: a request between joinFlight and finishFlight leads
\* its class, and a class that has a leader has one that will finish.
InFlight(r) == local[r].op \in {"unwrap", "awsget"} /\
               local[r].pc \in {"ready", "dqueue", "offer", "dask", "dprompt",
                                "adopt", "drelease", "remember", "check",
                                "score", "finish"}
OneLeaderPerClass ==
    /\ \A r \in Requests : InFlight(r) => pending[Class(r)] = r
    /\ \A c \in Classes : pending[c] # NoOne =>
          /\ Class(pending[c]) = c
          /\ \/ InFlight(pending[c])
             \/ local[pending[c]].pc \in {"drain", "drainConsent", "drainTrust"}

\* The AWS cache is dropped at every lock that runs lockIfGen, late fills
\* included: its entries were filled in this session or in one that ended by a
\* collection.  The proof a fill needs went with the lock (clearAWSCache), so
\* only one whose process had another unwrap noted after it looked at the
\* session (awsCachePut, noteAWSUnwrap) gets past a lock that came between.
AwsDroppedAtLocks ==
    Settled /\ awsCache.id # 0 /\ ~awsCache.overtaken =>
        awsCache.filled = mek \/ awsCache.filled \in collected

\* Every request is answered: waiters of a flight are released whatever their
\* leader's prompt came to.  (Each asks once, so one that nobody answers would
\* keep this from ever holding again.)
EveryRequestAnswered ==
    []<>(\A r \in Requests : local[r].pc \in {"idle", "done"})

-----------------------------------------------------------------------------
(* What comments say and the code does not do.                             *)

\* "Approvals from before this session (given while the vault stayed locked)
\* must not answer in it" (installSessionLocked).
NoApprovalFromBefore ==
    Settled /\ mek # Locked =>
        \A c \in Classes : Servable(c) => cache[c].given # Locked

\* "so trust never outlives the session it was declared in" (clearTrust).
TrustStaysInItsSession ==
    Settled => \A t \in trustRoots : t.declared # Locked => t.declared = mek

\* "dropped on every re-lock" (awscache.go), a collection being one
\* (notifyPendingLock).
AwsDroppedAtEveryLock ==
    Settled /\ mek # Locked /\ awsCache.id # 0 => awsCache.filled = mek

\* "in this session" (awscache.go, of the unwrap a put must have completed):
\* two connections of one process, an unwrap with its key in hand and a put
\* past sessionLive, and a lock between.
AwsFilledInThisSession ==
    Settled /\ awsCache.id # 0 =>
        awsCache.filled = mek \/ awsCache.filled \in collected

\* What a hit returns is what was stored.
AwsServesCredentials == \A r \in Requests : local[r].data # "zeroes"

\* "served only while they have more than awsCacheMargin left" (awscache.go).
AwsServesInsideMargin ==
    [][\A r \in Requests :
          (local[r].data = "none" /\ local'[r].data # "none") =>
              local[r].held.expires >= now + AwsMargin]_vars

\* PriorRefusals "is how many times THIS caller's request for THIS credential
\* has already been refused": the engine counts only refusals of a human.
CountsOnlyRefusals == \A c \in Classes : refusals[c].count <= refused[c]

\* "two tools reaching for the same credential at once produce one Touch ID
\* prompt": nobody is prompted for a class while its approval stands.
OnePromptForBoth ==
    [][\A r \in Requests :
          (/\ local[r].op = "unwrap" /\ Class(r) \notin Uncached
           /\ local[r].pc # "dprompt" /\ local'[r].pc = "dprompt")
             => ~Servable(Class(r))]_vars
=============================================================================
