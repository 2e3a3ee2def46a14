------------------------------ MODULE Session ------------------------------
(***************************************************************************)
(* The goroutines around the session of the service: each client request   *)
(* runs on a goroutine of its own, and so does each idle timer that went   *)
(* off.  They meet on two locks.  Server.mu protects the fields and is     *)
(* never held across a prompt: one action here is one critical section on  *)
(* it.  Server.challengeMu is held across the prompt.                      *)
(*                                                                         *)
(* A request does one of these:                                            *)
(*   "unlock"   OpUnlock: ensureUnlockedFresh, then the pauses are cleared *)
(*              if a human was asked                                       *)
(*   "use"      any op that only needs the key (wrap, refresh, unwrap of   *)
(*              an ungated class): ensureUnlocked                          *)
(*   "reveal"   OpRevealPID with a disclosed prompt: one that offers to    *)
(*              unlock, followed by ensureUnlocked                         *)
(*   "confirm"  grant create, grant extend: a disclosed prompt that never  *)
(*              unlocks                                                    *)
(*   "lock"     OpLock, LockWithCause: lockIfGen with generation 0         *)
(*   "history"  OpHistory: flushes the pending uses                        *)
(*                                                                         *)
(* History is kept as the code keeps it: the ring, the uses not yet in it, *)
(* and the durable file, which OnSessionEvent appends to outside every     *)
(* lock.  An event is identified by its place in the ring.                 *)
(***************************************************************************)
EXTENDS SessionCore, Sequences, FiniteSets

CONSTANTS
    Requests,        \* request goroutines; each serves one request
    Ops,             \* the operations requests may ask for
    Backoff,         \* discloseBackoffSchedule: pause after the nth refusal
    NoOne            \* challengeMu is free

AllOps == {"unlock", "use", "reveal", "confirm", "lock", "history"}
DisclosedOps == {"reveal", "confirm"}

ASSUME OpsAssumption == Ops \subseteq AllOps
ASSUME NoOneAssumption == NoOne \notin Requests
ASSUME BackoffAssumption ==
    Backoff \in Seq(Nat) /\ Len(Backoff) > 0

VARIABLES
    pc,              \* where each request is
    op,              \* what it asked for
    got,             \* the session whose key it was handed, Locked if none
    answer,          \* how its last prompt ended
    unlocking,       \* whether its disclosed prompt also offers to unlock
    challenger,      \* holder of challengeMu
    refusals,        \* discloseRefusals, per op (requests share a launcher)
    events,          \* the ring, oldest first
    pendingUses,     \* sessions with uses not yet in the ring, oldest first
    parked,          \* pendingLockNotify: events of a collected session
    owed,            \* events a request will hand to OnSessionEvent
    lockOwed,        \* events the timer goroutines will hand to it
    durable          \* events OnSessionEvent got

requestVars == <<pc, op, got, answer, unlocking, challenger, refusals>>
historyVars == <<events, pendingUses, parked, owed, lockOwed, durable>>
vars == <<coreVars, requestVars, historyVars>>

Places == {"idle", "touch", "touched", "use", "queue", "recheck", "rechecked",
           "useHeld", "hitRelease", "ask", "prompt", "release", "deliver",
           "forgive", "dqueue", "offer", "offered", "dprompt", "adopt",
           "adopted", "drelease", "ddeliver", "lock", "lockTail", "history",
           "done"}
Event == [kind : {"unlock", "lock", "use", "approved", "denied"}, session : Nat]
Refusal == [count : Nat, until : Nat]
NoRefusal == [count |-> 0, until |-> 0]

TypeOK ==
    /\ CoreTypeOK
    /\ pc \in [Requests -> Places]
    /\ op \in [Requests -> AllOps \cup {"none"}]
    /\ got \in [Requests -> Nat]
    /\ answer \in [Requests -> {"none", "approved", "refused"}]
    /\ unlocking \in [Requests -> BOOLEAN]
    /\ challenger \in Requests \cup {NoOne}
    /\ refusals \in [DisclosedOps -> Refusal]
    /\ events \in Seq(Event)
    /\ pendingUses \in Seq(Nat)
    /\ parked \in SUBSET Nat
    /\ owed \in [Requests -> SUBSET Nat]
    /\ lockOwed \in SUBSET Nat
    /\ durable \in SUBSET Nat

Init ==
    /\ CoreInit
    /\ pc = [r \in Requests |-> "idle"]
    /\ op = [r \in Requests |-> "none"]
    /\ got = [r \in Requests |-> Locked]
    /\ answer = [r \in Requests |-> "none"]
    /\ unlocking = [r \in Requests |-> FALSE]
    /\ challenger = NoOne
    /\ refusals = [k \in DisclosedOps |-> NoRefusal]
    /\ events = <<>>
    /\ pendingUses = <<>>
    /\ parked = {}
    /\ owed = [r \in Requests |-> {}]
    /\ lockOwed = {}
    /\ durable = {}

-----------------------------------------------------------------------------
(* Helpers.                                                                *)

At(r, place) == pc[r] = place
Goto(r, place) == pc' = [pc EXCEPT ![r] = place]

\* recordEvent, and the ids under which the ring keeps what was recorded.
Record(evs) == events' = events \o evs
Ids(evs) == (Len(events) + 1) .. (Len(events) + Len(evs))

One(kind, session) == <<[kind |-> kind, session |-> session]>>
Uses(sessions) ==
    [i \in DOMAIN sessions |-> [kind |-> "use", session |-> sessions[i]]]

\* What ends the session in memory records: its pending uses, then its lock.
EndOfSession ==
    Uses(pendingUses) \o (IF mek # Locked THEN One("lock", mek) ELSE <<>>)

\* Mutant of DrainParked: what is parked is taken and dropped.
DrainParkedDrops ==
    /\ parked' = {}
    /\ UNCHANGED <<events, pendingUses, owed, lockOwed, durable>>

\* notifyPendingLock: take what is parked and hand it to OnSessionEvent.
DrainParked ==
    /\ durable' = durable \cup parked
    /\ parked' = {}
    /\ UNCHANGED <<events, pendingUses, owed, lockOwed>>

\* OnSessionEvent for what r recorded earlier.
Hand(r) ==
    /\ durable' = durable \cup owed[r]
    /\ owed' = [owed EXCEPT ![r] = {}]
    /\ UNCHANGED <<events, pendingUses, parked, lockOwed>>

\* r records evs and will hand them over once it holds no lock.
Owe(r, evs) ==
    /\ Record(evs)
    /\ owed' = [owed EXCEPT ![r] = @ \cup Ids(evs)]
    /\ UNCHANGED <<parked, lockOwed, durable>>

\* Mutant of CollectSession: the key goes, and no lock is recorded.
CollectSilently == Collect /\ UNCHANGED historyVars

\* collectIfDoneLocked: the session is over, and this is its lock.
CollectSession ==
    /\ Collect
    /\ Record(EndOfSession)
    /\ parked' = parked \cup Ids(EndOfSession)
    /\ pendingUses' = <<>>
    /\ UNCHANGED <<owed, lockOwed, durable>>

FindLocked == mek = Locked /\ UNCHANGED <<coreVars, historyVars>>

\* touchSession and peekSession, up to the release of mu.
TouchSession(r) ==
    \/ Touch /\ got' = [got EXCEPT ![r] = mek] /\ UNCHANGED historyVars
    \/ (FindLocked \/ CollectSession) /\ got' = [got EXCEPT ![r] = Locked]

PeekSession(r) ==
    \/ /\ Live
       /\ got' = [got EXCEPT ![r] = mek]
       /\ UNCHANGED <<coreVars, historyVars>>
    \/ (FindLocked \/ CollectSession) /\ got' = [got EXCEPT ![r] = Locked]

\* recordAggregated: uses whose window has closed reach the ring (a window
\* may close at any moment, the oldest first), this one starts to wait.
FileUse(r) ==
    \E k \in 0 .. Len(pendingUses) :
        LET kept == SubSeq(pendingUses, k + 1, Len(pendingUses))
        IN  /\ pendingUses' = IF \E i \in DOMAIN kept : kept[i] = got[r]
                              THEN kept ELSE Append(kept, got[r])
            /\ Owe(r, Uses(SubSeq(pendingUses, 1, k)))

-----------------------------------------------------------------------------
(* ensureUnlockedFresh and challengeUnlock.                                *)

EnsureTouch(r) ==
    /\ At(r, "touch")
    /\ TouchSession(r)
    /\ Goto(r, "touched")
    /\ UNCHANGED <<op, answer, unlocking, challenger, refusals>>

EnsureDrain(r) ==
    /\ At(r, "touched")
    /\ DrainParked
    /\ Goto(r, IF got[r] # Locked THEN "use" ELSE "queue")
    /\ UNCHANGED <<coreVars, op, got, answer, unlocking, challenger, refusals>>

EnsureUse(r) ==
    /\ At(r, "use")
    /\ FileUse(r)
    /\ Goto(r, "deliver")
    /\ UNCHANGED <<coreVars, op, got, answer, unlocking, challenger, refusals>>

ChallengeLock(r) ==
    /\ At(r, "queue")
    /\ challenger = NoOne
    /\ challenger' = r
    /\ Goto(r, "recheck")
    /\ UNCHANGED <<coreVars, historyVars, op, got, answer, unlocking, refusals>>

\* Mutant of ChallengeRetouch: the session is not looked at again.
ChallengeWithoutRetouch(r) ==
    /\ At(r, "recheck")
    /\ Goto(r, "rechecked")
    /\ UNCHANGED <<coreVars, historyVars, op, got, answer, unlocking,
                   challenger, refusals>>

\* The caller we queued behind may have just unlocked for us.
ChallengeRetouch(r) ==
    /\ At(r, "recheck")
    /\ TouchSession(r)
    /\ Goto(r, "rechecked")
    /\ UNCHANGED <<op, answer, unlocking, challenger, refusals>>

ChallengeDrain(r) ==
    /\ At(r, "rechecked")
    /\ DrainParked
    /\ Goto(r, IF got[r] # Locked THEN "useHeld" ELSE "ask")
    /\ UNCHANGED <<coreVars, op, got, answer, unlocking, challenger, refusals>>

ChallengeUse(r) ==
    /\ At(r, "useHeld")
    /\ FileUse(r)
    /\ Goto(r, "hitRelease")
    /\ UNCHANGED <<coreVars, op, got, answer, unlocking, challenger, refusals>>

ChallengeHitRelease(r) ==
    /\ At(r, "hitRelease")
    /\ Hand(r)
    /\ challenger' = NoOne
    /\ Goto(r, "done")
    /\ UNCHANGED <<coreVars, op, got, answer, unlocking, refusals>>

\* The denial cooldown, which an explicit unlock overrides.  lastDenied only
\* changes under challengeMu, so the check and the prompt are one step.
PausedUnlock(r) == op[r] # "unlock" /\ CoolingDown

ChallengePaused(r) ==
    /\ At(r, "ask")
    /\ PausedUnlock(r)
    /\ challenger' = NoOne
    /\ Goto(r, "done")
    /\ UNCHANGED <<coreVars, historyVars, op, got, answer, unlocking, refusals>>

ChallengeAsk(r) ==
    /\ At(r, "ask")
    /\ ~PausedUnlock(r)
    /\ Goto(r, "prompt")
    /\ UNCHANGED <<coreVars, historyVars, op, got, answer, unlocking,
                   challenger, refusals>>

ChallengeApproved(r) ==
    /\ At(r, "prompt")
    /\ Install
    /\ Owe(r, One("unlock", opened + 1))
    /\ got' = [got EXCEPT ![r] = opened + 1]
    /\ answer' = [answer EXCEPT ![r] = "approved"]
    /\ Goto(r, "release")
    /\ UNCHANGED <<op, unlocking, challenger, refusals, pendingUses>>

\* Refused, timed out, or closed because the caller exited.
ChallengeRefused(r) ==
    /\ At(r, "prompt")
    /\ Deny
    /\ Owe(r, One("denied", Locked))
    /\ answer' = [answer EXCEPT ![r] = "refused"]
    /\ Goto(r, "release")
    /\ UNCHANGED <<op, got, unlocking, challenger, refusals, pendingUses>>

ChallengeRelease(r) ==
    /\ At(r, "release")
    /\ challenger' = NoOne
    /\ Goto(r, "deliver")
    /\ UNCHANGED <<coreVars, historyVars, op, got, answer, unlocking, refusals>>

\* OpUnlock that asked a human goes on to clear the disclosed pauses.
FreshUnlock(r) == op[r] = "unlock" /\ answer[r] = "approved"

Deliver(r) ==
    /\ At(r, "deliver")
    /\ Hand(r)
    /\ Goto(r, IF FreshUnlock(r) THEN "forgive" ELSE "done")
    /\ UNCHANGED <<coreVars, op, got, answer, unlocking, challenger, refusals>>

ClearDiscloseBackoff(r) ==
    /\ At(r, "forgive")
    /\ challenger = NoOne
    /\ refusals' = [k \in DisclosedOps |-> NoRefusal]
    /\ Goto(r, "done")
    /\ UNCHANGED <<coreVars, historyVars, op, got, answer, unlocking, challenger>>

-----------------------------------------------------------------------------
(* discloseChallengeFull and its callers.                                  *)

BackoffFor(count) ==
    IF count = 0 THEN 0
    ELSE Backoff[IF count > Len(Backoff) THEN Len(Backoff) ELSE count]

Throttled(k) == now < refusals[k].until

DiscloseThrottled(r) ==
    /\ At(r, "dqueue")
    /\ challenger = NoOne
    /\ Throttled(op[r])
    /\ Goto(r, "done")
    /\ UNCHANGED <<coreVars, historyVars, op, got, answer, unlocking,
                   challenger, refusals>>

\* Mutant of DiscloseLock: the prompt is not serialized.
DiscloseWithoutLock(r) ==
    /\ At(r, "dqueue")
    /\ challenger = NoOne
    /\ ~Throttled(op[r])
    /\ Goto(r, IF op[r] = "reveal" THEN "offer" ELSE "dprompt")
    /\ UNCHANGED <<coreVars, historyVars, op, got, answer, unlocking,
                   challenger, refusals>>

DiscloseLock(r) ==
    /\ At(r, "dqueue")
    /\ challenger = NoOne
    /\ ~Throttled(op[r])
    /\ challenger' = r
    /\ Goto(r, IF op[r] = "reveal" THEN "offer" ELSE "dprompt")
    /\ UNCHANGED <<coreVars, historyVars, op, got, answer, unlocking, refusals>>

\* canOfferUnlock: a lapsed session is collected before the prompt.
DisclosePeek(r) ==
    /\ At(r, "offer")
    /\ PeekSession(r)
    /\ Goto(r, "offered")
    /\ UNCHANGED <<op, answer, unlocking, challenger, refusals>>

\* Mutant of DiscloseOffer: the cooldown is not consulted.
DiscloseOfferInCooldown(r) ==
    /\ At(r, "offered")
    /\ DrainParked
    /\ unlocking' = [unlocking EXCEPT ![r] = got[r] = Locked]
    /\ Goto(r, "dprompt")
    /\ UNCHANGED <<coreVars, op, got, answer, challenger, refusals>>

DiscloseOffer(r) ==
    /\ At(r, "offered")
    /\ DrainParked
    /\ unlocking' = [unlocking EXCEPT ![r] = got[r] = Locked /\ ~CoolingDown]
    /\ Goto(r, "dprompt")
    /\ UNCHANGED <<coreVars, op, got, answer, challenger, refusals>>

DiscloseApproved(r) ==
    /\ At(r, "dprompt")
    /\ Owe(r, One("approved", Locked))
    /\ refusals' = [refusals EXCEPT ![op[r]] = NoRefusal]
    /\ answer' = [answer EXCEPT ![r] = "approved"]
    /\ Goto(r, IF unlocking[r] THEN "adopt" ELSE "drelease")
    /\ UNCHANGED <<coreVars, op, got, unlocking, challenger, pendingUses>>

DiscloseRefused(r) ==
    LET n == refusals[op[r]].count + 1
    IN  /\ At(r, "dprompt")
        /\ Owe(r, One("denied", Locked))
        /\ refusals' = [refusals EXCEPT ![op[r]] =
                           [count |-> n, until |-> now + BackoffFor(n)]]
        /\ answer' = [answer EXCEPT ![r] = "refused"]
        /\ Goto(r, "drelease")
        /\ UNCHANGED <<coreVars, op, got, unlocking, challenger, pendingUses>>

\* adoptDisclosedSession: rides a live session, collects a lapsed one, and
\* opens its own.
Adopt(r) ==
    /\ At(r, "adopt")
    /\ IF Live
       THEN UNCHANGED <<coreVars, historyVars>>
       ELSE LET ended == IF mek = Locked THEN <<>> ELSE EndOfSession
                evs == ended \o One("unlock", opened + 1)
            IN  /\ Install
                /\ Record(evs)
                /\ parked' = parked \cup Ids(ended)
                /\ owed' = [owed EXCEPT ![r] = @ \cup (Ids(evs) \ Ids(ended))]
                /\ pendingUses' = IF mek = Locked THEN pendingUses ELSE <<>>
                /\ UNCHANGED <<lockOwed, durable>>
    /\ Goto(r, "adopted")
    /\ UNCHANGED <<op, got, answer, unlocking, challenger, refusals>>

AdoptDrain(r) ==
    /\ At(r, "adopted")
    /\ DrainParked
    /\ Goto(r, "drelease")
    /\ UNCHANGED <<coreVars, op, got, answer, unlocking, challenger, refusals>>

DiscloseRelease(r) ==
    /\ At(r, "drelease")
    /\ challenger' = NoOne
    /\ Goto(r, "ddeliver")
    /\ UNCHANGED <<coreVars, historyVars, op, got, answer, unlocking, refusals>>

\* An approved reveal goes on to ensureUnlocked; everything else ends here.
DiscloseDeliver(r) ==
    /\ At(r, "ddeliver")
    /\ Hand(r)
    /\ answer' = [answer EXCEPT ![r] = "none"]
    /\ unlocking' = [unlocking EXCEPT ![r] = FALSE]
    /\ got' = [got EXCEPT ![r] = Locked]
    /\ Goto(r, IF op[r] = "reveal" /\ answer[r] = "approved"
               THEN "touch" ELSE "done")
    /\ UNCHANGED <<coreVars, op, challenger, refusals>>

-----------------------------------------------------------------------------
(* Locks, timers, history, and the client.                                 *)

LockSession(r) ==
    /\ At(r, "lock")
    /\ DropNow
    /\ Owe(r, EndOfSession)
    /\ pendingUses' = <<>>
    /\ Goto(r, "lockTail")
    /\ UNCHANGED <<op, got, answer, unlocking, challenger, refusals>>

LockDeliver(r) ==
    /\ At(r, "lockTail")
    /\ Hand(r)
    /\ Goto(r, "done")
    /\ UNCHANGED <<coreVars, op, got, answer, unlocking, challenger, refusals>>

ReadHistory(r) ==
    /\ At(r, "history")
    /\ Owe(r, Uses(pendingUses))
    /\ pendingUses' = <<>>
    /\ Goto(r, "deliver")
    /\ UNCHANGED <<coreVars, op, got, answer, unlocking, challenger, refusals>>

TimerLocks ==
    /\ DropTimed
    /\ Record(EndOfSession)
    /\ lockOwed' = lockOwed \cup Ids(EndOfSession)
    /\ pendingUses' = <<>>
    /\ UNCHANGED <<requestVars, parked, owed, durable>>

TimerDelivers ==
    /\ lockOwed # {}
    /\ durable' = durable \cup lockOwed
    /\ lockOwed' = {}
    /\ UNCHANGED <<coreVars, requestVars, events, pendingUses, parked, owed>>

TimerStep ==
    \/ (TimerFires \/ TimerNeutralized) /\ UNCHANGED <<requestVars, historyVars>>
    \/ TimerLocks
    \/ TimerDelivers

Clock == Tick /\ UNCHANGED <<requestVars, historyVars>>

\* Server.handle: a client asks.
Entry(o) ==
    CASE o \in {"unlock", "use"} -> "touch"
      [] o \in DisclosedOps      -> "dqueue"
      [] o = "lock"              -> "lock"
      [] o = "history"           -> "history"

Ask(r) ==
    /\ At(r, "idle")
    /\ \E o \in Ops : op' = [op EXCEPT ![r] = o] /\ Goto(r, Entry(o))
    /\ UNCHANGED <<coreVars, historyVars, got, answer, unlocking, challenger,
                   refusals>>

Step(r) ==
    \/ EnsureTouch(r) \/ EnsureDrain(r) \/ EnsureUse(r)
    \/ ChallengeLock(r) \/ ChallengeRetouch(r) \/ ChallengeDrain(r)
    \/ ChallengeUse(r) \/ ChallengeHitRelease(r)
    \/ ChallengePaused(r) \/ ChallengeAsk(r)
    \/ ChallengeApproved(r) \/ ChallengeRefused(r)
    \/ ChallengeRelease(r) \/ Deliver(r) \/ ClearDiscloseBackoff(r)
    \/ DiscloseThrottled(r) \/ DiscloseLock(r) \/ DisclosePeek(r)
    \/ DiscloseOffer(r) \/ DiscloseApproved(r) \/ DiscloseRefused(r)
    \/ Adopt(r) \/ AdoptDrain(r) \/ DiscloseRelease(r) \/ DiscloseDeliver(r)
    \/ LockSession(r) \/ LockDeliver(r) \/ ReadHistory(r)

\* Every client answered and every timer goroutine gone: nothing is left to do.
Quiet ==
    /\ \A r \in Requests : pc[r] = "done"
    /\ now = MaxClock
    /\ \A t \in lockTimer : t.due > now
    /\ firing = {} /\ lockOwed = {}

Finished == Quiet /\ UNCHANGED vars

Next ==
    \/ \E r \in Requests : Ask(r) \/ Step(r)
    \/ TimerStep
    \/ Clock
    \/ Finished

Spec == Init /\ [][Next]_vars

\* Goroutines are scheduled, Go's mutexes hand over in turn, armed timers go
\* off, and every prompt ends: the challenge gives up after about 120 s.
Fairness ==
    /\ \A r \in Requests : WF_vars(Step(r))
    /\ WF_vars(TimerStep)
    /\ WF_vars(Clock)

FairSpec == Spec /\ Fairness

-----------------------------------------------------------------------------
(* Safety.                                                                 *)

\* A cached key is handed out only inside both bounds of its session, whether
\* or not the timer has noticed (touchSession, collectIfDoneLocked).
HandedOutInsideBounds ==
    [][\A r \in Requests :
          (got'[r] # Locked /\ got[r] = Locked /\ opened' = opened) =>
              /\ got'[r] = mek
              /\ now < expiry
              /\ MaxSessionAge > 0 => now < sessionStart + MaxSessionAge]_vars

\* After a refused unlock nobody is asked to unlock again inside the cooldown,
\* not by a request that queued behind the refused prompt, not folded into a
\* disclosed prompt; only an explicit unlock overrides it.
NoUnlockPromptInCooldown ==
    [][\A r \in Requests :
          (/\ op[r] # "unlock"
           /\ \/ pc[r] # "prompt" /\ pc'[r] = "prompt"
              \/ pc[r] # "dprompt" /\ pc'[r] = "dprompt" /\ unlocking'[r])
             => ~CoolingDown]_vars

\* What a disclosed prompt says stays true until its approval opens the
\* session: no other challenge can have opened one (canOfferUnlock).
OfferStillTrue ==
    \A r \in Requests :
        (unlocking[r] /\ pc[r] \in {"dprompt", "adopt"}) => mek = Locked

\* The sessions' unlocks and locks in the order they must be told in: the
\* unlock of session n is number 2n - 1 of them and its lock number 2n.
IsBoundary(e) == e.kind \in {"unlock", "lock"}
Rank(e) == 2 * e.session - (IF e.kind = "unlock" THEN 1 ELSE 0)
BoundariesDue == 2 * opened - (IF mek = Locked THEN 0 ELSE 1)

\* History never shows unlock after unlock: in the ring every session's unlock
\* is followed by that session's lock before the next unlock, every session
\* opened has its unlock there and every one that ended its lock, and none has
\* two (collectIfDoneLocked, lockIfGen).
OneLockPerUnlock ==
    /\ \A i \in DOMAIN events :
          IsBoundary(events[i]) => Rank(events[i]) \in 1 .. BoundariesDue
    /\ \A i, j \in DOMAIN events :
          i < j /\ IsBoundary(events[i]) /\ IsBoundary(events[j])
             => Rank(events[i]) < Rank(events[j])
    /\ \A k \in 1 .. BoundariesDue :
          \E i \in DOMAIN events : IsBoundary(events[i]) /\ Rank(events[i]) = k

\* The ring and the durable file agree: every event in the ring is in exactly
\* one place, the file or the hands of one goroutine that will write it there.
Holders == {owed[r] : r \in Requests} \cup {parked, lockOwed, durable}
EventsConserved ==
    /\ UNION Holders = 1 .. Len(events)
    /\ \A r \in Requests :
          /\ owed[r] \cap (parked \cup lockOwed \cup durable) = {}
          /\ \A q \in Requests \ {r} : owed[r] \cap owed[q] = {}
    /\ parked \cap (lockOwed \cup durable) = {}
    /\ lockOwed \cap durable = {}

\* History tells every session's end once, and loses no event on its way to
\* the durable file, whoever found the session over and whoever hands it on.
HistoryIsWhole == OneLockPerUnlock /\ EventsConserved

\* A pause earned by refusals is lifted only by a human: an approved prompt of
\* the same op, or an explicit unlock that really asked someone.  An unlock
\* that rides an open session clears nothing.
PausesLiftedByHumans ==
    [][\A k \in DisclosedOps :
          refusals'[k].count < refusals[k].count =>
              \E r \in Requests :
                 \/ op[r] = k /\ answer'[r] = "approved" /\ pc'[r] # pc[r]
                 \/ op[r] = "unlock" /\ answer[r] = "approved"]_vars

\* A refusal buys quiet: its pause holds for every way to ask, and only a
\* human shortens it.
PausesHold == NoUnlockPromptInCooldown /\ PausesLiftedByHumans

\* Every use reaches the ring inside the session it rode: after its unlock and
\* before its lock ("everything still pending in the use aggregation happened
\* inside the session this lock ends").
UsesInsideTheirSession ==
    \A i \in DOMAIN events :
        events[i].kind = "use" =>
            ~ \E j \in 1 .. (i - 1) :
                 events[j] = [kind |-> "lock", session |-> events[i].session]

-----------------------------------------------------------------------------
(* Liveness.                                                               *)

\* Every request is answered: no order of prompts, locks and timers leaves one
\* waiting on challengeMu for ever.
EveryRequestAnswered ==
    \A r \in Requests : pc[r] # "idle" ~> pc[r] = "done"

\* A session is dropped once its idle time or its ceiling is up, though no
\* request ever asks again (unless the bounded clock stops before).
SessionEnds ==
    \A n \in 1 .. Cardinality(Requests) :
        mek = n ~> (mek # n \/ expiry > MaxClock)

\* Every recorded event is written to the durable file in the end.
EveryEventReachesTheFile ==
    \A n \in 1 .. 3 * Cardinality(Requests) :
        n <= Len(events) ~> n \in durable

\* Nothing asked or recorded is left waiting.
WorkIsDone == EveryRequestAnswered /\ EveryEventReachesTheFile
=============================================================================
