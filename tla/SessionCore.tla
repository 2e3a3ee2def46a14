---------------------------- MODULE SessionCore ----------------------------
(***************************************************************************)
(* The one unlocked session of the service (internal/agent/session.go):    *)
(* the vault key in memory, its idle deadline and hard ceiling, and the    *)
(* timer that ends it.  Each operator below is one critical section on     *)
(* Server.mu; the goroutines that run them, and what they do between two   *)
(* of them, are in the modules that extend this one (Session, Gate).       *)
(***************************************************************************)
EXTENDS Naturals

CONSTANTS
    TTL,             \* Server.ttl: idle time after which the session ends
    MaxSessionAge,   \* Server.maxSessionAge: hard ceiling, 0 for none
    DenialCooldown,  \* Server.denialCooldown: no unlock prompt this long after a refusal
    MaxClock         \* bound: the clock stops here

ASSUME TTLAssumption == TTL \in Nat \ {0}
ASSUME MaxSessionAgeAssumption == MaxSessionAge \in Nat
ASSUME DenialCooldownAssumption == DenialCooldown \in Nat
ASSUME MaxClockAssumption == MaxClock \in Nat \ {0}

Locked == 0          \* mek = nil; a live key is the number of its session
ZeroTime == 0        \* time.Time{}; the clock starts at 1

VARIABLES
    now,             \* the clock
    mek,             \* Locked, or the number of the session whose key is cached
    opened,          \* how many sessions installSessionLocked has opened
    expiry,          \* Server.expiry
    sessionStart,    \* Server.sessionStart
    timerGen,        \* Server.timerGen
    lockTimer,       \* the armed timer that has not gone off: {} or one record
    firing,          \* generations of timers that went off and wait for mu
    lastDenied       \* Server.lastDenied

coreVars == <<now, mek, opened, expiry, sessionStart, timerGen, lockTimer,
              firing, lastDenied>>

Timer == [gen : Nat, due : Nat]

CoreTypeOK ==
    /\ now \in Nat
    /\ mek \in Nat
    /\ opened \in Nat
    /\ expiry \in Nat
    /\ sessionStart \in Nat
    /\ timerGen \in Nat
    /\ lockTimer \in SUBSET Timer
    /\ firing \in SUBSET Nat
    /\ lastDenied \in Nat

CoreInit ==
    /\ now = 1
    /\ mek = Locked
    /\ opened = 0
    /\ expiry = ZeroTime
    /\ sessionStart = ZeroTime
    /\ timerGen = 0
    /\ lockTimer = {}
    /\ firing = {}
    /\ lastDenied = ZeroTime

-----------------------------------------------------------------------------
Aged ==
    /\ sessionStart # ZeroTime
    /\ MaxSessionAge > 0
    /\ now >= sessionStart + MaxSessionAge

\* Mutant of Over: the ceiling is left to the timer.
OverIgnoresCeiling == now >= expiry

\* What collectIfDoneLocked decides: idle past its expiry, or too old.
Over == now >= expiry \/ Aged

\* touchSession and peekSession see a key that may be handed out.
Live == mek # Locked /\ ~Over

CoolingDown == lastDenied # ZeroTime /\ now < lastDenied + DenialCooldown

\* Mutant of LockDue: the idle timeout is armed unconditionally.
LockDueIgnoresCeiling(start) == now + TTL

\* When the timer armed at this moment goes off: whichever bound is first.
LockDue(start) ==
    IF /\ start # ZeroTime
       /\ MaxSessionAge > 0
       /\ start + MaxSessionAge < now + TTL
    THEN start + MaxSessionAge
    ELSE now + TTL

\* Mutant of ArmLockTimer: the old timer is stopped, a new one is armed only
\* when there was none.
ArmLockTimerOnce(start) ==
    /\ timerGen' = timerGen + 1
    /\ lockTimer' = IF lockTimer = {}
                    THEN {[gen |-> timerGen + 1, due |-> LockDue(start)]}
                    ELSE {}

ArmLockTimer(start) ==
    /\ timerGen' = timerGen + 1
    /\ lockTimer' = {[gen |-> timerGen + 1, due |-> LockDue(start)]}

-----------------------------------------------------------------------------
(* touchSession, the three ways it goes.                                   *)

Touch ==
    /\ Live
    /\ expiry' = now + TTL
    /\ ArmLockTimer(sessionStart)
    /\ UNCHANGED <<now, mek, opened, sessionStart, firing, lastDenied>>

\* The key is wiped; deadlines and the timer stay as they are.
Collect ==
    /\ mek # Locked
    /\ Over
    /\ mek' = Locked
    /\ UNCHANGED <<now, opened, expiry, sessionStart, timerGen, lockTimer,
                   firing, lastDenied>>

Install ==
    /\ opened' = opened + 1
    /\ mek' = opened + 1
    /\ lastDenied' = ZeroTime
    /\ sessionStart' = now
    /\ expiry' = now + TTL
    /\ ArmLockTimer(now)
    /\ UNCHANGED <<now, firing>>

Deny ==
    /\ lastDenied' = now
    /\ UNCHANGED <<now, mek, opened, expiry, sessionStart, timerGen,
                   lockTimer, firing>>

\* Mutant of DropKey: the deadline is backdated instead of zeroed.
DropKeyBackdates ==
    /\ mek' = Locked
    /\ expiry' = now - TTL
    /\ sessionStart' = ZeroTime
    /\ lockTimer' = {}
    /\ UNCHANGED <<now, opened, timerGen, lastDenied>>

\* The body of lockIfGen.  It does not bump timerGen.
DropKey ==
    /\ mek' = Locked
    /\ expiry' = ZeroTime
    /\ sessionStart' = ZeroTime
    /\ lockTimer' = {}
    /\ UNCHANGED <<now, opened, timerGen, lastDenied>>

\* An explicit lock: gen 0 always proceeds.
DropNow == DropKey /\ UNCHANGED firing

\* Mutant of DropTimed: any timer that went off drops the key.
DropTimedAnyGeneration ==
    /\ \E gen \in firing : firing' = firing \ {gen}
    /\ DropKey

\* A timer that went off takes mu and drops what it timed ...
DropTimed ==
    /\ timerGen \in firing
    /\ firing' = firing \ {timerGen}
    /\ DropKey

\* ... or finds it was re-armed since, and leaves.
TimerNeutralized ==
    /\ \E gen \in firing :
          /\ gen # timerGen
          /\ firing' = firing \ {gen}
    /\ UNCHANGED <<now, mek, opened, expiry, sessionStart, timerGen,
                   lockTimer, lastDenied>>

\* time.AfterFunc: the armed timer goes off, at its time or later; from here
\* Stop comes too late.
TimerFires ==
    /\ \E t \in lockTimer : now >= t.due /\ firing' = firing \cup {t.gen}
    /\ lockTimer' = {}
    /\ UNCHANGED <<now, mek, opened, expiry, sessionStart, timerGen,
                   lastDenied>>

Tick ==
    /\ now < MaxClock
    /\ now' = now + 1
    /\ UNCHANGED <<mek, opened, expiry, sessionStart, timerGen, lockTimer,
                   firing, lastDenied>>

-----------------------------------------------------------------------------
(***************************************************************************)
(* What the session promises whoever runs these critical sections, in      *)
(* whatever order.  Session and Gate are shown to implement CoreSpec.      *)
(***************************************************************************)

CoreNext ==
    \/ Touch \/ Collect \/ Deny \/ DropNow
    \/ mek = Locked /\ Install
    \/ DropTimed \/ TimerNeutralized \/ TimerFires
    \/ Tick

\* The contract of installSessionLocked ("must have established that no live
\* session exists") is part of it: a key in memory is dropped, and its lock
\* recorded, before the key of another session replaces it.
CoreSpec == CoreInit /\ [][CoreNext]_coreVars

\* A resident key is always watched: a timer for it is armed no later than
\* its earlier bound, or has gone off with the current generation and will
\* drop it.  armLockTimer re-arms, neutralizes and stops on every use, and
\* collection leaves the timer alone; none of it may lose the last watcher.
KeyIsWatched ==
    mek # Locked =>
        \/ timerGen \in firing
        \/ \E t \in lockTimer :
              /\ t.gen = timerGen
              /\ t.due <= expiry
              /\ MaxSessionAge > 0 => t.due <= sessionStart + MaxSessionAge

\* A timer ends only the session it timed, and only when that session is over:
\* one that lost the race to a touch or an unlock must not touch the session.
TimerEndsOnlyWhatIsOver ==
    [][(mek # Locked /\ mek' = Locked /\ firing' # firing) =>
          \/ now >= expiry
          \/ MaxSessionAge > 0 /\ now >= sessionStart + MaxSessionAge]_coreVars
=============================================================================
