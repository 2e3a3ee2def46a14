-------------------------- MODULE SessionCoreProofs --------------------------
(***************************************************************************)
(* What CoreSpec promises, for every TTL, ceiling, cooldown and length of  *)
(* the clock.  The inductive invariant is TimerInv: the armed timer is of  *)
(* the current generation and due exactly at the earlier bound of the      *)
(* session in memory, and one that went off with the current generation    *)
(* finds that session over.                                                *)
(***************************************************************************)
EXTENDS SessionCore, TLAPS

BoundPassed ==
    \/ now >= expiry
    \/ MaxSessionAge > 0 /\ now >= sessionStart + MaxSessionAge

DueAtABound(t) ==
    /\ t.due <= expiry
    /\ MaxSessionAge > 0 => t.due <= sessionStart + MaxSessionAge
    /\ \/ t.due = expiry
       \/ MaxSessionAge > 0 /\ t.due = sessionStart + MaxSessionAge

TimerInv ==
    /\ now > 0
    /\ \A t \in lockTimer : t.gen = timerGen
    /\ \A g \in firing : g <= timerGen
    /\ mek # Locked =>
          /\ sessionStart > 0
          /\ lockTimer # {} \/ timerGen \in firing
          /\ \A t \in lockTimer : DueAtABound(t)
          /\ timerGen \in firing => BoundPassed

CoreInv == CoreTypeOK /\ TimerInv

LEMMA CoreInitInv == CoreInit => CoreInv
  BY DEF CoreInit, CoreInv, CoreTypeOK, TimerInv, Locked, ZeroTime

\* Whichever bound is first: what armLockTimer computes is one of the two, and
\* not after the other.
LEMMA LockDueIsEarlierBound ==
  ASSUME NEW start \in Nat, start > 0, now \in Nat
  PROVE  /\ LockDue(start) \in Nat
         /\ LockDue(start) <= now + TTL
         /\ MaxSessionAge > 0 => LockDue(start) <= start + MaxSessionAge
         /\ \/ LockDue(start) = now + TTL
            \/ MaxSessionAge > 0 /\ LockDue(start) = start + MaxSessionAge
  BY TTLAssumption, MaxSessionAgeAssumption DEF LockDue, ZeroTime

LEMMA LockDueType ==
  ASSUME NEW start \in Nat, now \in Nat
  PROVE  LockDue(start) \in Nat
  BY TTLAssumption, MaxSessionAgeAssumption DEF LockDue, ZeroTime

LEMMA CoreTypeStep == CoreTypeOK /\ [CoreNext]_coreVars => CoreTypeOK'
  <1> SUFFICES ASSUME CoreTypeOK, [CoreNext]_coreVars PROVE CoreTypeOK'
    OBVIOUS
  <1>1. CASE Touch
    BY <1>1, LockDueType, TTLAssumption
    DEF CoreTypeOK, Touch, ArmLockTimer, Timer
  <1>2. CASE Install
    BY <1>2, LockDueType, TTLAssumption
    DEF CoreTypeOK, Install, ArmLockTimer, Timer, ZeroTime
  <1>3. CASE Collect
    BY <1>3 DEF CoreTypeOK, Collect, Locked
  <1>4. CASE Deny
    BY <1>4 DEF CoreTypeOK, Deny
  <1>5. CASE DropNow
    BY <1>5 DEF CoreTypeOK, DropNow, DropKey, Locked, ZeroTime
  <1>6. CASE DropTimed
    BY <1>6 DEF CoreTypeOK, DropTimed, DropKey, Locked, ZeroTime
  <1>7. CASE TimerNeutralized
    BY <1>7 DEF CoreTypeOK, TimerNeutralized
  <1>8. CASE TimerFires
    BY <1>8 DEF CoreTypeOK, TimerFires, Timer
  <1>9. CASE Tick
    BY <1>9 DEF CoreTypeOK, Tick
  <1>10. CASE UNCHANGED coreVars
    BY <1>10 DEF CoreTypeOK, coreVars
  <1> QED
    BY <1>1, <1>2, <1>3, <1>4, <1>5, <1>6, <1>7, <1>8, <1>9, <1>10 DEF CoreNext

LEMMA TouchInv == CoreInv /\ Touch => CoreInv'
  <1> SUFFICES ASSUME CoreInv, Touch PROVE CoreInv'
    OBVIOUS
  <1> USE TTLAssumption, MaxSessionAgeAssumption
  <1>1. mek # Locked /\ sessionStart > 0 /\ sessionStart \in Nat /\ now \in Nat
    BY DEF CoreInv, CoreTypeOK, TimerInv, Touch, Live
  <1>2. CoreTypeOK'
    BY <1>1, LockDueType
    DEF CoreInv, CoreTypeOK, Touch, ArmLockTimer, Timer
  <1>3. ~(timerGen' \in firing')
    BY DEF CoreInv, CoreTypeOK, TimerInv, Touch, ArmLockTimer
  <1>4. \A t \in lockTimer' : t.gen = timerGen' /\ DueAtABound(t)'
    BY <1>1, LockDueIsEarlierBound
    DEF CoreInv, CoreTypeOK, Touch, ArmLockTimer, DueAtABound
  <1>5. lockTimer' # {} /\ \A g \in firing' : g <= timerGen'
    BY DEF CoreInv, CoreTypeOK, TimerInv, Touch, ArmLockTimer
  <1> QED
    BY <1>1, <1>2, <1>3, <1>4, <1>5 DEF CoreInv, CoreTypeOK, TimerInv, Touch

LEMMA InstallInv == CoreInv /\ Install => CoreInv'
  <1> SUFFICES ASSUME CoreInv, Install PROVE CoreInv'
    OBVIOUS
  <1> USE TTLAssumption, MaxSessionAgeAssumption
  <1>1. now \in Nat /\ now > 0
    BY DEF CoreInv, CoreTypeOK, TimerInv
  <1>2. CoreTypeOK'
    BY <1>1, LockDueType
    DEF CoreInv, CoreTypeOK, Install, ArmLockTimer, Timer, ZeroTime
  <1>3. ~(timerGen' \in firing')
    BY DEF CoreInv, CoreTypeOK, TimerInv, Install, ArmLockTimer
  <1>4. \A t \in lockTimer' : t.gen = timerGen' /\ DueAtABound(t)'
    BY <1>1, LockDueIsEarlierBound
    DEF CoreInv, CoreTypeOK, Install, ArmLockTimer, DueAtABound
  <1>5. lockTimer' # {} /\ \A g \in firing' : g <= timerGen'
    BY DEF CoreInv, CoreTypeOK, TimerInv, Install, ArmLockTimer
  <1> QED
    BY <1>1, <1>2, <1>3, <1>4, <1>5 DEF CoreInv, TimerInv, Install

\* The ways a key goes away leave nothing to watch.
LEMMA DropInv == CoreInv /\ (Collect \/ DropNow \/ DropTimed) => CoreInv'
  <1> SUFFICES ASSUME CoreInv, Collect \/ DropNow \/ DropTimed PROVE CoreInv'
    OBVIOUS
  <1>1. CASE Collect
    BY <1>1 DEF CoreInv, CoreTypeOK, TimerInv, Collect, Locked
  <1>2. CASE DropNow
    BY <1>2 DEF CoreInv, CoreTypeOK, TimerInv, DropNow, DropKey, Locked, ZeroTime
  <1>3. CASE DropTimed
    BY <1>3 DEF CoreInv, CoreTypeOK, TimerInv, DropTimed, DropKey, Locked, ZeroTime
  <1> QED
    BY <1>1, <1>2, <1>3

LEMMA TimerFiresInv == CoreInv /\ TimerFires => CoreInv'
  <1> SUFFICES ASSUME CoreInv, TimerFires PROVE CoreInv'
    OBVIOUS
  <1>1. PICK t \in lockTimer : now >= t.due /\ firing' = firing \cup {t.gen}
    BY DEF TimerFires
  <1>2. t \in Timer /\ t.gen = timerGen
    BY DEF CoreInv, CoreTypeOK, TimerInv
  <1>3. CoreTypeOK'
    BY <1>1, <1>2 DEF CoreInv, CoreTypeOK, TimerFires, Timer
  <1>4. (mek # Locked => BoundPassed)'
    BY <1>1, <1>2, MaxSessionAgeAssumption
    DEF CoreInv, CoreTypeOK, TimerInv, TimerFires, DueAtABound, BoundPassed, Timer
  <1> QED
    BY <1>1, <1>2, <1>3, <1>4 DEF CoreInv, CoreTypeOK, TimerInv, TimerFires

LEMMA QuietInv ==
  CoreInv /\ (Deny \/ TimerNeutralized \/ Tick \/ UNCHANGED coreVars) => CoreInv'
  <1> SUFFICES ASSUME CoreInv,
                      Deny \/ TimerNeutralized \/ Tick \/ UNCHANGED coreVars
               PROVE  CoreInv'
    OBVIOUS
  <1>1. CASE Deny \/ UNCHANGED coreVars
    BY <1>1 DEF CoreInv, CoreTypeOK, TimerInv, DueAtABound, BoundPassed, Deny,
                coreVars
  <1>2. CASE TimerNeutralized
    BY <1>2 DEF CoreInv, CoreTypeOK, TimerInv, DueAtABound, BoundPassed,
                TimerNeutralized
  <1>3. CASE Tick
    BY <1>3, MaxSessionAgeAssumption
    DEF CoreInv, CoreTypeOK, TimerInv, DueAtABound, BoundPassed, Tick
  <1> QED
    BY <1>1, <1>2, <1>3

LEMMA CoreStepInv == CoreInv /\ [CoreNext]_coreVars => CoreInv'
  BY TouchInv, InstallInv, DropInv, TimerFiresInv, QuietInv DEF CoreNext

LEMMA CoreInvariant == CoreSpec => []CoreInv
  BY CoreInitInv, CoreStepInv, PTL DEF CoreSpec

\* The fields of the session keep their types.
THEOREM CoreTyped == CoreSpec => []CoreTypeOK
  BY CoreInvariant, PTL DEF CoreInv

\* A resident key never loses its last watcher (armLockTimer, lockIfGen).
THEOREM CoreKeyIsWatched == CoreSpec => []KeyIsWatched
  <1>1. CoreInv => KeyIsWatched
    BY DEF CoreInv, TimerInv, KeyIsWatched, DueAtABound
  <1> QED
    BY <1>1, CoreInvariant, PTL

\* A timer drops only a session that is over: never one that a touch or an
\* unlock re-armed after it (lockIfGen's generation guard).
THEOREM CoreTimerEndsOnlyWhatIsOver == CoreSpec => TimerEndsOnlyWhatIsOver
  <1> DEFINE EndsOnlyWhatIsOver ==
        (mek # Locked /\ mek' = Locked /\ firing' # firing) =>
          \/ now >= expiry
          \/ MaxSessionAge > 0 /\ now >= sessionStart + MaxSessionAge
  <1>1. CoreInv /\ [CoreNext]_coreVars => EndsOnlyWhatIsOver
    <2> SUFFICES ASSUME CoreInv, CoreNext, mek # Locked, mek' = Locked,
                        firing' # firing
                 PROVE  BoundPassed
      BY DEF coreVars, BoundPassed
    <2>1. DropTimed
      BY DEF CoreNext, Touch, Collect, Deny, DropNow, DropKey, Install,
             TimerNeutralized, TimerFires, Tick, Locked
    <2> QED
      BY <2>1 DEF DropTimed, CoreInv, TimerInv
  <1> QED
    BY <1>1, CoreInvariant, PTL DEF CoreSpec, TimerEndsOnlyWhatIsOver
=============================================================================
