---------------------------- MODULE SessionProofs ----------------------------
(***************************************************************************)
(* Session implements SessionCore for every set of requests and every      *)
(* value of the bounds, its history is whole and its pauses hold.  What    *)
(* has to be shown first is that whoever opens a session finds none in     *)
(* memory.  The inductive invariant LockInv says why: only the holder of   *)
(* challengeMu opens one, and between its last look at the session and     *)
(* the prompt's answer nobody else can.  HistoryInv says of the history    *)
(* what is due in it, and who holds which of its events.                   *)
(***************************************************************************)
EXTENDS Session, SessionCoreProofs, SequenceTheorems

ControlTypeOK ==
    /\ pc \in [Requests -> Places]
    /\ op \in [Requests -> AllOps \cup {"none"}]
    /\ got \in [Requests -> Nat]
    /\ answer \in [Requests -> {"none", "approved", "refused"}]
    /\ unlocking \in [Requests -> BOOLEAN]
    /\ challenger \in Requests \cup {NoOne}
    /\ refusals \in [DisclosedOps -> Refusal]

HistoryTypeOK ==
    /\ events \in Seq(Event)
    /\ pendingUses \in Seq(Nat)
    /\ parked \in SUBSET Nat
    /\ owed \in [Requests -> SUBSET Nat]
    /\ lockOwed \in SUBSET Nat
    /\ durable \in SUBSET Nat

\* Where a request holds challengeMu.
HeldPlaces == {"recheck", "rechecked", "useHeld", "hitRelease", "ask", "prompt",
               "release", "offer", "offered", "dprompt", "adopt", "adopted",
               "drelease"}

\* Where a disclosed challenge has begun and not ended.
DisclosedPlaces == {"dqueue", "offer", "offered", "dprompt", "adopt",
                    "adopted", "drelease", "ddeliver"}

\* Where a request counts on finding the vault locked.
CountsOnLocked(r) ==
    \/ pc[r] \in {"ask", "prompt", "adopt"}
    \/ pc[r] \in {"rechecked", "offered"} /\ got[r] = Locked
    \/ pc[r] = "dprompt" /\ unlocking[r]

LockInv ==
    \A r \in Requests :
        /\ pc[r] \in HeldPlaces <=> challenger = r
        /\ CountsOnLocked(r) => mek = Locked
        /\ pc[r] \in {"idle", "dqueue"} => ~unlocking[r]
        /\ pc[r] \in DisclosedPlaces => op[r] \in DisclosedOps

Inv == TypeOK /\ LockInv

LEMMA InitInv == Init => Inv
  <1> SUFFICES ASSUME Init PROVE Inv
    OBVIOUS
  <1>1. CoreTypeOK
    BY CoreInitInv DEF Init, CoreInv
  <1>2. TypeOK
    BY <1>1 DEF Init, TypeOK, Places, AllOps, Refusal, NoRefusal, Locked
  <1>3. LockInv
    BY NoOneAssumption
    DEF Init, LockInv, HeldPlaces, DisclosedPlaces, CountsOnLocked
  <1> QED
    BY <1>2, <1>3 DEF Inv

-----------------------------------------------------------------------------
(* What is recorded has the type of what the ring holds.                   *)

LEMMA OneType ==
  ASSUME NEW kind \in {"unlock", "lock", "use", "approved", "denied"},
         NEW session \in Nat
  PROVE  One(kind, session) \in Seq(Event)
  BY DEF One, Event

LEMMA UsesType ==
  ASSUME NEW sessions \in Seq(Nat)
  PROVE  Uses(sessions) \in Seq(Event)
  <1> DEFINE use(i) == [kind |-> "use", session |-> sessions[i]]
  <1>1. Len(sessions) \in Nat /\ DOMAIN sessions = 1 .. Len(sessions)
    OBVIOUS
  <1>2. \A i \in 1 .. Len(sessions) : use(i) \in Event
    BY DEF Event
  <1>3. [i \in 1 .. Len(sessions) |-> use(i)] \in [1 .. Len(sessions) -> Event]
    BY <1>2
  <1>4. Uses(sessions) = [i \in 1 .. Len(sessions) |-> use(i)]
    BY <1>1 DEF Uses
  <1> QED
    BY <1>1, <1>3, <1>4, SeqDef

LEMMA EndOfSessionType ==
  ASSUME HistoryTypeOK, mek \in Nat
  PROVE  EndOfSession \in Seq(Event)
  <1>1. Uses(pendingUses) \in Seq(Event)
    BY UsesType DEF HistoryTypeOK
  <1>2. One("lock", mek) \in Seq(Event)
    BY OneType
  <1> QED
    BY <1>1, <1>2 DEF EndOfSession

LEMMA IdsType ==
  ASSUME HistoryTypeOK, NEW evs \in Seq(Event)
  PROVE  Ids(evs) \in SUBSET Nat
  BY DEF Ids, HistoryTypeOK

LEMMA OweType ==
  ASSUME HistoryTypeOK, NEW r \in Requests, NEW evs \in Seq(Event), Owe(r, evs),
         pendingUses' \in Seq(Nat)
  PROVE  HistoryTypeOK'
  <1>1. Ids(evs) \in SUBSET Nat
    BY IdsType
  <1> QED
    BY <1>1 DEF Owe, Record, HistoryTypeOK

LEMMA DrainType == HistoryTypeOK /\ DrainParked => HistoryTypeOK'
  BY DEF HistoryTypeOK, DrainParked

LEMMA HandType ==
  ASSUME HistoryTypeOK, NEW r \in Requests, Hand(r)
  PROVE  HistoryTypeOK'
  BY DEF HistoryTypeOK, Hand

LEMMA CollectType ==
  ASSUME HistoryTypeOK, mek \in Nat, CollectSession
  PROVE  HistoryTypeOK'
  <1>1. EndOfSession \in Seq(Event)
    BY EndOfSessionType
  <1>2. Ids(EndOfSession) \in SUBSET Nat
    BY <1>1, IdsType
  <1>3. events' \in Seq(Event)
    BY <1>1 DEF CollectSession, Record, HistoryTypeOK
  <1>4. pendingUses' \in Seq(Nat)
    BY DEF CollectSession
  <1>5. parked' \in SUBSET Nat
    BY <1>2 DEF CollectSession, HistoryTypeOK
  <1> QED
    BY <1>3, <1>4, <1>5 DEF CollectSession, HistoryTypeOK

LEMMA FileUseType ==
  ASSUME HistoryTypeOK, NEW r \in Requests, got[r] \in Nat, FileUse(r)
  PROVE  HistoryTypeOK'
  <1>1. PICK k \in 0 .. Len(pendingUses) :
          LET kept == SubSeq(pendingUses, k + 1, Len(pendingUses))
          IN  /\ pendingUses' = IF \E i \in DOMAIN kept : kept[i] = got[r]
                                THEN kept ELSE Append(kept, got[r])
              /\ Owe(r, Uses(SubSeq(pendingUses, 1, k)))
    BY DEF FileUse
  <1>2. SubSeq(pendingUses, k + 1, Len(pendingUses)) \in Seq(Nat)
    BY DEF HistoryTypeOK
  <1>3. SubSeq(pendingUses, 1, k) \in Seq(Nat)
    BY DEF HistoryTypeOK
  <1>4. pendingUses' \in Seq(Nat)
    BY <1>1, <1>2
  <1>5. Uses(SubSeq(pendingUses, 1, k)) \in Seq(Event)
    BY <1>3, UsesType
  <1> QED
    BY <1>1, <1>4, <1>5, OweType

-----------------------------------------------------------------------------
(* One step of one request.                                                *)

\* On the session it is one of the steps SessionCore allows.
LEMMA StepCore ==
  ASSUME Inv, NEW r \in Requests, Step(r)
  PROVE  [CoreNext]_coreVars
  <1>1. CASE EnsureTouch(r) \/ ChallengeRetouch(r)
    BY <1>1 DEF EnsureTouch, ChallengeRetouch, TouchSession, FindLocked,
                CollectSession, CoreNext
  <1>2. CASE DisclosePeek(r)
    BY <1>2 DEF DisclosePeek, PeekSession, FindLocked, CollectSession, CoreNext
  <1>3. CASE ChallengeApproved(r)
    <2>1. mek = Locked
      BY <1>3 DEF Inv, LockInv, CountsOnLocked, ChallengeApproved, At
    <2> QED
      BY <1>3, <2>1 DEF ChallengeApproved, CoreNext
  <1>4. CASE ChallengeRefused(r)
    BY <1>4 DEF ChallengeRefused, CoreNext
  <1>5. CASE Adopt(r) /\ Live
    BY <1>5 DEF Adopt
  <1>6. CASE Adopt(r) /\ ~Live
    <2>1. mek = Locked
      BY <1>6 DEF Inv, LockInv, CountsOnLocked, Adopt, At
    <2> QED
      BY <1>6, <2>1 DEF Adopt, CoreNext
  <1>7. CASE LockSession(r)
    BY <1>7 DEF LockSession, CoreNext
  <1>8. CASE
           \/ EnsureDrain(r) \/ EnsureUse(r) \/ ChallengeLock(r)
           \/ ChallengeDrain(r) \/ ChallengeUse(r)
           \/ ChallengeHitRelease(r) \/ ChallengePaused(r)
           \/ ChallengeAsk(r) \/ ChallengeRelease(r) \/ Deliver(r)
           \/ ClearDiscloseBackoff(r) \/ DiscloseThrottled(r)
           \/ DiscloseLock(r) \/ DiscloseOffer(r) \/ DiscloseApproved(r)
           \/ DiscloseRefused(r) \/ AdoptDrain(r) \/ DiscloseRelease(r)
           \/ DiscloseDeliver(r) \/ LockDeliver(r) \/ ReadHistory(r)
    BY <1>8 DEF EnsureDrain, EnsureUse, ChallengeLock, ChallengeDrain,
    ChallengeUse, ChallengeHitRelease, ChallengePaused, ChallengeAsk,
    ChallengeRelease, Deliver, ClearDiscloseBackoff, DiscloseThrottled,
    DiscloseLock, DiscloseOffer, DiscloseApproved, DiscloseRefused,
    AdoptDrain, DiscloseRelease, DiscloseDeliver, LockDeliver, ReadHistory
  <1> QED
    BY <1>1, <1>2, <1>3, <1>4, <1>5, <1>6, <1>7, <1>8 DEF Step

LEMMA HistoryUnchanged == HistoryTypeOK /\ UNCHANGED historyVars => HistoryTypeOK'
  BY DEF HistoryTypeOK, historyVars

\* The history keeps its type.
LEMMA StepHistory ==
  ASSUME Inv, NEW r \in Requests, Step(r)
  PROVE  HistoryTypeOK'
  <1>0. HistoryTypeOK /\ mek \in Nat /\ opened \in Nat /\ got[r] \in Nat
        /\ pendingUses \in Seq(Nat)
    BY DEF Inv, TypeOK, CoreTypeOK, HistoryTypeOK
  <1>1. CASE \/ ChallengeLock(r) \/ ChallengePaused(r) \/ ChallengeAsk(r)
             \/ ChallengeRelease(r) \/ ClearDiscloseBackoff(r)
             \/ DiscloseThrottled(r) \/ DiscloseLock(r) \/ DiscloseRelease(r)
    <2>1. UNCHANGED historyVars
      BY <1>1 DEF ChallengeLock, ChallengePaused, ChallengeAsk, ChallengeRelease,
                  ClearDiscloseBackoff, DiscloseThrottled, DiscloseLock,
                  DiscloseRelease
    <2> QED
      BY <1>0, <2>1, HistoryUnchanged
  <1>2. CASE \/ EnsureDrain(r) \/ ChallengeDrain(r) \/ DiscloseOffer(r)
             \/ AdoptDrain(r)
    BY <1>0, <1>2, DrainType
    DEF EnsureDrain, ChallengeDrain, DiscloseOffer, AdoptDrain
  <1>3. CASE \/ ChallengeHitRelease(r) \/ Deliver(r) \/ DiscloseDeliver(r)
             \/ LockDeliver(r)
    BY <1>0, <1>3, HandType
    DEF ChallengeHitRelease, Deliver, DiscloseDeliver, LockDeliver
  <1>4. CASE EnsureUse(r) \/ ChallengeUse(r)
    BY <1>0, <1>4, FileUseType DEF EnsureUse, ChallengeUse
  <1>5. CASE EnsureTouch(r) \/ ChallengeRetouch(r) \/ DisclosePeek(r)
    <2>1. UNCHANGED historyVars \/ CollectSession
      BY <1>5 DEF EnsureTouch, ChallengeRetouch, DisclosePeek, TouchSession,
                  PeekSession, FindLocked
    <2> QED
      BY <1>0, <2>1, HistoryUnchanged, CollectType
  <1>6. CASE ChallengeApproved(r)
    <2>1. One("unlock", opened + 1) \in Seq(Event)
      BY <1>0, OneType
    <2> QED
      BY <1>0, <1>6, <2>1, OweType DEF ChallengeApproved
  <1>7. CASE ChallengeRefused(r) \/ DiscloseApproved(r) \/ DiscloseRefused(r)
    <2>1. One("denied", Locked) \in Seq(Event)
      BY OneType DEF Locked
    <2>2. One("approved", Locked) \in Seq(Event)
      BY OneType DEF Locked
    <2> QED
      BY <1>0, <1>7, <2>1, <2>2, OweType
      DEF ChallengeRefused, DiscloseApproved, DiscloseRefused
  <1>8. CASE LockSession(r)
    <2>1. EndOfSession \in Seq(Event)
      BY <1>0, EndOfSessionType
    <2>2. pendingUses' \in Seq(Nat)
      BY <1>8 DEF LockSession
    <2> QED
      BY <1>0, <1>8, <2>1, <2>2, OweType DEF LockSession
  <1>9. CASE ReadHistory(r)
    <2>1. Uses(pendingUses) \in Seq(Event)
      BY <1>0, UsesType
    <2>2. pendingUses' \in Seq(Nat)
      BY <1>9 DEF ReadHistory
    <2> QED
      BY <1>0, <1>9, <2>1, <2>2, OweType DEF ReadHistory
  <1>10. CASE Adopt(r) /\ Live
    <2>1. UNCHANGED historyVars
      BY <1>10 DEF Adopt
    <2> QED
      BY <1>0, <2>1, HistoryUnchanged
  <1>11. CASE Adopt(r) /\ ~Live
    <2> DEFINE evs == <<>> \o One("unlock", opened + 1)
    <2>1. mek = Locked
      BY <1>11 DEF Inv, LockInv, CountsOnLocked, Adopt, At
    <2>2. /\ Record(evs)
          /\ parked' = parked \cup Ids(<<>>)
          /\ owed' = [owed EXCEPT ![r] = @ \cup (Ids(evs) \ Ids(<<>>))]
          /\ pendingUses' = pendingUses
          /\ UNCHANGED <<lockOwed, durable>>
      BY <1>11, <2>1 DEF Adopt
    <2>3. evs \in Seq(Event) /\ <<>> \in Seq(Event)
      BY <1>0, OneType
    <2>4. Ids(evs) \in SUBSET Nat /\ Ids(<<>>) \in SUBSET Nat
      BY <1>0, <2>3, IdsType
    <2>5. events' \in Seq(Event)
      BY <1>0, <2>2, <2>3 DEF Record, HistoryTypeOK
    <2>6. parked' \in SUBSET Nat /\ owed' \in [Requests -> SUBSET Nat]
      BY <1>0, <2>2, <2>4 DEF HistoryTypeOK
    <2> QED
      BY <1>0, <2>2, <2>5, <2>6 DEF HistoryTypeOK
  <1> QED
    BY <1>1, <1>2, <1>3, <1>4, <1>5, <1>6, <1>7, <1>8, <1>9, <1>10, <1>11
    DEF Step

\* So does the state of the requests.
LEMMA StepControl ==
  ASSUME Inv, NEW r \in Requests, Step(r)
  PROVE  ControlTypeOK'
  <1> USE DEF ControlTypeOK
  <1>0. ControlTypeOK /\ CoreTypeOK
    BY DEF Inv, TypeOK, ControlTypeOK
  <1>1. CASE EnsureTouch(r)
    BY <1>0, <1>1
    DEF EnsureTouch, Goto, Places, TouchSession, FindLocked, CoreTypeOK, Locked
  <1>2. CASE EnsureDrain(r)
    BY <1>0, <1>2 DEF EnsureDrain, Goto, Places
  <1>3. CASE EnsureUse(r)
    BY <1>0, <1>3 DEF EnsureUse, Goto, Places
  <1>4. CASE ChallengeLock(r)
    BY <1>0, <1>4 DEF ChallengeLock, Goto, Places
  <1>5. CASE ChallengeRetouch(r)
    BY <1>0, <1>5
    DEF ChallengeRetouch, Goto, Places, TouchSession, FindLocked, CoreTypeOK, Locked
  <1>6. CASE ChallengeDrain(r)
    BY <1>0, <1>6 DEF ChallengeDrain, Goto, Places
  <1>7. CASE ChallengeUse(r)
    BY <1>0, <1>7 DEF ChallengeUse, Goto, Places
  <1>8. CASE ChallengeHitRelease(r)
    BY <1>0, <1>8 DEF ChallengeHitRelease, Goto, Places
  <1>9. CASE ChallengePaused(r)
    BY <1>0, <1>9 DEF ChallengePaused, Goto, Places
  <1>10. CASE ChallengeAsk(r)
    BY <1>0, <1>10 DEF ChallengeAsk, Goto, Places
  <1>11. CASE ChallengeApproved(r)
    BY <1>0, <1>11 DEF ChallengeApproved, Goto, Places, CoreTypeOK
  <1>12. CASE ChallengeRefused(r)
    BY <1>0, <1>12 DEF ChallengeRefused, Goto, Places
  <1>13. CASE ChallengeRelease(r)
    BY <1>0, <1>13 DEF ChallengeRelease, Goto, Places
  <1>14. CASE Deliver(r)
    BY <1>0, <1>14 DEF Deliver, Goto, Places
  <1>15. CASE ClearDiscloseBackoff(r)
    BY <1>0, <1>15 DEF ClearDiscloseBackoff, Goto, Places, NoRefusal, Refusal
  <1>16. CASE DiscloseThrottled(r)
    BY <1>0, <1>16 DEF DiscloseThrottled, Goto, Places
  <1>17. CASE DiscloseLock(r)
    BY <1>0, <1>17 DEF DiscloseLock, Goto, Places
  <1>18. CASE DisclosePeek(r)
    BY <1>0, <1>18
    DEF DisclosePeek, Goto, Places, PeekSession, FindLocked, CoreTypeOK, Locked
  <1>19. CASE DiscloseOffer(r)
    BY <1>0, <1>19 DEF DiscloseOffer, Goto, Places
  <1>20. CASE DiscloseApproved(r)
    BY <1>0, <1>20 DEF DiscloseApproved, Goto, Places, NoRefusal, Refusal
  <1>21. CASE Adopt(r)
    BY <1>0, <1>21 DEF Adopt, Goto, Places
  <1>22. CASE AdoptDrain(r)
    BY <1>0, <1>22 DEF AdoptDrain, Goto, Places
  <1>23. CASE DiscloseRelease(r)
    BY <1>0, <1>23 DEF DiscloseRelease, Goto, Places
  <1>24. CASE DiscloseDeliver(r)
    BY <1>0, <1>24 DEF DiscloseDeliver, Goto, Places, Locked
  <1>25. CASE LockSession(r)
    BY <1>0, <1>25 DEF LockSession, Goto, Places
  <1>26. CASE LockDeliver(r)
    BY <1>0, <1>26 DEF LockDeliver, Goto, Places
  <1>27. CASE ReadHistory(r)
    BY <1>0, <1>27 DEF ReadHistory, Goto, Places
  <1>28. CASE DiscloseRefused(r)
    <2> DEFINE k == op[r]
               count == refusals[k].count + 1
    <2>1. k \in DisclosedOps
      BY <1>28 DEF Inv, LockInv, DiscloseRefused, At, DisclosedPlaces
    <2>2. refusals[k] \in Refusal
      BY <1>0, <2>1
    <2>3. count \in Nat /\ count > 0
      BY <2>2 DEF Refusal
    <2>4. now + BackoffFor(count) \in Nat
      BY <1>0, <2>3, BackoffAssumption DEF BackoffFor, CoreTypeOK
    <2>5. [count |-> count, until |-> now + BackoffFor(count)] \in Refusal
      BY <2>3, <2>4 DEF Refusal
    <2>6. refusals' = [refusals EXCEPT ![k] =
                          [count |-> count, until |-> now + BackoffFor(count)]]
      BY <1>28 DEF DiscloseRefused
    <2>7. refusals' \in [DisclosedOps -> Refusal]
      BY <1>0, <2>5, <2>6 DEF ControlTypeOK
    <2> QED
      BY <1>0, <1>28, <2>7 DEF DiscloseRefused, Goto, ControlTypeOK, Places
  <1> QED
    BY <1>1, <1>2, <1>3, <1>4, <1>5, <1>6, <1>7, <1>8, <1>9, <1>10, <1>11,
       <1>12, <1>13, <1>14, <1>15, <1>16, <1>17, <1>18, <1>19, <1>20, <1>21,
    <1>22, <1>23, <1>24, <1>25, <1>26, <1>27, <1>28
    DEF Step

\* Who holds challengeMu, and what it may count on.
LEMMA StepLocks ==
  ASSUME Inv, NEW r \in Requests, Step(r)
  PROVE  LockInv'
  <1>0. ControlTypeOK /\ LockInv /\ CoreTypeOK
    BY DEF Inv, TypeOK, ControlTypeOK
  <1> USE NoOneAssumption
      DEF At, Goto, ControlTypeOK, LockInv, HeldPlaces, DisclosedPlaces,
          CountsOnLocked
  <1>1. CASE EnsureTouch(r)
    BY <1>0, <1>1 DEF EnsureTouch, TouchSession, FindLocked,
    CollectSession, Collect, Touch, Live, coreVars
  <1>2. CASE EnsureDrain(r)
    BY <1>0, <1>2 DEF EnsureDrain, coreVars
  <1>3. CASE EnsureUse(r)
    BY <1>0, <1>3 DEF EnsureUse, coreVars
  <1>4. CASE ChallengeLock(r)
    BY <1>0, <1>4 DEF ChallengeLock, coreVars
  <1>5. CASE ChallengeRetouch(r)
    BY <1>0, <1>5 DEF ChallengeRetouch, TouchSession, FindLocked,
    CollectSession, Collect, Touch, Live, coreVars
  <1>6. CASE ChallengeDrain(r)
    BY <1>0, <1>6 DEF ChallengeDrain, coreVars
  <1>7. CASE ChallengeUse(r)
    BY <1>0, <1>7 DEF ChallengeUse, coreVars
  <1>8. CASE ChallengeHitRelease(r)
    BY <1>0, <1>8 DEF ChallengeHitRelease, coreVars
  <1>9. CASE ChallengePaused(r)
    BY <1>0, <1>9 DEF ChallengePaused, coreVars
  <1>10. CASE ChallengeAsk(r)
    BY <1>0, <1>10 DEF ChallengeAsk, coreVars
  <1>11. CASE ChallengeApproved(r)
    BY <1>0, <1>11 DEF ChallengeApproved, Install
  <1>12. CASE ChallengeRefused(r)
    BY <1>0, <1>12 DEF ChallengeRefused, Deny
  <1>13. CASE ChallengeRelease(r)
    BY <1>0, <1>13 DEF ChallengeRelease, coreVars
  <1>14. CASE Deliver(r)
    BY <1>0, <1>14 DEF Deliver, coreVars
  <1>15. CASE ClearDiscloseBackoff(r)
    BY <1>0, <1>15 DEF ClearDiscloseBackoff, coreVars
  <1>16. CASE DiscloseThrottled(r)
    BY <1>0, <1>16 DEF DiscloseThrottled, coreVars
  <1>17. CASE DiscloseLock(r)
    BY <1>0, <1>17 DEF DiscloseLock, coreVars
  <1>18. CASE DisclosePeek(r)
    BY <1>0, <1>18 DEF DisclosePeek, PeekSession, FindLocked,
    CollectSession, Collect, Live, coreVars
  <1>19. CASE DiscloseOffer(r)
    BY <1>0, <1>19 DEF DiscloseOffer, coreVars
  <1>20. CASE DiscloseApproved(r)
    BY <1>0, <1>20 DEF DiscloseApproved, coreVars
  <1>21. CASE DiscloseRefused(r)
    BY <1>0, <1>21 DEF DiscloseRefused, coreVars
  <1>22. CASE Adopt(r)
    BY <1>0, <1>22 DEF Adopt, Install, coreVars
  <1>23. CASE AdoptDrain(r)
    BY <1>0, <1>23 DEF AdoptDrain, coreVars
  <1>24. CASE DiscloseRelease(r)
    BY <1>0, <1>24 DEF DiscloseRelease, coreVars
  <1>25. CASE DiscloseDeliver(r)
    BY <1>0, <1>25 DEF DiscloseDeliver, coreVars
  <1>26. CASE LockSession(r)
    BY <1>0, <1>26 DEF LockSession, DropNow, DropKey
  <1>27. CASE LockDeliver(r)
    BY <1>0, <1>27 DEF LockDeliver, coreVars
  <1>28. CASE ReadHistory(r)
    BY <1>0, <1>28 DEF ReadHistory, coreVars
  <1> QED
    BY <1>1, <1>2, <1>3, <1>4, <1>5, <1>6, <1>7, <1>8, <1>9, <1>10, <1>11,
       <1>12, <1>13, <1>14, <1>15, <1>16, <1>17, <1>18, <1>19, <1>20, <1>21,
    <1>22, <1>23, <1>24, <1>25, <1>26, <1>27, <1>28
    DEF Step

-----------------------------------------------------------------------------
(* One step of anyone else.                                                *)

LEMMA AskInv ==
  ASSUME Inv, NEW r \in Requests, Ask(r)
  PROVE  /\ UNCHANGED coreVars
         /\ ControlTypeOK' /\ HistoryTypeOK' /\ LockInv'
  <1>1. PICK o \in Ops : op' = [op EXCEPT ![r] = o] /\ Goto(r, Entry(o))
    BY DEF Ask
  <1>2. o \in AllOps
    BY OpsAssumption
  <1>3. /\ Entry(o) \in {"touch", "dqueue", "lock", "history"}
        /\ Entry(o) = "dqueue" => o \in DisclosedOps
    BY <1>2 DEF Entry, AllOps, DisclosedOps
  <1>4. pc[r] = "idle" /\ UNCHANGED <<coreVars, historyVars, got, answer,
                                      unlocking, challenger, refusals>>
    BY DEF Ask, At
  <1>5. ControlTypeOK /\ HistoryTypeOK
    BY DEF Inv, TypeOK, ControlTypeOK, HistoryTypeOK
  <1>6. ControlTypeOK'
    BY <1>1, <1>2, <1>3, <1>4, <1>5 DEF ControlTypeOK, Goto, Places
  <1>7. HistoryTypeOK'
    BY <1>4, <1>5, HistoryUnchanged
  <1>8. LockInv'
    BY <1>1, <1>3, <1>4, <1>5
    DEF Inv, LockInv, ControlTypeOK, Goto, HeldPlaces, DisclosedPlaces,
        CountsOnLocked, coreVars
  <1> QED
    BY <1>4, <1>6, <1>7, <1>8

\* A key that goes away, a timer, and the clock disturb no request.
LEMMA LockInvKept ==
  ASSUME Inv, UNCHANGED requestVars, mek' \in {mek, Locked}
  PROVE  ControlTypeOK' /\ LockInv'
  BY DEF Inv, TypeOK, ControlTypeOK, LockInv, CountsOnLocked, requestVars, Locked

LEMMA TimerInvKept ==
  ASSUME Inv, TimerStep
  PROVE  [CoreNext]_coreVars /\ ControlTypeOK' /\ HistoryTypeOK' /\ LockInv'
  <1>0. HistoryTypeOK /\ mek \in Nat
    BY DEF Inv, TypeOK, CoreTypeOK, HistoryTypeOK
  <1>1. CASE (TimerFires \/ TimerNeutralized)
             /\ UNCHANGED <<requestVars, historyVars>>
    <2>1. mek' = mek
      BY <1>1 DEF TimerFires, TimerNeutralized
    <2> QED
      BY <1>0, <1>1, <2>1, LockInvKept, HistoryUnchanged DEF CoreNext
  <1>2. CASE TimerLocks
    <2>1. mek' = Locked /\ UNCHANGED requestVars /\ DropTimed
      BY <1>2 DEF TimerLocks, DropTimed, DropKey
    <2>2. EndOfSession \in Seq(Event)
      BY <1>0, EndOfSessionType
    <2>3. Ids(EndOfSession) \in SUBSET Nat
      BY <1>0, <2>2, IdsType
    <2>4. events' \in Seq(Event)
      BY <1>0, <1>2, <2>2 DEF TimerLocks, Record, HistoryTypeOK
    <2>5. pendingUses' \in Seq(Nat)
      BY <1>2 DEF TimerLocks
    <2>6. HistoryTypeOK'
      BY <1>0, <1>2, <2>3, <2>4, <2>5 DEF TimerLocks, HistoryTypeOK
    <2> QED
      BY <2>1, <2>6, LockInvKept DEF CoreNext
  <1>3. CASE TimerDelivers
    <2>1. UNCHANGED coreVars /\ UNCHANGED requestVars /\ mek' = mek
      BY <1>3 DEF TimerDelivers, coreVars
    <2>2. HistoryTypeOK'
      BY <1>0, <1>3 DEF TimerDelivers, HistoryTypeOK
    <2> QED
      BY <2>1, <2>2, LockInvKept
  <1> QED
    BY <1>1, <1>2, <1>3 DEF TimerStep

LEMMA NextStep == Inv /\ [Next]_vars => Inv' /\ [CoreNext]_coreVars
  <1> SUFFICES ASSUME Inv, [Next]_vars PROVE Inv' /\ [CoreNext]_coreVars
    OBVIOUS
  <1>0. CoreTypeOK /\ HistoryTypeOK
    BY DEF Inv, TypeOK, HistoryTypeOK
  <1>1. [CoreNext]_coreVars /\ ControlTypeOK' /\ HistoryTypeOK' /\ LockInv'
    <2>1. CASE \E r \in Requests : Ask(r)
      BY <2>1, AskInv
    <2>2. CASE \E r \in Requests : Step(r)
      BY <2>2, StepCore, StepControl, StepHistory, StepLocks
    <2>3. CASE TimerStep
      BY <2>3, TimerInvKept
    <2>4. CASE Clock
      <3>1. mek' = mek /\ UNCHANGED requestVars /\ UNCHANGED historyVars /\ Tick
        BY <2>4 DEF Clock, Tick
      <3> QED
        BY <1>0, <3>1, LockInvKept, HistoryUnchanged DEF CoreNext
    <2>5. CASE UNCHANGED vars
      <3>1. /\ UNCHANGED coreVars /\ UNCHANGED requestVars
            /\ UNCHANGED historyVars /\ mek' = mek
        BY <2>5 DEF vars, coreVars
      <3> QED
        BY <1>0, <3>1, LockInvKept, HistoryUnchanged
    <2> QED
      BY <2>1, <2>2, <2>3, <2>4, <2>5 DEF Next, Finished
  <1>2. CoreTypeOK'
    BY <1>0, <1>1, CoreTypeStep
  <1> QED
    BY <1>1, <1>2 DEF Inv, TypeOK, ControlTypeOK, HistoryTypeOK

LEMMA Invariant == Spec => []Inv
  BY InitInv, NextStep, PTL DEF Spec

-----------------------------------------------------------------------------
(* What the history holds.                                                 *)

\* Event n is in the file or in somebody's hands.
Kept(n) == n \in parked \cup lockOwed \cup durable \/ \E r \in Requests : n \in owed[r]

\* Nobody holds what another one holds or the file has.
HeldOnce ==
    /\ \A r \in Requests :
          /\ owed[r] \cap (parked \cup lockOwed \cup durable) = {}
          /\ \A q \in Requests \ {r} : owed[r] \cap owed[q] = {}
    /\ parked \cap (lockOwed \cup durable) = {}
    /\ lockOwed \cap durable = {}

Conserved ==
    /\ \A n \in Nat : Kept(n) <=> n \in 1 .. Len(events)
    /\ HeldOnce

\* The live session is the one opened last.
LiveIsLast == mek \in {Locked, opened}

HistoryInv == LiveIsLast /\ OneLockPerUnlock /\ Conserved

\* One more boundary at most, the next that is due and the last of what is
\* recorded.
LEMMA RecordTold ==
  ASSUME events \in Seq(Event), opened \in Nat, mek \in Nat,
         opened' \in Nat, mek' \in Nat, OneLockPerUnlock,
         NEW evs \in Seq(Event), Record(evs),
         NEW k \in {0, 1}, BoundariesDue' = BoundariesDue + k,
         BoundariesDue \in Nat,
         \A i \in 1 .. Len(evs) :
            IsBoundary(evs[i]) => k = 1 /\ i = Len(evs),
         k = 1 => /\ Len(evs) > 0 /\ IsBoundary(evs[Len(evs)])
                  /\ Rank(evs[Len(evs)]) = BoundariesDue + 1
  PROVE  OneLockPerUnlock'
  <1> DEFINE n == Len(events)
             m == Len(evs)
             due == BoundariesDue
  <1>1. /\ n \in Nat /\ m \in Nat /\ due \in Nat /\ due' = due + k
        /\ Len(events') = n + m /\ events' \in Seq(Event)
        /\ \A i \in 1 .. n : events'[i] = events[i]
        /\ \A i \in 1 .. m : events'[n + i] = evs[i]
    <2>1. events' = events \o evs
      BY DEF Record
    <2>2. /\ n \in Nat /\ m \in Nat /\ due \in Nat /\ due' = due + k
      OBVIOUS
    <2>3. events' \in Seq(Event) /\ Len(events') = n + m
      BY <2>1
    <2>4. \A i \in 1 .. n + m :
            events'[i] = IF i <= n THEN events[i] ELSE evs[i - n]
      BY <2>1, ConcatProperties
    <2> HIDE DEF n, m, due
    <2>5. \A i \in 1 .. n : events'[i] = events[i]
      BY <2>2, <2>4
    <2>6. \A i \in 1 .. m : n + i \in 1 .. n + m /\ ~(n + i <= n) /\ (n + i) - n = i
      BY <2>2
    <2>7. \A i \in 1 .. m : events'[n + i] = evs[i]
      BY <2>4, <2>6
    <2> QED
      BY <2>2, <2>3, <2>5, <2>7 DEF n, m, due
  <1>2. /\ DOMAIN events = 1 .. n /\ DOMAIN events' = 1 .. (n + m)
    BY <1>1
  <1>3. \A i \in 1 .. (n + m) :
          i \in 1 .. n \/ (i - n \in 1 .. m /\ i = n + (i - n))
    BY <1>1
  <1>4. ASSUME NEW i \in 1 .. (n + m), i \notin 1 .. n, IsBoundary(events'[i])
        PROVE  k = 1 /\ i = n + m /\ Rank(events'[i]) = due + 1
    <2>1. i - n \in 1 .. m /\ events'[i] = evs[i - n]
      BY <1>1, <1>3, <1>4
    <2>2. k = 1 /\ i - n = m
      BY <1>4, <2>1
    <2> QED
      BY <1>1, <2>1, <2>2
  <1>5. \A i \in 1 .. n :
          IsBoundary(events'[i]) => Rank(events'[i]) \in 1 .. due
    BY <1>1, <1>2 DEF OneLockPerUnlock
  <1>6. \A i, j \in 1 .. n :
          i < j /\ IsBoundary(events'[i]) /\ IsBoundary(events'[j])
             => Rank(events'[i]) < Rank(events'[j])
    BY <1>1, <1>2 DEF OneLockPerUnlock
  <1>7. \A p \in 1 .. due : \E i \in 1 .. n :
          IsBoundary(events'[i]) /\ Rank(events'[i]) = p
    BY <1>1, <1>2 DEF OneLockPerUnlock
  <1>8. k = 1 => /\ n + m \in 1 .. (n + m) /\ n + m \notin 1 .. n
                 /\ IsBoundary(events'[n + m]) /\ Rank(events'[n + m]) = due + 1
    <2> SUFFICES ASSUME k = 1
                 PROVE  /\ n + m \in 1 .. (n + m) /\ n + m \notin 1 .. n
                        /\ IsBoundary(events'[n + m])
                        /\ Rank(events'[n + m]) = due + 1
      OBVIOUS
    <2>1. m > 0 /\ IsBoundary(evs[m]) /\ Rank(evs[m]) = due + 1
      OBVIOUS
    <2> HIDE DEF n, m, due
    <2>2. m \in 1 .. m /\ n + m \in 1 .. (n + m) /\ n + m \notin 1 .. n
      BY <1>1, <2>1
    <2>3. events'[n + m] = evs[m]
      BY <1>1, <2>2
    <2> QED
      BY <2>1, <2>2, <2>3
  <1> HIDE DEF n, m, due
  <1>9. \A i \in 1 .. (n + m) :
          IsBoundary(events'[i]) => Rank(events'[i]) \in 1 .. (due + k)
    BY <1>1, <1>4, <1>5
  <1>10. \A i, j \in 1 .. (n + m) :
          i < j /\ IsBoundary(events'[i]) /\ IsBoundary(events'[j])
             => Rank(events'[i]) < Rank(events'[j])
    <2> SUFFICES ASSUME NEW i \in 1 .. (n + m), NEW j \in 1 .. (n + m), i < j,
                        IsBoundary(events'[i]), IsBoundary(events'[j])
                 PROVE  Rank(events'[i]) < Rank(events'[j])
      OBVIOUS
    <2>1. i \in 1 .. n
      BY <1>1, <1>4
    <2>2. CASE j \in 1 .. n
      BY <1>6, <2>1, <2>2
    <2>3. CASE j \notin 1 .. n
      BY <1>1, <1>4, <1>5, <2>1, <2>3
    <2> QED
      BY <2>2, <2>3
  <1>11. \A p \in 1 .. (due + k) : \E i \in 1 .. (n + m) :
          IsBoundary(events'[i]) /\ Rank(events'[i]) = p
    <2> SUFFICES ASSUME NEW p \in 1 .. (due + k)
                 PROVE  \E i \in 1 .. (n + m) :
                          IsBoundary(events'[i]) /\ Rank(events'[i]) = p
      OBVIOUS
    <2>1. CASE p \in 1 .. due
      <3>1. PICK i \in 1 .. n : IsBoundary(events'[i]) /\ Rank(events'[i]) = p
        BY <1>7, <2>1
      <3>2. i \in 1 .. (n + m)
        BY <1>1
      <3> QED
        BY <3>1, <3>2
    <2>2. CASE p \notin 1 .. due
      <3>1. k = 1 /\ p = due + 1
        BY <1>1, <2>2
      <3> QED
        BY <1>8, <3>1
    <2> QED
      BY <2>1, <2>2
  <1> QED
    BY <1>1, <1>2, <1>9, <1>10, <1>11 DEF OneLockPerUnlock, due

\* What a session's end records: uses, and the lock of a key that is there.
LEMMA EndTold ==
  ASSUME HistoryTypeOK, opened \in Nat, mek \in Nat, LiveIsLast,
         OneLockPerUnlock, Record(EndOfSession),
         mek' = Locked, opened' = opened
  PROVE  OneLockPerUnlock'
  <1> DEFINE uses == Uses(pendingUses)
             n == Len(uses)
             k == IF mek = Locked THEN 0 ELSE 1
  <1>1. uses \in Seq(Event) /\ n \in Nat
        /\ \A i \in 1 .. n : uses[i].kind = "use"
    <2>1. uses \in Seq(Event)
      BY UsesType DEF HistoryTypeOK
    <2>2. Len(pendingUses) \in Nat
          /\ uses = [i \in 1 .. Len(pendingUses) |->
                       [kind |-> "use", session |-> pendingUses[i]]]
      BY DEF HistoryTypeOK, Uses
    <2>3. n = Len(pendingUses)
      BY <2>1, <2>2
    <2> QED
      BY <2>1, <2>2, <2>3
  <1>2. EndOfSession \in Seq(Event)
    BY EndOfSessionType
  <1>3. /\ k \in {0, 1} /\ BoundariesDue \in Nat
        /\ BoundariesDue' = BoundariesDue + k
        /\ k = 1 => BoundariesDue = 2 * mek - 1
    BY DEF BoundariesDue, LiveIsLast, Locked
  <1> HIDE DEF uses
  <1>4. CASE mek = Locked
    <2>1. EndOfSession = uses
      BY <1>1, <1>4, ConcatEmptySeq DEF EndOfSession, uses
    <2>2. \A i \in 1 .. Len(EndOfSession) : ~IsBoundary(EndOfSession[i])
      BY <1>1, <2>1 DEF IsBoundary
    <2>3. BoundariesDue' = BoundariesDue + 0
      BY <1>3, <1>4
    <2>4. opened' \in Nat /\ mek' \in Nat
      BY DEF Locked
    <2> HIDE DEF k
    <2> QED
      BY <1>2, <1>3, <2>2, <2>3, <2>4, RecordTold DEF HistoryTypeOK
  <1>5. CASE mek # Locked
    <2> DEFINE lock == [kind |-> "lock", session |-> mek]
    <2>1. EndOfSession = uses \o <<lock>>
      BY <1>5 DEF EndOfSession, One, uses
    <2>2. <<lock>> \in Seq(Event) /\ Len(<<lock>>) = 1 /\ <<lock>>[1] = lock
      BY DEF Event
    <2> HIDE DEF lock, n
    <2>3. /\ Len(EndOfSession) = n + 1
          /\ \A i \in 1 .. n + 1 :
                EndOfSession[i] = IF i <= n THEN uses[i] ELSE <<lock>>[i - n]
      BY <1>1, <2>1, <2>2, ConcatProperties DEF n
    <2>4. /\ \A i \in 1 .. n : EndOfSession[i] = uses[i]
          /\ EndOfSession[n + 1] = lock
      <3>1. n + 1 \in 1 .. n + 1 /\ ~(n + 1 <= n) /\ (n + 1) - n = 1
        BY <1>1
      <3> QED
        BY <1>1, <2>2, <2>3, <3>1
    <2>5. IsBoundary(lock) /\ Rank(lock) = 2 * mek
      BY DEF IsBoundary, Rank, lock
    <2>6. k = 1 /\ Rank(lock) = BoundariesDue + 1
      <3>1. k = 1 /\ BoundariesDue = 2 * mek - 1
        BY <1>3, <1>5
      <3> HIDE DEF k
      <3> QED
        BY <2>5, <3>1
    <2>7. \A i \in 1 .. Len(EndOfSession) :
            IsBoundary(EndOfSession[i]) => k = 1 /\ i = Len(EndOfSession)
      BY <1>1, <2>3, <2>4, <2>6 DEF IsBoundary
    <2>8. /\ Len(EndOfSession) > 0
          /\ IsBoundary(EndOfSession[Len(EndOfSession)])
          /\ Rank(EndOfSession[Len(EndOfSession)]) = BoundariesDue + 1
      BY <1>1, <2>3, <2>4, <2>5, <2>6
    <2> HIDE DEF k
    <2>9. opened' \in Nat /\ mek' \in Nat /\ k \in {0, 1}
      BY <2>6 DEF Locked
    <2>10. BoundariesDue' = BoundariesDue + 1
      BY <1>3, <2>6
    <2> QED
      BY <1>2, <1>3, <2>10, <2>6, <2>7, <2>8, <2>9, RecordTold DEF HistoryTypeOK
  <1> QED
    BY <1>4, <1>5

\* What records no boundary leaves them told.
LEMMA OthersTold ==
  ASSUME HistoryTypeOK, opened \in Nat, mek \in Nat, LiveIsLast,
         OneLockPerUnlock, UNCHANGED <<mek, opened>>,
         NEW evs \in Seq(Event), Record(evs),
         \A i \in 1 .. Len(evs) : ~IsBoundary(evs[i])
  PROVE  OneLockPerUnlock'
  <1>1. BoundariesDue \in Nat /\ BoundariesDue' = BoundariesDue + 0
    BY DEF BoundariesDue, LiveIsLast, Locked
  <1> QED
    BY <1>1, RecordTold DEF HistoryTypeOK

LEMMA UsesAreNoBoundary ==
  ASSUME NEW sessions \in Seq(Nat)
  PROVE  \A i \in 1 .. Len(Uses(sessions)) : ~IsBoundary(Uses(sessions)[i])
  <1>1. Len(sessions) \in Nat
        /\ Uses(sessions) = [i \in 1 .. Len(sessions) |->
                               [kind |-> "use", session |-> sessions[i]]]
    BY DEF Uses
  <1>2. Len(Uses(sessions)) = Len(sessions)
    BY <1>1, UsesType
  <1> QED
    BY <1>1, <1>2 DEF IsBoundary

\* A session that opens is the next, and found the vault locked.
LEMMA UnlockTold ==
  ASSUME HistoryTypeOK, opened \in Nat, mek = Locked, OneLockPerUnlock,
         opened' = opened + 1, mek' = opened + 1,
         Record(One("unlock", opened + 1))
  PROVE  OneLockPerUnlock'
  <1> DEFINE unlock == [kind |-> "unlock", session |-> opened + 1]
             evs == <<unlock>>
  <1>1. evs \in Seq(Event) /\ Len(evs) = 1 /\ evs[1] = unlock
    BY DEF Event
  <1>2. IsBoundary(unlock) /\ Rank(unlock) = 2 * (opened + 1) - 1
    BY DEF IsBoundary, Rank
  <1>3. /\ BoundariesDue = 2 * opened /\ BoundariesDue' = BoundariesDue + 1
        /\ BoundariesDue \in Nat
    BY DEF BoundariesDue, Locked
  <1>4. Record(evs)
    BY DEF One
  <1> HIDE DEF unlock
  <1>5. /\ \A i \in 1 .. Len(evs) : IsBoundary(evs[i]) => i = Len(evs)
        /\ Len(evs) > 0 /\ IsBoundary(evs[Len(evs)])
        /\ Rank(evs[Len(evs)]) = BoundariesDue + 1
    BY <1>1, <1>2, <1>3
  <1>6. opened' \in Nat /\ mek' \in Nat /\ mek \in Nat
    BY DEF Locked
  <1> HIDE DEF evs
  <1> QED
    BY <1>1, <1>3, <1>4, <1>5, <1>6, RecordTold DEF HistoryTypeOK

\* The numbers under which the ring keeps what is recorded are new to it.
LEMMA IdsAreNew ==
  ASSUME HistoryTypeOK, NEW evs \in Seq(Event), Record(evs)
  PROVE  /\ Ids(evs) \in SUBSET Nat
         /\ \A n \in Nat : n \in 1 .. Len(events')
                             <=> n \in 1 .. Len(events) \/ n \in Ids(evs)
         /\ \A n \in Ids(evs) : n \notin 1 .. Len(events)
  <1>1. Len(events) \in Nat /\ Len(evs) \in Nat
        /\ Len(events') = Len(events) + Len(evs)
    BY DEF HistoryTypeOK, Record
  <1> QED
    BY <1>1 DEF Ids

\* What was new to the ring nobody holds yet.
LEMMA NewIsHeldByNone ==
  ASSUME HistoryTypeOK, Conserved, NEW evs \in Seq(Event), Record(evs)
  PROVE  \A n \in Ids(evs) : ~Kept(n)
  BY IdsAreNew DEF Conserved

LEMMA OweConserves ==
  ASSUME HistoryTypeOK, Conserved, NEW r \in Requests,
         NEW evs \in Seq(Event), Owe(r, evs)
  PROVE  Conserved'
  <1> DEFINE new == Ids(evs)
  <1>1. /\ Record(evs) /\ UNCHANGED <<parked, lockOwed, durable>>
        /\ owed' = [owed EXCEPT ![r] = owed[r] \cup new]
    BY DEF Owe
  <1>2. /\ new \in SUBSET Nat
        /\ \A n \in Nat : n \in 1 .. Len(events')
                            <=> n \in 1 .. Len(events) \/ n \in new
        /\ \A n \in new : ~Kept(n)
    BY <1>1, IdsAreNew, NewIsHeldByNone
  <1> HIDE DEF new
  <1>3. /\ \A q \in Requests :
              owed'[q] = IF q = r THEN owed[q] \cup new ELSE owed[q]
    BY <1>1 DEF HistoryTypeOK
  <1>4. \A n \in Nat : Kept(n)' <=> Kept(n) \/ n \in new
    <2> SUFFICES ASSUME NEW n \in Nat PROVE Kept(n)' <=> Kept(n) \/ n \in new
      OBVIOUS
    <2>1. (\E q \in Requests : n \in owed'[q])
            <=> (\E q \in Requests : n \in owed[q]) \/ n \in new
      BY <1>3
    <2>2. UNCHANGED <<parked, lockOwed, durable>>
      BY <1>1
    <2> QED
      BY <2>1, <2>2 DEF Kept
  <1>5. HeldOnce'
    <2>1. UNCHANGED <<parked, lockOwed, durable>>
      BY <1>1
    <2>2. \A n \in new : /\ n \notin parked \cup lockOwed \cup durable
                         /\ \A q \in Requests : n \notin owed[q]
      BY <1>2 DEF Kept
    <2>3. ASSUME NEW p \in Requests
          PROVE  owed'[p] \cap (parked \cup lockOwed \cup durable) = {}
      BY <1>3, <2>2 DEF Conserved, HeldOnce
    <2>4. ASSUME NEW p \in Requests, NEW q \in Requests \ {p}
          PROVE  owed'[p] \cap owed'[q] = {}
      <3>1. owed[p] \cap owed[q] = {}
        BY DEF Conserved, HeldOnce
      <3> QED
        BY <1>3, <2>2, <3>1
    <2> QED
      BY <2>1, <2>3, <2>4 DEF Conserved, HeldOnce
  <1> QED
    BY <1>2, <1>4, <1>5 DEF Conserved

LEMMA HandConserves ==
  ASSUME HistoryTypeOK, Conserved, NEW r \in Requests, Hand(r)
  PROVE  Conserved'
  <1>1. /\ durable' = durable \cup owed[r]
        /\ UNCHANGED <<events, parked, lockOwed>>
        /\ \A q \in Requests : owed'[q] = IF q = r THEN {} ELSE owed[q]
    BY DEF Hand, HistoryTypeOK
  <1>2. \A n \in Nat : Kept(n)' <=> Kept(n)
    BY <1>1 DEF Kept
  <1>3. HeldOnce'
    BY <1>1 DEF Conserved, HeldOnce
  <1> QED
    BY <1>1, <1>2, <1>3 DEF Conserved

LEMMA DrainConserves ==
  ASSUME Conserved, DrainParked
  PROVE  Conserved'
  <1>1. \A n \in Nat : Kept(n)' <=> Kept(n)
    BY DEF DrainParked, Kept
  <1>2. HeldOnce'
    BY DEF Conserved, HeldOnce, DrainParked
  <1> QED
    BY <1>1, <1>2 DEF Conserved, DrainParked

LEMMA TimerDeliversConserves ==
  ASSUME Conserved, TimerDelivers
  PROVE  Conserved'
  <1>1. \A n \in Nat : Kept(n)' <=> Kept(n)
    BY DEF TimerDelivers, Kept
  <1>2. HeldOnce'
    BY DEF Conserved, HeldOnce, TimerDelivers
  <1> QED
    BY <1>1, <1>2 DEF Conserved, TimerDelivers

\* The end of a session found over is parked for whoever drains it next.
LEMMA ParkConserves ==
  ASSUME HistoryTypeOK, Conserved, NEW evs \in Seq(Event), Record(evs),
         parked' = parked \cup Ids(evs), UNCHANGED <<owed, lockOwed, durable>>
  PROVE  Conserved'
  <1> DEFINE new == Ids(evs)
  <1>2. /\ new \in SUBSET Nat
        /\ \A n \in Nat : n \in 1 .. Len(events')
                            <=> n \in 1 .. Len(events) \/ n \in new
        /\ \A n \in new : ~Kept(n)
    BY IdsAreNew, NewIsHeldByNone
  <1>3. parked' = parked \cup new
    OBVIOUS
  <1> HIDE DEF new
  <1>4. \A n \in Nat : Kept(n)' <=> Kept(n) \/ n \in new
    BY <1>3 DEF Kept
  <1>5. HeldOnce'
    BY <1>2, <1>3 DEF Conserved, HeldOnce, Kept
  <1> QED
    BY <1>2, <1>4, <1>5 DEF Conserved

\* The end a timer made is its own goroutine's to hand on.
LEMMA TimerLocksConserves ==
  ASSUME HistoryTypeOK, mek \in Nat, Conserved, TimerLocks
  PROVE  Conserved'
  <1> DEFINE new == Ids(EndOfSession)
  <1>1. EndOfSession \in Seq(Event) /\ Record(EndOfSession)
    BY EndOfSessionType DEF TimerLocks
  <1>2. /\ new \in SUBSET Nat
        /\ \A n \in Nat : n \in 1 .. Len(events')
                            <=> n \in 1 .. Len(events) \/ n \in new
        /\ \A n \in new : ~Kept(n)
    BY <1>1, IdsAreNew, NewIsHeldByNone
  <1>3. lockOwed' = lockOwed \cup new /\ UNCHANGED <<parked, owed, durable>>
    BY DEF TimerLocks
  <1> HIDE DEF new
  <1>4. \A n \in Nat : Kept(n)' <=> Kept(n) \/ n \in new
    BY <1>3 DEF Kept
  <1>5. HeldOnce'
    BY <1>2, <1>3 DEF Conserved, HeldOnce, Kept
  <1> QED
    BY <1>2, <1>4, <1>5 DEF Conserved

-----------------------------------------------------------------------------
(* One step leaves the history whole.                                      *)

LEMMA HistoryStays ==
  ASSUME HistoryInv, UNCHANGED <<mek, opened, historyVars>>
  PROVE  HistoryInv'
  <1>1. LiveIsLast'
    BY DEF HistoryInv, LiveIsLast
  <1>2. OneLockPerUnlock'
    BY DEF HistoryInv, OneLockPerUnlock, BoundariesDue, historyVars
  <1>3. Conserved'
    BY DEF HistoryInv, Conserved, HeldOnce, Kept, historyVars
  <1> QED
    BY <1>1, <1>2, <1>3 DEF HistoryInv

\* What keeps the ring keeps the boundaries told in it.
LEMMA RingStays ==
  ASSUME HistoryInv, UNCHANGED <<mek, opened, events>>, Conserved'
  PROVE  HistoryInv'
  BY DEF HistoryInv, LiveIsLast, OneLockPerUnlock, BoundariesDue

LEMMA CollectWhole ==
  ASSUME HistoryTypeOK, CoreTypeOK, HistoryInv, CollectSession
  PROVE  HistoryInv'
  <1>1. /\ mek' = Locked /\ opened' = opened /\ Record(EndOfSession)
        /\ parked' = parked \cup Ids(EndOfSession)
        /\ UNCHANGED <<owed, lockOwed, durable>>
    BY DEF CollectSession, Collect
  <1>2. OneLockPerUnlock'
    BY <1>1, EndTold DEF CoreTypeOK, HistoryInv
  <1>3. Conserved'
    BY <1>1, ParkConserves, EndOfSessionType DEF CoreTypeOK, HistoryInv
  <1> QED
    BY <1>1, <1>2, <1>3 DEF HistoryInv, LiveIsLast

\* A request that records and will hand on.
LEMMA OweWhole ==
  ASSUME HistoryTypeOK, CoreTypeOK, HistoryInv, NEW r \in Requests,
         NEW evs \in Seq(Event), Owe(r, evs), LiveIsLast',
         OneLockPerUnlock'
  PROVE  HistoryInv'
  BY OweConserves DEF HistoryInv

LEMMA OweOtherWhole ==
  ASSUME HistoryTypeOK, CoreTypeOK, HistoryInv, NEW r \in Requests,
         NEW evs \in Seq(Event), Owe(r, evs), UNCHANGED <<mek, opened>>,
         \A i \in 1 .. Len(evs) : ~IsBoundary(evs[i])
  PROVE  HistoryInv'
  <1>1. OneLockPerUnlock'
    BY OthersTold DEF CoreTypeOK, HistoryInv, Owe
  <1>2. LiveIsLast'
    BY DEF HistoryInv, LiveIsLast
  <1> QED
    BY <1>1, <1>2, OweWhole

LEMMA FileUseWhole ==
  ASSUME HistoryTypeOK, CoreTypeOK, HistoryInv, NEW r \in Requests,
         FileUse(r), UNCHANGED <<mek, opened>>
  PROVE  HistoryInv'
  <1>1. PICK k \in 0 .. Len(pendingUses) :
          Owe(r, Uses(SubSeq(pendingUses, 1, k)))
    BY DEF FileUse
  <1>2. SubSeq(pendingUses, 1, k) \in Seq(Nat)
    BY DEF HistoryTypeOK
  <1>3. Uses(SubSeq(pendingUses, 1, k)) \in Seq(Event)
    BY <1>2, UsesType
  <1> QED
    BY <1>1, <1>2, <1>3, UsesAreNoBoundary, OweOtherWhole

LEMMA StepWhole ==
  ASSUME Inv, HistoryInv, NEW r \in Requests, Step(r)
  PROVE  HistoryInv'
  <1>0. HistoryTypeOK /\ CoreTypeOK
    BY DEF Inv, TypeOK, HistoryTypeOK
  <1>1. CASE \/ ChallengeLock(r) \/ ChallengePaused(r) \/ ChallengeAsk(r)
             \/ ChallengeRelease(r) \/ ClearDiscloseBackoff(r)
             \/ DiscloseThrottled(r) \/ DiscloseLock(r) \/ DiscloseRelease(r)
    <2>1. UNCHANGED historyVars /\ UNCHANGED coreVars
      BY <1>1 DEF ChallengeLock, ChallengePaused, ChallengeAsk, ChallengeRelease,
                  ClearDiscloseBackoff, DiscloseThrottled, DiscloseLock,
                  DiscloseRelease
    <2> QED
      BY <2>1, HistoryStays DEF coreVars
  <1>2. CASE \/ EnsureDrain(r) \/ ChallengeDrain(r) \/ DiscloseOffer(r)
             \/ AdoptDrain(r)
    <2>1. DrainParked /\ UNCHANGED coreVars
      BY <1>2 DEF EnsureDrain, ChallengeDrain, DiscloseOffer, AdoptDrain
    <2>2. Conserved' /\ events' = events
      BY <2>1, DrainConserves DEF HistoryInv, DrainParked
    <2> QED
      BY <2>1, <2>2, RingStays DEF coreVars
  <1>3. CASE \/ ChallengeHitRelease(r) \/ Deliver(r) \/ DiscloseDeliver(r)
             \/ LockDeliver(r)
    <2>1. Hand(r) /\ UNCHANGED coreVars
      BY <1>3 DEF ChallengeHitRelease, Deliver, DiscloseDeliver, LockDeliver
    <2>2. Conserved' /\ events' = events
      BY <1>0, <2>1, HandConserves DEF HistoryInv, Hand
    <2> QED
      BY <2>1, <2>2, RingStays DEF coreVars
  <1>4. CASE EnsureUse(r) \/ ChallengeUse(r)
    <2>1. FileUse(r) /\ UNCHANGED coreVars
      BY <1>4 DEF EnsureUse, ChallengeUse
    <2> QED
      BY <1>0, <2>1, FileUseWhole DEF coreVars
  <1>5. CASE EnsureTouch(r) \/ ChallengeRetouch(r) \/ DisclosePeek(r)
    <2>1. \/ UNCHANGED <<mek, opened, historyVars>>
          \/ CollectSession
      BY <1>5 DEF EnsureTouch, ChallengeRetouch, DisclosePeek, TouchSession,
                  PeekSession, FindLocked, Touch, coreVars
    <2> QED
      BY <1>0, <2>1, HistoryStays, CollectWhole
  <1>6. CASE ChallengeApproved(r)
    <2>1. mek = Locked
      BY <1>6 DEF Inv, LockInv, CountsOnLocked, ChallengeApproved, At
    <2>2. /\ Owe(r, One("unlock", opened + 1))
          /\ opened' = opened + 1 /\ mek' = opened + 1
      BY <1>6 DEF ChallengeApproved, Install
    <2>3. One("unlock", opened + 1) \in Seq(Event)
      BY <1>0, OneType DEF CoreTypeOK
    <2>4. OneLockPerUnlock'
      BY <1>0, <2>1, <2>2, UnlockTold DEF CoreTypeOK, HistoryInv, Owe
    <2>5. LiveIsLast'
      BY <2>2 DEF LiveIsLast
    <2> QED
      BY <1>0, <2>2, <2>3, <2>4, <2>5, OweWhole
  <1>7. CASE ChallengeRefused(r) \/ DiscloseApproved(r) \/ DiscloseRefused(r)
    <2>1. PICK kind \in {"denied", "approved"} : Owe(r, One(kind, Locked))
      BY <1>7 DEF ChallengeRefused, DiscloseApproved, DiscloseRefused
    <2>2. mek' = mek /\ opened' = opened
      BY <1>7 DEF ChallengeRefused, DiscloseApproved, DiscloseRefused, Deny,
                  coreVars
    <2>3. One(kind, Locked) \in Seq(Event)
      BY OneType DEF Locked
    <2>4. \A i \in 1 .. Len(One(kind, Locked)) : ~IsBoundary(One(kind, Locked)[i])
      BY DEF One, IsBoundary
    <2> QED
      BY <1>0, <2>1, <2>2, <2>3, <2>4, OweOtherWhole
  <1>8. CASE LockSession(r)
    <2>1. Owe(r, EndOfSession) /\ mek' = Locked /\ opened' = opened
      BY <1>8 DEF LockSession, DropNow, DropKey
    <2>2. EndOfSession \in Seq(Event)
      BY <1>0, EndOfSessionType DEF CoreTypeOK
    <2>3. OneLockPerUnlock'
      BY <1>0, <2>1, EndTold DEF CoreTypeOK, HistoryInv, Owe
    <2>4. LiveIsLast'
      BY <2>1 DEF LiveIsLast
    <2> QED
      BY <1>0, <2>1, <2>2, <2>3, <2>4, OweWhole
  <1>9. CASE ReadHistory(r)
    <2>1. Owe(r, Uses(pendingUses)) /\ mek' = mek /\ opened' = opened
      BY <1>9 DEF ReadHistory, coreVars
    <2>2. pendingUses \in Seq(Nat)
      BY <1>0 DEF HistoryTypeOK
    <2> QED
      BY <1>0, <2>1, <2>2, UsesType, UsesAreNoBoundary, OweOtherWhole
  <1>10. CASE Adopt(r) /\ Live
    <2>1. UNCHANGED coreVars /\ UNCHANGED historyVars
      BY <1>10 DEF Adopt
    <2> QED
      BY <2>1, HistoryStays DEF coreVars
  <1>11. CASE Adopt(r) /\ ~Live
    <2> DEFINE evs == One("unlock", opened + 1)
    <2>1. mek = Locked
      BY <1>11 DEF Inv, LockInv, CountsOnLocked, Adopt, At
    <2>2. evs \in Seq(Event)
      BY <1>0, OneType DEF CoreTypeOK
    <2>3. <<>> \o evs = evs
      BY <2>2, ConcatEmptySeq
    <2>4. Ids(<<>>) = {}
      BY <1>0 DEF Ids, HistoryTypeOK
    <2>5. /\ Install /\ Record(<<>> \o evs)
          /\ parked' = parked \cup Ids(<<>>)
          /\ owed' = [owed EXCEPT ![r] = @ \cup (Ids(<<>> \o evs) \ Ids(<<>>))]
          /\ UNCHANGED <<lockOwed, durable>>
      BY <1>11, <2>1 DEF Adopt
    <2> HIDE DEF evs
    <2>6. Owe(r, evs)
      BY <2>3, <2>4, <2>5 DEF Owe
    <2>7. opened' = opened + 1 /\ mek' = opened + 1
      BY <2>5 DEF Install
    <2>8. OneLockPerUnlock'
      BY <1>0, <2>1, <2>6, <2>7, UnlockTold DEF CoreTypeOK, HistoryInv, Owe, evs
    <2>9. LiveIsLast'
      BY <2>7 DEF LiveIsLast
    <2> QED
      BY <1>0, <2>2, <2>6, <2>8, <2>9, OweWhole
  <1> QED
    BY <1>1, <1>2, <1>3, <1>4, <1>5, <1>6, <1>7, <1>8, <1>9, <1>10, <1>11
    DEF Step

LEMMA NextWhole == Inv /\ HistoryInv /\ [Next]_vars => HistoryInv'
  <1> SUFFICES ASSUME Inv, HistoryInv, [Next]_vars PROVE HistoryInv'
    OBVIOUS
  <1>0. HistoryTypeOK /\ CoreTypeOK
    BY DEF Inv, TypeOK, HistoryTypeOK
  <1>1. CASE \E r \in Requests : Ask(r)
    BY <1>1, HistoryStays DEF Ask, coreVars
  <1>2. CASE \E r \in Requests : Step(r)
    BY <1>2, StepWhole
  <1>3. CASE (TimerFires \/ TimerNeutralized)
             /\ UNCHANGED <<requestVars, historyVars>>
    BY <1>3, HistoryStays DEF TimerFires, TimerNeutralized
  <1>4. CASE TimerLocks
    <2>1. mek' = Locked /\ opened' = opened /\ Record(EndOfSession)
      BY <1>4 DEF TimerLocks, DropTimed, DropKey
    <2>2. OneLockPerUnlock'
      BY <1>0, <2>1, EndTold DEF CoreTypeOK, HistoryInv
    <2>3. Conserved'
      BY <1>0, <1>4, TimerLocksConserves DEF CoreTypeOK, HistoryInv
    <2> QED
      BY <2>1, <2>2, <2>3 DEF HistoryInv, LiveIsLast
  <1>5. CASE TimerDelivers
    <2>1. Conserved' /\ UNCHANGED <<mek, opened, events>>
      BY <1>5, TimerDeliversConserves DEF HistoryInv, TimerDelivers, coreVars
    <2> QED
      BY <2>1, RingStays
  <1>6. CASE Clock
    BY <1>6, HistoryStays DEF Clock, Tick
  <1>7. CASE UNCHANGED vars
    BY <1>7, HistoryStays DEF vars, coreVars
  <1> QED
    BY <1>1, <1>2, <1>3, <1>4, <1>5, <1>6, <1>7 DEF Next, TimerStep, Finished

LEMMA InitWhole == Init => HistoryInv
  <1> SUFFICES ASSUME Init PROVE HistoryInv
    OBVIOUS
  <1>1. events = <<>> /\ mek = 0 /\ opened = 0 /\ parked = {} /\ lockOwed = {}
        /\ durable = {} /\ owed = [r \in Requests |-> {}]
    BY DEF Init, CoreInit, Locked
  <1>2. OneLockPerUnlock
    BY <1>1 DEF OneLockPerUnlock, BoundariesDue, Locked
  <1>3. Conserved
    <2>1. Len(events) = 0
      BY <1>1
    <2>2. HeldOnce
      BY <1>1 DEF HeldOnce
    <2>3. \A n \in Nat : ~Kept(n)
      BY <1>1 DEF Kept
    <2> QED
      BY <2>1, <2>2, <2>3 DEF Conserved
  <1> QED
    BY <1>1, <1>2, <1>3 DEF HistoryInv, LiveIsLast, Locked
-----------------------------------------------------------------------------
(* The theorems.                                                           *)

\* Every variable keeps its type.
THEOREM SessionTyped == Spec => []TypeOK
  BY Invariant, PTL DEF Inv

\* However requests, timers and locks interleave, what they do to the session
\* is what SessionCore promises; in particular no live session is replaced
\* (installSessionLocked's precondition holds at both of its callers).
THEOREM SessionImplementsCore == Spec => CoreSpec
  <1>1. Init => CoreInit
    BY DEF Init
  <1> QED
    BY <1>1, Invariant, NextStep, PTL DEF Spec, CoreSpec

\* A resident key is always watched by a timer.
THEOREM SessionKeyIsWatched == Spec => []KeyIsWatched
  BY SessionImplementsCore, CoreKeyIsWatched, PTL

\* A timer ends only a session that is over.
THEOREM SessionTimerEndsOnlyWhatIsOver == Spec => TimerEndsOnlyWhatIsOver
  BY SessionImplementsCore, CoreTimerEndsOnlyWhatIsOver, PTL

\* A disclosed prompt that offers to unlock is never overtaken by another
\* unlock: the vault is locked until its approval opens it (canOfferUnlock).
THEOREM SessionOfferStillTrue == Spec => []OfferStillTrue
  <1>1. Inv => OfferStillTrue
    BY DEF Inv, LockInv, CountsOnLocked, OfferStillTrue
  <1> QED
    BY <1>1, Invariant, PTL

\* History tells every session's end once, and every event it holds is in the
\* durable file or with one goroutine that will write it there, whoever found
\* the session over (collectIfDoneLocked, lockIfGen, notifyPendingLock).
THEOREM SessionHistoryIsWhole == Spec => []HistoryIsWhole
  <1>1. Inv /\ HistoryInv => HistoryIsWhole
    <2> SUFFICES ASSUME Inv, HistoryInv PROVE HistoryIsWhole
      OBVIOUS
    <2>1. UNION Holders = 1 .. Len(events)
      <3>1. /\ Len(events) \in Nat
            /\ parked \in SUBSET Nat /\ lockOwed \in SUBSET Nat
            /\ durable \in SUBSET Nat
            /\ \A r \in Requests : owed[r] \in SUBSET Nat
        BY DEF Inv, TypeOK
      <3>2. \A n \in Nat : Kept(n) <=> n \in 1 .. Len(events)
        BY DEF HistoryInv, Conserved
      <3>3. \A n : n \in UNION Holders <=> n \in Nat /\ Kept(n)
        BY <3>1 DEF Holders, Kept
      <3>4. \A n : n \in 1 .. Len(events) => n \in Nat
        BY <3>1
      <3> QED
        BY <3>2, <3>3, <3>4
    <2> QED
      BY <2>1 DEF HistoryInv, Conserved, HeldOnce, EventsConserved, HistoryIsWhole
  <1> QED
    BY <1>1, Invariant, InitWhole, NextWhole, PTL DEF Spec

\* A key is handed out from the cache only inside both bounds of its session,
\* whether or not the timer has noticed (touchSession, collectIfDoneLocked).
THEOREM SessionHandedOutInsideBounds == Spec => HandedOutInsideBounds
  <1> DEFINE Inside ==
        \A r \in Requests :
          (got'[r] # Locked /\ got[r] = Locked /\ opened' = opened) =>
              /\ got'[r] = mek
              /\ now < expiry
              /\ MaxSessionAge > 0 => now < sessionStart + MaxSessionAge
  <1>1. Inv /\ CoreInv /\ [Next]_vars => [Inside]_vars
    <2> SUFFICES ASSUME Inv, CoreInv, Next, NEW r \in Requests,
                        got'[r] # Locked, got[r] = Locked, opened' = opened
                 PROVE  /\ got'[r] = mek
                        /\ now < expiry
                        /\ MaxSessionAge > 0 => now < sessionStart + MaxSessionAge
      BY DEF vars
    <2>1. got \in [Requests -> Nat] /\ CoreTypeOK
      BY DEF Inv, TypeOK
    <2>2. PICK q \in Requests :
            got'[r] # got[r] /\ (Step(q) \/ Ask(q))
      BY DEF Next, TimerStep, TimerLocks, TimerDelivers, Clock, Finished,
             requestVars, vars
    <2>3. q = r /\ (EnsureTouch(q) \/ ChallengeRetouch(q) \/ DisclosePeek(q))
      <3>1. CASE \/ EnsureTouch(q) \/ ChallengeRetouch(q)
        BY <2>1, <2>2, <3>1 DEF EnsureTouch, ChallengeRetouch, TouchSession
      <3>2. CASE DisclosePeek(q)
        BY <2>1, <2>2, <3>2 DEF DisclosePeek, PeekSession
      <3>3. CASE ChallengeApproved(q)
        BY <2>1, <3>3 DEF ChallengeApproved, Install, CoreTypeOK
      <3>4. CASE DiscloseDeliver(q)
        BY <2>1, <2>2, <3>4 DEF DiscloseDeliver
      <3> QED
        BY <2>2, <3>1, <3>2, <3>3, <3>4
        DEF Step, Ask, EnsureDrain, EnsureUse, ChallengeLock, ChallengeDrain,
            ChallengeUse, ChallengeHitRelease, ChallengePaused, ChallengeAsk,
            ChallengeRefused, ChallengeRelease, Deliver, ClearDiscloseBackoff,
            DiscloseThrottled, DiscloseLock, DiscloseOffer, DiscloseApproved,
            DiscloseRefused, Adopt, AdoptDrain, DiscloseRelease, LockSession,
            LockDeliver, ReadHistory
    <2>4. Live /\ got'[r] = mek
      BY <2>1, <2>2, <2>3
      DEF EnsureTouch, ChallengeRetouch, DisclosePeek, TouchSession,
          PeekSession, Touch
    <2>5. now < expiry
      BY <2>1, <2>4 DEF Live, Over, CoreTypeOK
    <2>6. sessionStart # ZeroTime
      BY <2>4 DEF Live, CoreInv, TimerInv, ZeroTime
    <2> QED
      BY <2>1, <2>4, <2>5, <2>6, MaxSessionAgeAssumption
      DEF Live, Over, Aged, CoreTypeOK
  <1> QED
    BY <1>1, Invariant, SessionImplementsCore, CoreInvariant, PTL
    DEF Spec, HandedOutInsideBounds

\* Where a request forgives the pauses, a human has approved its unlock.
ForgiveInv ==
    \A r \in Requests :
        pc[r] = "forgive" => op[r] = "unlock" /\ answer[r] = "approved"

\* Where an operation begins.
LEMMA AskGoes ==
  ASSUME ControlTypeOK, NEW q \in Requests, Ask(q), NEW r \in Requests
  PROVE  IF q = r
         THEN pc[r] = "idle" /\ pc'[r] \in {"touch", "dqueue", "lock", "history"}
         ELSE pc'[r] = pc[r] /\ op'[r] = op[r]
  <1>1. PICK o \in Ops : op' = [op EXCEPT ![q] = o] /\ Goto(q, Entry(o))
    BY DEF Ask
  <1>2. Entry(o) \in {"touch", "dqueue", "lock", "history"}
    BY OpsAssumption DEF Entry, AllOps, DisclosedOps
  <1> QED
    BY <1>1, <1>2 DEF Ask, At, Goto, ControlTypeOK

LEMMA NextForgives == Inv /\ ForgiveInv /\ [Next]_vars => ForgiveInv'
  <1> SUFFICES ASSUME Inv, ForgiveInv, [Next]_vars, NEW r \in Requests,
                      pc'[r] = "forgive"
               PROVE  op'[r] = "unlock" /\ answer'[r] = "approved"
    BY DEF ForgiveInv
  <1>0. ControlTypeOK
    BY DEF Inv, TypeOK, ControlTypeOK
  <1>1. CASE UNCHANGED requestVars
    BY <1>1 DEF ForgiveInv, requestVars
  <1>2. CASE \E q \in Requests : Ask(q)
    BY <1>0, <1>2, AskGoes DEF Ask, ControlTypeOK, ForgiveInv
  <1>3. ASSUME NEW q \in Requests, Step(q)
        PROVE  op'[r] = "unlock" /\ answer'[r] = "approved"
    <2>1. op' = op
      BY <1>3 DEF Step, EnsureTouch, EnsureDrain, EnsureUse, ChallengeLock,
      ChallengeRetouch, ChallengeDrain, ChallengeUse, ChallengeHitRelease,
      ChallengePaused, ChallengeAsk, ChallengeApproved, ChallengeRefused,
      ChallengeRelease, Deliver, ClearDiscloseBackoff, DiscloseThrottled,
      DiscloseLock, DisclosePeek, DiscloseOffer, DiscloseApproved,
      DiscloseRefused, Adopt, AdoptDrain, DiscloseRelease, DiscloseDeliver,
      LockSession, LockDeliver, ReadHistory
    <2>2. CASE q # r
      <3>1. pc'[r] = pc[r] /\ answer'[r] = answer[r]
        BY <1>0, <1>3, <2>2
        DEF Step, Goto, ControlTypeOK, EnsureTouch, EnsureDrain, EnsureUse,
            ChallengeLock, ChallengeRetouch, ChallengeDrain, ChallengeUse,
            ChallengeHitRelease, ChallengePaused, ChallengeAsk,
            ChallengeApproved, ChallengeRefused, ChallengeRelease, Deliver,
            ClearDiscloseBackoff, DiscloseThrottled, DiscloseLock, DisclosePeek,
            DiscloseOffer, DiscloseApproved, DiscloseRefused, Adopt, AdoptDrain,
            DiscloseRelease, DiscloseDeliver, LockSession, LockDeliver,
            ReadHistory
      <3> QED
        BY <2>1, <3>1 DEF ForgiveInv
    <2>3. CASE q = r
      <3>1. Deliver(r) /\ FreshUnlock(r)
        BY <1>0, <1>3, <2>3
        DEF Step, Goto, ControlTypeOK, EnsureTouch, EnsureDrain, EnsureUse,
            ChallengeLock, ChallengeRetouch, ChallengeDrain, ChallengeUse,
            ChallengeHitRelease, ChallengePaused, ChallengeAsk,
            ChallengeApproved, ChallengeRefused, ChallengeRelease, Deliver,
            ClearDiscloseBackoff, DiscloseThrottled, DiscloseLock, DisclosePeek,
            DiscloseOffer, DiscloseApproved, DiscloseRefused, Adopt, AdoptDrain,
            DiscloseRelease, DiscloseDeliver, LockSession, LockDeliver,
            ReadHistory
      <3> QED
        BY <2>1, <3>1 DEF Deliver, FreshUnlock
    <2> QED
      BY <2>2, <2>3
  <1> QED
    BY <1>1, <1>2, <1>3 DEF Next, TimerStep, TimerLocks, TimerDelivers, Clock,
                            Finished, vars, requestVars

\* After a refused unlock nobody is asked to unlock inside the cooldown, not by
\* a request that queued behind the refused prompt, not folded into a disclosed
\* one; and a pause earned by refusals is lifted by an approved prompt of the
\* same op or by an explicit unlock that asked somebody, by nothing else
\* (challengeUnlock, canOfferUnlock, clearDiscloseBackoff).
THEOREM SessionPausesHold == Spec => PausesHold
  <1> DEFINE NobodyAsked ==
        \A r \in Requests :
          (/\ op[r] # "unlock"
           /\ \/ pc[r] # "prompt" /\ pc'[r] = "prompt"
              \/ pc[r] # "dprompt" /\ pc'[r] = "dprompt" /\ unlocking'[r])
             => ~CoolingDown
  <1> DEFINE Lifted ==
        \A k \in DisclosedOps :
          refusals'[k].count < refusals[k].count =>
              \E r \in Requests :
                 \/ op[r] = k /\ answer'[r] = "approved" /\ pc'[r] # pc[r]
                 \/ op[r] = "unlock" /\ answer[r] = "approved"
  <1>1. Inv /\ [Next]_vars => [NobodyAsked]_vars
    <2> SUFFICES ASSUME Inv, Next, NEW r \in Requests, op[r] # "unlock",
                        \/ pc[r] # "prompt" /\ pc'[r] = "prompt"
                        \/ pc[r] # "dprompt" /\ pc'[r] = "dprompt" /\ unlocking'[r]
                 PROVE  ~CoolingDown
      BY DEF vars
    <2>1. ControlTypeOK /\ LockInv
      BY DEF Inv, TypeOK, ControlTypeOK
    <2>2. PICK q \in Requests : Step(q) \/ Ask(q)
      BY DEF Next, TimerStep, TimerLocks, TimerDelivers, Clock, Finished,
             requestVars, vars
    <2>3. CASE Ask(q)
      BY <2>1, <2>3, AskGoes DEF Ask, ControlTypeOK
    <2>4. CASE Step(q)
      <3>1. \/ ChallengeAsk(r)
            \/ DiscloseLock(r) /\ unlocking'[r]
            \/ DiscloseOffer(r) /\ unlocking'[r]
        BY <2>1, <2>4
        DEF Step, Goto, ControlTypeOK, EnsureTouch, EnsureDrain, EnsureUse,
            ChallengeLock, ChallengeRetouch, ChallengeDrain, ChallengeUse,
            ChallengeHitRelease, ChallengePaused, ChallengeAsk,
            ChallengeApproved, ChallengeRefused, ChallengeRelease, Deliver,
            ClearDiscloseBackoff, DiscloseThrottled, DiscloseLock, DisclosePeek,
            DiscloseOffer, DiscloseApproved, DiscloseRefused, Adopt, AdoptDrain,
            DiscloseRelease, DiscloseDeliver, LockSession, LockDeliver,
            ReadHistory
      <3>2. CASE ChallengeAsk(r)
        BY <3>2 DEF ChallengeAsk, PausedUnlock
      <3>3. CASE DiscloseLock(r) /\ unlocking'[r]
        BY <2>1, <3>3 DEF DiscloseLock, At, LockInv
      <3>4. CASE DiscloseOffer(r) /\ unlocking'[r]
        BY <2>1, <3>4 DEF DiscloseOffer, ControlTypeOK
      <3> QED
        BY <3>1, <3>2, <3>3, <3>4
    <2> QED
      BY <2>2, <2>3, <2>4
  <1>2. Inv /\ ForgiveInv /\ [Next]_vars => [Lifted]_vars
    <2> SUFFICES ASSUME Inv, ForgiveInv, Next, NEW k \in DisclosedOps,
                        refusals'[k].count < refusals[k].count
                 PROVE  \E r \in Requests :
                          \/ op[r] = k /\ answer'[r] = "approved" /\ pc'[r] # pc[r]
                          \/ op[r] = "unlock" /\ answer[r] = "approved"
      BY DEF vars
    <2>1. ControlTypeOK /\ LockInv
      BY DEF Inv, TypeOK, ControlTypeOK
    <2>2. refusals[k] \in Refusal /\ refusals' # refusals
      BY <2>1 DEF ControlTypeOK, Refusal
    <2>3. PICK r \in Requests :
            DiscloseApproved(r) \/ DiscloseRefused(r) \/ ClearDiscloseBackoff(r)
      BY <2>2
      DEF Next, TimerStep, TimerLocks, TimerDelivers, Clock, Finished,
          requestVars, vars, Ask, Step, EnsureTouch, EnsureDrain, EnsureUse,
          ChallengeLock, ChallengeRetouch, ChallengeDrain, ChallengeUse,
          ChallengeHitRelease, ChallengePaused, ChallengeAsk, ChallengeApproved,
          ChallengeRefused, ChallengeRelease, Deliver, DiscloseThrottled,
          DiscloseLock, DisclosePeek, DiscloseOffer, Adopt, AdoptDrain,
          DiscloseRelease, DiscloseDeliver, LockSession, LockDeliver,
          ReadHistory
    <2>4. CASE DiscloseApproved(r)
      <3>1. answer'[r] = "approved" /\ pc[r] = "dprompt" /\ pc'[r] # pc[r]
        BY <2>1, <2>4 DEF DiscloseApproved, At, Goto, ControlTypeOK
      <3>2. op[r] = k
        BY <2>1, <2>4 DEF DiscloseApproved, ControlTypeOK, Refusal
      <3> QED
        BY <3>1, <3>2
    <2>5. CASE DiscloseRefused(r)
      BY <2>1, <2>2, <2>5 DEF DiscloseRefused, ControlTypeOK, Refusal
    <2>6. CASE ClearDiscloseBackoff(r)
      BY <2>6 DEF ClearDiscloseBackoff, At, ForgiveInv
    <2> QED
      BY <2>3, <2>4, <2>5, <2>6
  <1>3. Init => ForgiveInv
    BY DEF Init, ForgiveInv
  <1> QED
    BY <1>1, <1>2, <1>3, Invariant, NextForgives, PTL
    DEF Spec, PausesHold, NoUnlockPromptInCooldown, PausesLiftedByHumans
=============================================================================
