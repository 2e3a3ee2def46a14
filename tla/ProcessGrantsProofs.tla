------------------------ MODULE ProcessGrantsProofs ------------------------
(***************************************************************************)
(* For every set of requests, every ttl and every bound of ProcessGrants:  *)
(* what ended stays ended, and a grant answers only the tree of the        *)
(* process its prompt named.  Both need the same strengthening.  A grant   *)
(* is inserted by one request only, once, so an insertion never meets a    *)
(* grant that ended; and what a serve noted about a candidate before it    *)
(* let go of grantMu, that it exists and whose tree it is, is never        *)
(* changed by what others do meanwhile.                                    *)
(***************************************************************************)
EXTENDS ProcessGrants, FiniteSetTheorems, TLAPS

\* Before a create has inserted its grant.
UnderWay == {"idle", "stamp", "queue", "prompt", "build", "insert"}
Known(id) == grants[id].state # "none"

\* What the record of one request says of the grants.
RecordOk(r) ==
    LET l == local[r]
    IN  /\ l.pc = "idle" => l.op = "none"
        /\ l.pc \in {"stamp", "build", "insert"} => l.op = "create"
        /\ l.pc \in {"read", "verify"} => l.op = "extend"
        /\ (l.op \in {"none", "create"} /\ l.pc \in UnderWay) => ~Known(r)
        /\ l.pc \in {"snapshot", "walk", "take"} => l.op = "serve"
        /\ l.ret \in {"done", "walk", "pruning"}
        /\ l.ret = "walk" => l.op = "serve"
        /\ \A c \in l.checks : Known(c.id)
        /\ l.pc = "take" => Known(l.id) /\ l.tree = grants[l.id].start

GrantInv == TypeOK /\ \A r \in Requests : RecordOk(r)

LEMMA InitGrantInv == Init => GrantInv
  <1> SUFFICES ASSUME Init PROVE GrantInv
    OBVIOUS
  <1>1. TypeOK
    BY GrantNoOneAssumption
    DEF Init, TypeOK, Grant, GrantTimer, Local, Places, Causes
  <1>2. \A r \in Requests : RecordOk(r)
    BY DEF Init, RecordOk, Known, UnderWay
  <1> QED
    BY <1>1, <1>2 DEF GrantInv

-----------------------------------------------------------------------------
(* A step writes its own request's record only.                            *)

UpdatesOnly(r) == \E l \in Local : local' = [local EXCEPT ![r] = l]

LEMMA GotoUpdates ==
  ASSUME TypeOK, NEW r \in Requests, NEW p \in Places, Goto(r, p)
  PROVE  UpdatesOnly(r)
  <1>1. local' = [local EXCEPT ![r] = [local[r] EXCEPT !.pc = p]]
    BY Zenon DEF Goto
  <1>2. [local[r] EXCEPT !.pc = p] \in Local
    BY DEF TypeOK, Local
  <1> QED
    BY <1>1, <1>2, Zenon DEF UpdatesOnly

LEMMA GoEndUpdates ==
  ASSUME TypeOK, NEW r \in Requests, NEW id \in Requests, NEW cause \in Causes,
         NEW ret \in Places, GoEnd(r, id, cause, ret)
  PROVE  UpdatesOnly(r)
  <1> DEFINE l == [local[r] EXCEPT !.pc = "end", !.id = id, !.cause = cause,
                                   !.ret = ret]
  <1>1. local' = [local EXCEPT ![r] = l]
    BY Zenon DEF GoEnd
  <1>2. local[r] \in Local /\ "end" \in Places
    BY DEF TypeOK, Places
  <1>3. l \in Local
    BY <1>2 DEF Local
  <1> QED
    BY <1>1, <1>3, Zenon DEF UpdatesOnly

\* The three answers of ServeTake.
LEMMA TakeSteps ==
  ASSUME TypeOK, NEW r \in Requests, ServeTake(r)
  PROVE  \/ Goto(r, "walk")
         \/ GoEnd(r, local[r].id, "expired", "walk")
         \/ local' = [local EXCEPT ![r].pc = "done", ![r].served = TRUE]
  <1> DEFINE id == local[r].id
             late == local[r].seen > grants[id].expires
             early == local[r].seen <= grants[id].expires
  <1>1. local[r].seen \in Nat /\ grants[id].expires \in Nat
    BY DEF TypeOK, Grant, Local
  <1>2. (late \/ early) /\ ~(late /\ early)
    BY <1>1
  <1>3. CASE ~IsLive(id)
    BY <1>3, Zenon DEF ServeTake
  <1>4. CASE IsLive(id) /\ late /\ ~early
    BY <1>4, Zenon DEF ServeTake
  <1>5. CASE IsLive(id) /\ early /\ ~late
    BY <1>5, Zenon DEF ServeTake
  <1> QED
    BY <1>2, <1>3, <1>4, <1>5

LEMMA StepUpdates ==
  ASSUME TypeOK, NEW r \in Requests, Step(r)
  PROVE  UpdatesOnly(r)
  <1> DEFINE l0 == local[r]
  <1>0. l0 \in Local /\ l0.id \in Requests /\ l0.ret \in Places
        /\ start \in Nat /\ now \in Nat /\ armings \in Nat
        /\ now + GrantTTL \in Nat /\ armings + 1 \in Nat
    BY GrantTTLAssumption DEF TypeOK, Local
  <1>1. CASE CreateStamp(r)
    <2> DEFINE p == IF alive THEN "queue" ELSE "done"
               l == [l0 EXCEPT !.pc = p, !.start = start]
    <2>1. local' = [local EXCEPT ![r] = l]
      BY <1>1, Zenon DEF CreateStamp
    <2>2. l \in Local
      BY <1>0 DEF Local, Places
    <2> QED
      BY <2>1, <2>2, Zenon DEF UpdatesOnly
  <1>2. CASE \/ PromptQueue(r) \/ PromptApproved(r) \/ PromptRefused(r)
             \/ CreateInsert(r) \/ RegisterTimer(r) \/ End(r) \/ EndGone(r)
             \/ RecordEnd(r)
    <2> {"prompt", "build", "extend", "arm", "record", "done"} \subseteq Places
      BY DEF Places
    <2> QED
      BY <1>0, <1>2, GotoUpdates
      DEF PromptQueue, PromptApproved, PromptRefused, CreateInsert,
          RegisterTimer, End, EndGone, RecordEnd
  <1>3. CASE CreateBuild(r)
    <2> DEFINE l == [l0 EXCEPT !.pc = "insert", !.expires = now + GrantTTL]
    <2>1. Goto(r, "done") \/ local' = [local EXCEPT ![r] = l]
      BY <1>3, Zenon DEF CreateBuild
    <2>2. l \in Local /\ "done" \in Places
      BY <1>0 DEF Local, Places
    <2> QED
      BY <2>1, <2>2, GotoUpdates, Zenon DEF UpdatesOnly
  <1>4. CASE ArmExpiry(r)
    <2> DEFINE l == [l0 EXCEPT !.pc = "register", !.timer = armings + 1]
    <2>1. local' = [local EXCEPT ![r] = l]
      BY <1>4, Zenon DEF ArmExpiry
    <2>2. l \in Local
      BY <1>0 DEF Local, Places
    <2> QED
      BY <2>1, <2>2, Zenon DEF UpdatesOnly
  <1>5. CASE ExtendRead(r)
    <2> DEFINE p == IF IsLive(l0.id) THEN "verify" ELSE "done"
               l == [l0 EXCEPT !.pc = p, !.start = grants[l0.id].start]
    <2>1. local' = [local EXCEPT ![r] = l]
      BY <1>5, Zenon DEF ExtendRead
    <2>2. grants[l0.id].start \in Nat
      BY <1>0 DEF TypeOK, Grant
    <2>3. l \in Local
      BY <1>0, <2>2 DEF Local, Places
    <2> QED
      BY <2>1, <2>3, Zenon DEF UpdatesOnly
  <1>6. CASE ExtendVerify(r)
    <2> "queue" \in Places /\ "done" \in Places /\ "exited" \in Causes
      BY DEF Places, Causes
    <2> QED
      BY <1>0, <1>6, GotoUpdates, GoEndUpdates, Zenon DEF ExtendVerify
  <1>7. CASE ExtendSet(r)
    <2> DEFINE l == [l0 EXCEPT !.pc = "arm", !.expires = now + GrantTTL]
    <2>1. Goto(r, "done") \/ local' = [local EXCEPT ![r] = l]
      BY <1>7, Zenon DEF ExtendSet
    <2>2. l \in Local /\ "done" \in Places
      BY <1>0 DEF Local, Places
    <2> QED
      BY <2>1, <2>2, GotoUpdates, Zenon DEF UpdatesOnly
  <1>8. CASE Revoke(r)
    <2> "done" \in Places /\ "revoked" \in Causes
      BY DEF Places, Causes
    <2> QED
      BY <1>0, <1>8, GotoUpdates, GoEndUpdates, Zenon DEF Revoke
  <1>9. CASE ServeSnapshot(r)
    <2> DEFINE p == IF Live = {} THEN "prune" ELSE "walk"
               cs == {[id |-> id, expired |-> FALSE] : id \in Live}
               l == [l0 EXCEPT !.pc = p, !.seen = now, !.checks = cs]
    <2>1. local' = [local EXCEPT ![r] = l]
      BY <1>9, Zenon DEF ServeSnapshot
    <2>2. \A id \in Live :
            [id |-> id, expired |-> FALSE] \in [id : Requests, expired : BOOLEAN]
      BY DEF Live
    <2>3. cs \in SUBSET [id : Requests, expired : BOOLEAN] /\ p \in Places
      BY <2>2, Zenon DEF Places
    <2> HIDE DEF cs, p
    <2>4. l \in Local
      BY <1>0, <2>3 DEF Local
    <2> QED
      BY <2>1, <2>4, Zenon DEF UpdatesOnly, cs, p
  <1>10. CASE ServeWalk(r)
    <2>1. CASE Goto(r, "done")
      BY <2>1, GotoUpdates DEF Places
    <2>2. ASSUME NEW c \in l0.checks,
                 local' = [local EXCEPT
                     ![r].checks = l0.checks \ {c},
                     ![r].id = c.id,
                     ![r].cause = IF SameRoot(c.id) THEN "none" ELSE "exited",
                     ![r].ret = "walk",
                     ![r].pc = CASE ~SameRoot(c.id) -> "end"
                                 [] SameRoot(c.id) ->
                                      IF alive /\ l0.tree = start
                                      THEN "take" ELSE "walk"]
          PROVE  UpdatesOnly(r)
      <3> DEFINE why == IF SameRoot(c.id) THEN "none" ELSE "exited"
                 p == CASE ~SameRoot(c.id) -> "end"
                        [] SameRoot(c.id) -> IF alive /\ l0.tree = start
                                             THEN "take" ELSE "walk"
                 l == [l0 EXCEPT !.checks = l0.checks \ {c}, !.id = c.id,
                                 !.cause = why, !.ret = "walk", !.pc = p]
      <3>1. local' = [local EXCEPT ![r] = l]
        BY <2>2, Zenon
      <3>2. why \in Causes /\ p \in Places /\ c.id \in Requests
        BY <1>0 DEF Causes, Places, Local
      <3> HIDE DEF why, p
      <3>3. l \in Local
        BY <3>2, <1>0 DEF Local, Places
      <3> QED
        BY <3>1, <3>3, Zenon DEF UpdatesOnly
    <2> QED
      BY <2>1, <2>2, <1>10, Zenon DEF ServeWalk
  <1>11. CASE ServeTake(r)
    <2> DEFINE l == [l0 EXCEPT !.pc = "done", !.served = TRUE]
    <2>1. \/ Goto(r, "walk")
          \/ GoEnd(r, l0.id, "expired", "walk")
          \/ local' = [local EXCEPT ![r].pc = "done", ![r].served = TRUE]
      BY <1>11, TakeSteps
    <2>2. local' = [local EXCEPT ![r].pc = "done", ![r].served = TRUE]
            => local' = [local EXCEPT ![r] = l]
      BY Zenon
    <2>3. l \in Local /\ "walk" \in Places /\ "expired" \in Causes
      BY <1>0 DEF Local, Places, Causes
    <2> QED
      BY <1>0, <2>1, <2>2, <2>3, GotoUpdates, GoEndUpdates, Zenon
      DEF UpdatesOnly
  <1>12. CASE PruneSnapshot(r)
    <2> DEFINE cs == {[id |-> id, expired |-> now > grants[id].expires]
                         : id \in Live}
               l == [l0 EXCEPT !.pc = "pruning", !.checks = cs]
    <2>1. local' = [local EXCEPT ![r] = l]
      BY <1>12, Zenon DEF PruneSnapshot
    <2>2. \A id \in Live :
            [id |-> id, expired |-> now > grants[id].expires]
              \in [id : Requests, expired : BOOLEAN]
      BY DEF Live
    <2>3. cs \in SUBSET [id : Requests, expired : BOOLEAN]
      BY <2>2, Zenon
    <2> HIDE DEF cs
    <2>4. l \in Local
      BY <1>0, <2>3 DEF Local, Places
    <2> QED
      BY <2>1, <2>4, Zenon DEF UpdatesOnly, cs
  <1>13. CASE Prune(r)
    <2>1. CASE Goto(r, "done")
      BY <2>1, GotoUpdates DEF Places
    <2>2. ASSUME NEW c \in l0.checks,
                 local' = [local EXCEPT
                     ![r].checks = @ \ {c},
                     ![r].id = c.id,
                     ![r].cause = IF c.expired THEN "expired" ELSE "exited",
                     ![r].ret = "pruning",
                     ![r].pc = IF c.expired \/ ~SameRoot(c.id) THEN "end"
                               ELSE "pruning"]
          PROVE  UpdatesOnly(r)
      <3> DEFINE why == IF c.expired THEN "expired" ELSE "exited"
                 p == IF c.expired \/ ~SameRoot(c.id) THEN "end" ELSE "pruning"
                 l == [l0 EXCEPT !.checks = @ \ {c}, !.id = c.id,
                                 !.cause = why, !.ret = "pruning", !.pc = p]
      <3>1. local' = [local EXCEPT ![r] = l]
        BY <2>2, Zenon
      <3>2. why \in Causes /\ p \in Places /\ c.id \in Requests
        BY <1>0 DEF Causes, Places, Local
      <3> HIDE DEF why, p
      <3>3. l \in Local
        BY <3>2, <1>0 DEF Local, Places
      <3> QED
        BY <3>1, <3>3, Zenon DEF UpdatesOnly
    <2> QED
      BY <2>1, <2>2, <1>13, Zenon DEF Prune
  <1> QED
    BY <1>1, <1>2, <1>3, <1>4, <1>5, <1>6, <1>7, <1>8, <1>9, <1>10, <1>11,
       <1>12, <1>13 DEF Step

-----------------------------------------------------------------------------
(* What a step does to the grants.                                         *)

Ends(id) == IsLive(id) /\ grants' = [grants EXCEPT ![id].state = "ended"]
Extends(id) ==
    \E e \in Nat : IsLive(id) /\ grants' = [grants EXCEPT ![id].expires = e]

LEMMA GrantSteps ==
  ASSUME TypeOK, [Next]_vars
  PROVE  \/ UNCHANGED grants
         \/ \E r \in Requests : CreateInsert(r)
         \/ \E id \in Requests : Ends(id) \/ Extends(id)
  <1>1. ASSUME NEW r \in Requests, Step(r)
        PROVE  \/ UNCHANGED grants \/ CreateInsert(r)
               \/ \E id \in Requests : Ends(id) \/ Extends(id)
    <2>0. local[r].id \in Requests /\ now + GrantTTL \in Nat
      BY GrantTTLAssumption DEF TypeOK, Local
    <2>1. CASE End(r)
      BY <2>0, <2>1, Zenon DEF End, EndLive, Ends
    <2>2. CASE ExtendSet(r)
      BY <2>0, <2>2, Zenon DEF ExtendSet, Extends
    <2>3. CASE \/ CreateStamp(r) \/ PromptQueue(r) \/ PromptApproved(r)
               \/ PromptRefused(r) \/ CreateBuild(r) \/ ArmExpiry(r)
               \/ RegisterTimer(r) \/ EndGone(r) \/ RecordEnd(r)
      BY <2>3, Zenon
      DEF CreateStamp, PromptQueue, PromptApproved, PromptRefused,
          CreateBuild, ArmExpiry, RegisterTimer, EndGone, RecordEnd
    <2>4. CASE \/ ExtendRead(r) \/ ExtendVerify(r) \/ Revoke(r)
               \/ ServeSnapshot(r) \/ ServeWalk(r) \/ ServeTake(r)
               \/ PruneSnapshot(r) \/ Prune(r)
      BY <2>4, Zenon
      DEF ExtendRead, ExtendVerify, Revoke, ServeSnapshot, ServeWalk,
          ServeTake, PruneSnapshot, Prune
    <2> QED
      BY <1>1, <2>1, <2>2, <2>3, <2>4, Zenon DEF Step
  <1>2. CASE TimerStep
    <2>1. CASE TimerEnds
      BY <2>1 DEF TimerEnds, EndLive, Ends, TypeOK
    <2> QED
      BY <1>2, <2>1, Zenon
      DEF TimerStep, TimerFires, TimerDecides, TimerRecords
  <1>3. CASE \/ (\E r \in Requests : Ask(r)) \/ RootExits \/ PidRecycled
             \/ Clock \/ Finished \/ UNCHANGED vars
    BY <1>3, Zenon DEF Ask, RootExits, PidRecycled, Clock, Finished, vars
  <1> QED
    BY <1>1, <1>2, <1>3, Zenon DEF Next

\* An ended grant is never live again, and no grant changes its root.
Keeps(id) ==
    /\ grants[id].state = "ended" => grants'[id].state = "ended"
    /\ Known(id) => Known(id)' /\ grants'[id].start = grants[id].start

LEMMA GrantsKept ==
  ASSUME GrantInv, [Next]_vars, NEW id \in Requests
  PROVE  Keeps(id)
  <1> USE DEF GrantInv, TypeOK, Grant
  <1>1. CASE UNCHANGED grants
    BY <1>1 DEF Keeps, Known
  <1>2. ASSUME NEW r \in Requests, CreateInsert(r) PROVE Keeps(id)
    <2>1. grants[r].state = "none"
      BY <1>2 DEF CreateInsert, At, RecordOk, UnderWay, Known
    <2> QED
      BY <1>2, <2>1 DEF CreateInsert, Keeps, Known
  <1>3. ASSUME NEW e \in Requests, Ends(e) PROVE Keeps(id)
    BY <1>3 DEF Ends, IsLive, Keeps, Known
  <1>4. ASSUME NEW e \in Requests, Extends(e) PROVE Keeps(id)
    BY <1>4 DEF Extends, Keeps, Known
  <1> QED
    BY <1>1, <1>2, <1>3, <1>4, GrantSteps

\* A grant not yet inserted is inserted by its own create only.
LEMMA NotInsertedByOthers ==
  ASSUME GrantInv, [Next]_vars, NEW q \in Requests, ~Known(q), Known(q)'
  PROVE  CreateInsert(q)
  <1> USE DEF GrantInv, TypeOK, Grant
  <1>1. ASSUME NEW r \in Requests, CreateInsert(r) PROVE r = q
    BY <1>1 DEF CreateInsert, Known
  <1>2. ASSUME NEW e \in Requests, Ends(e) \/ Extends(e) PROVE FALSE
    BY <1>2 DEF Ends, Extends, IsLive, Known
  <1> QED
    BY <1>1, <1>2, GrantSteps DEF Known

-----------------------------------------------------------------------------
(* Types.                                                                  *)

LEMMA NextTyped ==
  ASSUME TypeOK, [Next]_vars
  PROVE  TypeOK'
  <1> USE DEF TypeOK
  <1>1. ASSUME NEW r \in Requests, Step(r) PROVE TypeOK'
    <2>0. local' \in [Requests -> Local]
      BY <1>1, StepUpdates DEF UpdatesOnly
    <2>1. local[r].id \in Requests /\ local[r].expires \in Nat
          /\ local[r].timer \in Nat /\ local[r].start \in Nat
      BY DEF Local
    <2>2. CASE PromptQueue(r) \/ PromptApproved(r) \/ PromptRefused(r)
      BY <2>0, <2>2
      DEF PromptQueue, PromptApproved, PromptRefused, processVars, timerVars
    <2>3. CASE CreateInsert(r)
      <3>1. grants' \in [Requests -> Grant]
        BY <2>1, <2>3 DEF CreateInsert, Grant
      <3> QED
        BY <2>0, <2>3, <3>1 DEF CreateInsert, processVars, timerVars
    <2>4. CASE ArmExpiry(r)
      <3>1. [n |-> armings + 1, id |-> local[r].id,
             due |-> local[r].expires + 1] \in GrantTimer
        BY <2>1 DEF GrantTimer
      <3> QED
        BY <2>0, <2>4, <3>1 DEF ArmExpiry, processVars
    <2>5. CASE RegisterTimer(r)
      BY <2>0, <2>1, <2>5 DEF RegisterTimer, processVars
    <2>6. CASE End(r)
      <3>1. grants' \in [Requests -> Grant]
        BY <2>1, <2>6 DEF End, EndLive, Grant
      <3> QED
        BY <2>0, <2>1, <2>6, <3>1 DEF End, EndLive, processVars
    <2>7. CASE RecordEnd(r)
      BY <2>0, <2>1, <2>7 DEF RecordEnd, processVars, timerVars
    <2>8. CASE ExtendSet(r)
      <3>1. grants' \in [Requests -> Grant]
        <4>1. now + GrantTTL \in Nat
          BY GrantTTLAssumption
        <4>2. \/ UNCHANGED grants
              \/ grants' = [grants EXCEPT ![local[r].id].expires = now + GrantTTL]
          BY <2>8, Zenon DEF ExtendSet
        <4>3. CASE UNCHANGED grants
          BY <2>1, <4>3
        <4>4. CASE grants' = [grants EXCEPT ![local[r].id].expires = now + GrantTTL]
          <5> DEFINE t == now + GrantTTL
          <5>1. t \in Nat /\ grants' = [grants EXCEPT ![local[r].id].expires = t]
            BY <4>1, <4>4
          <5> HIDE DEF t
          <5>2. \A g \in Grant : [g EXCEPT !.expires = t] \in Grant
            BY <5>1 DEF Grant
          <5> QED
            BY <2>1, <5>1, <5>2
        <4> QED
          BY <4>2, <4>3, <4>4
      <3>2. crossed' \subseteq Requests
        BY <2>1, <2>8 DEF ExtendSet
      <3> QED
        BY <2>0, <2>8, <3>1, <3>2 DEF ExtendSet, processVars, timerVars
    <2>9. CASE \/ CreateStamp(r) \/ CreateBuild(r) \/ EndGone(r)
               \/ ExtendRead(r) \/ ExtendVerify(r) \/ Revoke(r)
               \/ ServeSnapshot(r) \/ ServeWalk(r) \/ ServeTake(r)
               \/ PruneSnapshot(r) \/ Prune(r)
      <3>1. UNCHANGED <<now, processVars, grants, timerVars, challenger, ends,
                      crossed>>
        BY <2>9, Zenon
        DEF CreateStamp, CreateBuild, EndGone, ExtendRead, ExtendVerify,
            Revoke, ServeSnapshot, ServeWalk, ServeTake, PruneSnapshot, Prune
      <3> QED
        BY <2>0, <3>1 DEF processVars, timerVars
    <2> QED
      BY <1>1, <2>2, <2>3, <2>4, <2>5, <2>6, <2>7, <2>8, <2>9, Zenon DEF Step
  <1>2. CASE TimerFires
    BY <1>2 DEF TimerFires, processVars
  <1>3. CASE TimerDecides
    BY <1>3 DEF TimerDecides, GrantTimer, processVars
  <1>4. CASE TimerEnds
    <2>1. grants' \in [Requests -> Grant]
      BY <1>4 DEF TimerEnds, EndLive, Grant
    <2> QED
      BY <1>4, <2>1 DEF TimerEnds, EndLive, processVars
  <1>5. CASE TimerRecords
    BY <1>5 DEF TimerRecords, processVars
  <1>6. ASSUME NEW r \in Requests, Ask(r) PROVE TypeOK'
    <2>1. PICK o \in OpsOf[r], tree \in {0, start}, id \in Requests :
             local' = [local EXCEPT ![r].pc = Entry(o), ![r].op = o,
                                    ![r].id = id, ![r].tree = tree]
      BY <1>6, Zenon DEF Ask
    <2> DEFINE l == [local[r] EXCEPT !.pc = Entry(o), !.op = o,
                                     !.id = id, !.tree = tree]
    <2>2. local' = [local EXCEPT ![r] = l]
      BY <2>1, Zenon
    <2>3. o \in {"create", "extend", "revoke", "serve", "list"}
      BY GrantOpsAssumption
    <2>4. Entry(o) \in Places
      BY <2>3 DEF Entry, Places
    <2>5. local[r] \in Local /\ tree \in Nat
      OBVIOUS
    <2>6. l \in Local
      BY <2>3, <2>4, <2>5 DEF Local
    <2>7. local' \in [Requests -> Local]
      BY <2>2, <2>6
    <2> QED
      BY <1>6, <2>7 DEF Ask, processVars, timerVars
  <1>7. CASE Clock
    BY <1>7 DEF Clock, processVars, timerVars
  <1>8. CASE RootExits \/ PidRecycled
    <2>1. alive' \in BOOLEAN
      BY <1>8, Zenon DEF RootExits, PidRecycled
    <2>2. start' \in Nat
      BY <1>8 DEF RootExits, PidRecycled
    <2> QED
      BY <1>8, <2>1, <2>2, Zenon DEF RootExits, PidRecycled, timerVars
  <1>9. CASE Finished \/ UNCHANGED vars
    BY <1>9 DEF Finished, vars, processVars, timerVars
  <1> QED
    BY <1>1, <1>2, <1>3, <1>4, <1>5, <1>6, <1>7, <1>8, <1>9, Zenon
    DEF Next, TimerStep

-----------------------------------------------------------------------------
(* The records.                                                            *)

\* What others do leaves a request's record true.
LEMMA RecordKept ==
  ASSUME GrantInv, TypeOK', [Next]_vars, NEW q \in Requests,
         local'[q] = local[q]
  PROVE  RecordOk(q)'
  <1>1. local[q] \in Local /\ RecordOk(q)
    BY DEF GrantInv, TypeOK
  <1>2. local[q].id \in Requests /\ \A c \in local[q].checks : c.id \in Requests
    BY <1>1 DEF Local
  <1>3. \A id \in Requests : Keeps(id)
    BY GrantsKept
  <1>4. ~CreateInsert(q)
    BY <1>1 DEF CreateInsert, Goto, At, GrantInv, TypeOK, Local
  <1>5. ~Known(q) => ~Known(q)'
    BY <1>4, NotInsertedByOthers
  <1> QED
    BY <1>1, <1>2, <1>3, <1>5 DEF RecordOk, Keeps, Known

\* What a step does to its own record.
LEMMA OwnRecord ==
  ASSUME GrantInv, TypeOK', [Next]_vars, NEW r \in Requests, Step(r)
  PROVE  RecordOk(r)'
  <1>0. local \in [Requests -> Local] /\ local[r] \in Local /\ RecordOk(r)
    BY DEF GrantInv, TypeOK
  <1>1. local[r].id \in Requests
        /\ \A c \in local[r].checks : c.id \in Requests
    BY <1>0 DEF Local
  <1>2. \A id \in Requests : Keeps(id)
    BY GrantsKept
  <1>3. \A id \in Requests : Known(id) => Known(id)'
    BY <1>2 DEF Keeps
  <1>4. ~Known(r) /\ Known(r)' => CreateInsert(r)
    BY NotInsertedByOthers
  <1> USE DEF RecordOk, At, Goto, GoEnd, UnderWay
  <1>5. CASE \/ CreateStamp(r) \/ PromptQueue(r) \/ PromptApproved(r)
             \/ PromptRefused(r) \/ CreateBuild(r)
    BY <1>0, <1>5 DEF CreateStamp, PromptQueue, PromptApproved, PromptRefused,
                      CreateBuild, Local, Known
  <1>6. CASE CreateInsert(r) \/ ArmExpiry(r) \/ RegisterTimer(r)
    BY <1>0, <1>1, <1>3, <1>6 DEF CreateInsert, ArmExpiry, RegisterTimer, Local
  <1>7. CASE End(r) \/ EndGone(r) \/ RecordEnd(r)
    BY <1>0, <1>1, <1>3, <1>7 DEF End, EndGone, RecordEnd, Local
  <1>8. CASE ExtendRead(r)
    BY <1>0, <1>3, <1>8 DEF ExtendRead, Local
  <1>9. CASE ExtendVerify(r) \/ Revoke(r)
    <2>1. \/ local[r].op = "extend" /\ Goto(r, "queue")
          \/ Goto(r, "done")
          \/ \E cause \in {"exited", "revoked"} :
                GoEnd(r, local[r].id, cause, "done")
      BY <1>0, <1>9 DEF ExtendVerify, Revoke
    <2> QED
      BY <1>0, <1>1, <1>3, <2>1 DEF Local
  <1>10. CASE ExtendSet(r)
    BY <1>0, <1>3, <1>10 DEF ExtendSet, Local
  <1>11. CASE ServeSnapshot(r)
    <2> DEFINE cs == {[id |-> id, expired |-> FALSE] : id \in Live}
    <2>1. \A c \in cs : Known(c.id)
      BY DEF Live, IsLive, Known
    <2>2. \A c \in cs : c.id \in Requests
      BY DEF Live
    <2> HIDE DEF cs
    <2>3. local' = [local EXCEPT ![r] =
              [local[r] EXCEPT !.pc = IF Live = {} THEN "prune" ELSE "walk",
                               !.seen = now, !.checks = cs]]
      BY <1>11, Zenon DEF ServeSnapshot, cs
    <2>4. \A c \in cs : Known(c.id)'
      BY <1>3, <2>1, <2>2
    <2>5. /\ local'[r].pc \in {"prune", "walk"} /\ local'[r].checks = cs
          /\ local'[r].op = local[r].op /\ local'[r].ret = local[r].ret
      BY <1>0, <2>3 DEF Local
    <2>6. local[r].op = "serve"
      BY <1>0, <1>11 DEF ServeSnapshot
    <2> QED
      BY <1>0, <2>4, <2>5, <2>6
  <1>12. CASE ServeWalk(r)
    <2>0. UNCHANGED grants
      BY <1>12 DEF ServeWalk
    <2>1. CASE Goto(r, "done")
      BY <1>0, <1>1, <1>3, <2>1 DEF Local
    <2>2. ASSUME NEW c \in local[r].checks,
                 local' = [local EXCEPT
                     ![r].checks = local[r].checks \ {c},
                     ![r].id = c.id,
                     ![r].cause = IF SameRoot(c.id) THEN "none" ELSE "exited",
                     ![r].ret = "walk",
                     ![r].pc = CASE ~SameRoot(c.id) -> "end"
                                 [] SameRoot(c.id) ->
                                      IF alive /\ local[r].tree = start
                                      THEN "take" ELSE "walk"]
          PROVE  RecordOk(r)'
      <3> DEFINE p == CASE ~SameRoot(c.id) -> "end"
                        [] SameRoot(c.id) -> IF alive /\ local[r].tree = start
                                             THEN "take" ELSE "walk"
      <3>1. p \in {"end", "take", "walk"}
            /\ (p = "take" => local[r].tree = grants[c.id].start)
        BY DEF SameRoot
      <3> HIDE DEF p
      <3>2. /\ local'[r].pc = p /\ local'[r].ret = "walk"
            /\ local'[r].id = c.id /\ local'[r].op = local[r].op
            /\ local'[r].tree = local[r].tree
            /\ local'[r].checks \subseteq local[r].checks
        BY <1>0, <2>2 DEF Local, p
      <3>3. Known(c.id) /\ local[r].op = "serve"
        BY <1>0, <1>12 DEF ServeWalk
      <3> QED
        BY <1>0, <2>0, <3>1, <3>2, <3>3 DEF Known
    <2> QED
      BY <1>12, <2>1, <2>2, Zenon DEF ServeWalk
  <1>13. CASE ServeTake(r)
    <2>0. UNCHANGED grants /\ local[r].op = "serve"
      BY <1>0, <1>13 DEF ServeTake
    <2>1. \/ Goto(r, "walk")
          \/ GoEnd(r, local[r].id, "expired", "walk")
          \/ local' = [local EXCEPT ![r].pc = "done", ![r].served = TRUE]
      BY <1>13, TakeSteps DEF GrantInv
    <2> QED
      BY <1>0, <2>0, <2>1 DEF Known, Local
  <1>14. CASE PruneSnapshot(r)
    BY <1>0, <1>3, <1>14 DEF PruneSnapshot, Live, IsLive, Known, Local
  <1>15. CASE Prune(r)
    <2>0. UNCHANGED grants
      BY <1>15 DEF Prune
    <2>1. CASE Goto(r, "done")
      BY <1>0, <1>1, <1>3, <2>1 DEF Local
    <2>2. ASSUME NEW c \in local[r].checks,
                 local' = [local EXCEPT
                     ![r].checks = @ \ {c},
                     ![r].id = c.id,
                     ![r].cause = IF c.expired THEN "expired" ELSE "exited",
                     ![r].ret = "pruning",
                     ![r].pc = IF c.expired \/ ~SameRoot(c.id) THEN "end"
                               ELSE "pruning"]
          PROVE  RecordOk(r)'
      <3>1. /\ local'[r].pc \in {"end", "pruning"}
            /\ local'[r].ret = "pruning"
            /\ local'[r].checks \subseteq local[r].checks
        BY <1>0, <2>2 DEF Local
      <3> QED
        BY <1>0, <2>0, <3>1 DEF Known
    <2> QED
      BY <1>15, <2>1, <2>2, Zenon DEF Prune
  <1> QED
    BY <1>5, <1>6, <1>7, <1>8, <1>9, <1>10, <1>11, <1>12, <1>13, <1>14, <1>15,
       Zenon DEF Step

LEMMA AskedRecord ==
  ASSUME GrantInv, TypeOK', NEW r \in Requests, Ask(r)
  PROVE  RecordOk(r)' /\ \A q \in Requests \ {r} : local'[q] = local[q]
  <1>0. local \in [Requests -> Local] /\ local[r] \in Local /\ RecordOk(r)
        /\ UNCHANGED grants
    BY DEF GrantInv, TypeOK, Ask
  <1>1. PICK o \in OpsOf[r], tree \in {0, start}, id \in Requests :
           local' = [local EXCEPT ![r].pc = Entry(o), ![r].op = o,
                                  ![r].id = id, ![r].tree = tree]
    BY Zenon DEF Ask
  <1>2. o \in {"create", "extend", "revoke", "serve", "list"}
    BY GrantOpsAssumption
  <1>3. /\ Entry(o) \in {"stamp", "read", "revoke", "snapshot", "prune"}
        /\ Entry(o) = "stamp" <=> o = "create"
        /\ Entry(o) = "read" <=> o = "extend"
        /\ Entry(o) = "snapshot" <=> o = "serve"
    BY <1>2 DEF Entry
  <1>4. /\ local'[r].pc = Entry(o) /\ local'[r].op = o
        /\ local'[r].ret = local[r].ret /\ local'[r].checks = local[r].checks
    BY <1>0, <1>1 DEF Local
  <1>5. local[r].op = "none" /\ ~Known(r)
    BY <1>0 DEF Ask, At, RecordOk, UnderWay
  <1>6. RecordOk(r)'
    BY <1>0, <1>2, <1>3, <1>4, <1>5 DEF RecordOk, Known, UnderWay
  <1>7. \A q \in Requests \ {r} : local'[q] = local[q]
    BY <1>0, <1>1
  <1> QED
    BY <1>6, <1>7

LEMMA NextGrantInv == GrantInv /\ [Next]_vars => GrantInv'
  <1> SUFFICES ASSUME GrantInv, [Next]_vars PROVE GrantInv'
    OBVIOUS
  <1>1. TypeOK'
    BY NextTyped DEF GrantInv
  <1>2. ASSUME NEW r \in Requests, Step(r)
        PROVE  \A q \in Requests : RecordOk(q)'
    <2>1. \A q \in Requests \ {r} : local'[q] = local[q]
      BY <1>2, StepUpdates DEF UpdatesOnly, GrantInv, TypeOK
    <2> QED
      BY <1>1, <1>2, <2>1, OwnRecord, RecordKept
  <1>3. ASSUME NEW r \in Requests, Ask(r)
        PROVE  \A q \in Requests : RecordOk(q)'
    BY <1>1, <1>3, AskedRecord, RecordKept
  <1>4. CASE \/ TimerStep \/ RootExits \/ PidRecycled \/ Clock \/ Finished
             \/ UNCHANGED vars
    <2>1. UNCHANGED local
      BY <1>4, Zenon
      DEF TimerStep, TimerFires, TimerDecides, TimerEnds, TimerRecords,
          RootExits, PidRecycled, Clock, Finished, vars
    <2> QED
      BY <1>1, <2>1, RecordKept DEF GrantInv
  <1> QED
    BY <1>1, <1>2, <1>3, <1>4, Zenon DEF Next, GrantInv

LEMMA GrantInvAlways == Spec => []GrantInv
  BY InitGrantInv, NextGrantInv, PTL DEF Spec

-----------------------------------------------------------------------------
(* Who serves.                                                             *)

LEMMA SnapshotsDoNotServe ==
  ASSUME TypeOK, NEW r \in Requests, ServeSnapshot(r) \/ PruneSnapshot(r)
  PROVE  local'[r].served = local[r].served
  <1>0. local \in [Requests -> Local] /\ local[r] \in Local
    BY DEF TypeOK
  <1>1. CASE ServeSnapshot(r)
    <2> DEFINE p == IF Live = {} THEN "prune" ELSE "walk"
               cs == {[id |-> id, expired |-> FALSE] : id \in Live}
    <2>1. local' = [local EXCEPT ![r] =
                      [local[r] EXCEPT !.pc = p, !.seen = now, !.checks = cs]]
      BY <1>1, Zenon DEF ServeSnapshot
    <2> HIDE DEF p, cs
    <2> QED
      BY <1>0, <2>1 DEF Local
  <1>2. CASE PruneSnapshot(r)
    <2> DEFINE cs == {[id |-> id, expired |-> now > grants[id].expires]
                         : id \in Live}
    <2>1. local' = [local EXCEPT ![r] =
                      [local[r] EXCEPT !.pc = "pruning", !.checks = cs]]
      BY <1>2, Zenon DEF PruneSnapshot
    <2> HIDE DEF cs
    <2> QED
      BY <1>0, <2>1 DEF Local
  <1> QED
    BY <1>1, <1>2

LEMMA WalksDoNotServe ==
  ASSUME TypeOK, NEW r \in Requests, ServeWalk(r) \/ Prune(r)
  PROVE  local'[r].served = local[r].served
  <1>0. local \in [Requests -> Local] /\ local[r] \in Local
    BY DEF TypeOK
  <1>1. ASSUME Goto(r, "done") PROVE local'[r].served = local[r].served
    BY <1>0, <1>1 DEF Goto, Local
  <1>2. ASSUME NEW c \in local[r].checks,
               local' = [local EXCEPT
                   ![r].checks = local[r].checks \ {c},
                   ![r].id = c.id,
                   ![r].cause = IF SameRoot(c.id) THEN "none" ELSE "exited",
                   ![r].ret = "walk",
                   ![r].pc = CASE ~SameRoot(c.id) -> "end"
                               [] SameRoot(c.id) ->
                                    IF alive /\ local[r].tree = start
                                    THEN "take" ELSE "walk"]
        PROVE  local'[r].served = local[r].served
    BY <1>0, <1>2 DEF Local
  <1>3. ASSUME NEW c \in local[r].checks,
               local' = [local EXCEPT
                   ![r].checks = @ \ {c},
                   ![r].id = c.id,
                   ![r].cause = IF c.expired THEN "expired" ELSE "exited",
                   ![r].ret = "pruning",
                   ![r].pc = IF c.expired \/ ~SameRoot(c.id) THEN "end"
                             ELSE "pruning"]
        PROVE  local'[r].served = local[r].served
    BY <1>0, <1>3 DEF Local
  <1>4. CASE ServeWalk(r)
    BY <1>1, <1>2, <1>4, Zenon DEF ServeWalk
  <1>5. CASE Prune(r)
    BY <1>1, <1>3, <1>5, Zenon DEF Prune
  <1> QED
    BY <1>4, <1>5

LEMMA ServesOnlyInTake ==
  ASSUME GrantInv, Next, NEW r \in Requests,
         ~local[r].served, local'[r].served
  PROVE  ServeTake(r)
  <1>0. local \in [Requests -> Local] /\ local[r] \in Local
    BY DEF GrantInv, TypeOK
  <1>1. ASSUME NEW q \in Requests, Step(q) PROVE q = r
    BY <1>0, <1>1, StepUpdates DEF UpdatesOnly, GrantInv
  <1>2. ASSUME Ask(r) PROVE FALSE
    BY <1>0, <1>2 DEF Ask, Local
  <1>3. ASSUME NEW q \in Requests, Ask(q) PROVE q = r
    BY <1>0, <1>3 DEF Ask
  <1>4. ASSUME \/ TimerStep \/ RootExits \/ PidRecycled \/ Clock \/ Finished
        PROVE  FALSE
    BY <1>4, Zenon
    DEF TimerStep, TimerFires, TimerDecides, TimerEnds, TimerRecords,
        RootExits, PidRecycled, Clock, Finished, vars
  <1>5. Step(r)
    BY <1>1, <1>2, <1>3, <1>4 DEF Next
  <1> USE <1>0 DEF Goto, GoEnd, Local
  <1>6. CASE \/ CreateStamp(r) \/ PromptQueue(r) \/ PromptApproved(r)
             \/ PromptRefused(r) \/ CreateBuild(r) \/ CreateInsert(r)
             \/ ArmExpiry(r) \/ RegisterTimer(r)
    BY <1>6 DEF CreateStamp, PromptQueue, PromptApproved, PromptRefused,
                CreateBuild, CreateInsert, ArmExpiry, RegisterTimer
  <1>7. CASE \/ End(r) \/ EndGone(r) \/ RecordEnd(r) \/ ExtendRead(r)
             \/ ExtendVerify(r) \/ ExtendSet(r) \/ Revoke(r)
    BY <1>7 DEF End, EndGone, RecordEnd, ExtendRead, ExtendVerify, ExtendSet,
                Revoke
  <1>8. CASE ServeSnapshot(r) \/ PruneSnapshot(r)
    BY <1>8, SnapshotsDoNotServe DEF GrantInv
  <1>9. CASE ServeWalk(r) \/ Prune(r)
    BY <1>9, WalksDoNotServe DEF GrantInv
  <1> QED
    BY <1>5, <1>6, <1>7, <1>8, <1>9, Zenon DEF Step

LEMMA TakeServes ==
  ASSUME GrantInv, NEW r \in Requests, ServeTake(r),
         ~local[r].served, local'[r].served
  PROVE  IsLive(local[r].id) /\ local[r].tree = grants[local[r].id].start
  <1>0. local \in [Requests -> Local] /\ local[r] \in Local /\ RecordOk(r)
    BY DEF GrantInv, TypeOK
  <1>1. local[r].tree = grants[local[r].id].start
    BY <1>0 DEF ServeTake, At, RecordOk
  <1>2. ASSUME ~IsLive(local[r].id) PROVE FALSE
    <2>1. Goto(r, "walk")
      BY <1>2, Zenon DEF ServeTake
    <2> QED
      BY <1>0, <2>1 DEF Goto, Local
  <1> QED
    BY <1>1, <1>2

-----------------------------------------------------------------------------
(* Whose end is told.                                                      *)

\* Between what endGrantBy does under grantMu and the event it records.
Recording(id) == {r \in Requests : At(r, "record") /\ local[r].id = id}

\* An ended grant was told of, or exactly one, request or timer, is about to.
ToldOnce(id) ==
    \/ /\ grants[id].state # "ended"
       /\ ends[id] = 0 /\ Recording(id) = {} /\ id \notin timerRecords
    \/ /\ grants[id].state = "ended"
       /\ ends[id] = 1 /\ Recording(id) = {} /\ id \notin timerRecords
    \/ /\ grants[id].state = "ended" /\ ends[id] = 0 /\ id \notin timerRecords
       /\ \E r \in Requests : Recording(id) = {r}
    \/ /\ grants[id].state = "ended"
       /\ ends[id] = 0 /\ Recording(id) = {} /\ id \in timerRecords

TellInv == GrantInv /\ \A id \in Requests : ToldOnce(id)

LEMMA InitTells == Init => TellInv
  <1> SUFFICES ASSUME Init PROVE \A id \in Requests : ToldOnce(id)
    BY InitGrantInv DEF TellInv
  <1> QED
    BY DEF Init, ToldOnce, Recording, At

\* Nobody else's record is written by a step, and only End leads to "record".
LEMMA OthersKept ==
  ASSUME TypeOK, NEW r \in Requests, Step(r) \/ Ask(r)
  PROVE  \A q \in Requests \ {r} : local'[q] = local[q]
  <1>1. CASE Step(r)
    BY <1>1, StepUpdates DEF UpdatesOnly, TypeOK
  <1>2. CASE Ask(r)
    BY <1>2 DEF Ask, TypeOK
  <1> QED
    BY <1>1, <1>2

\* The steps that write more than their request's record.
Writes(r) ==
    \/ CreateInsert(r) \/ ArmExpiry(r) \/ RegisterTimer(r) \/ End(r)
    \/ RecordEnd(r) \/ ExtendSet(r)

\* The others leave grants and timers alone, and pass none of the places where
\* something is owed to a grant; an "end" they leave has nothing to end.
LEMMA OthersOweNothing ==
  ASSUME GrantInv, NEW r \in Requests, Step(r), ~Writes(r)
  PROVE  /\ UNCHANGED <<now, grants, timerVars, ends, crossed>>
         /\ local[r].pc \notin {"arm", "register", "record", "idle"}
         /\ local'[r].pc \notin {"arm", "register", "record", "idle"}
         /\ local[r].pc = "end" => ~IsLive(local[r].id)
  <1> DEFINE Owes == {"arm", "register", "record", "idle"}
  <1>0. local \in [Requests -> Local] /\ local[r] \in Local
        /\ local[r].ret \in {"done", "walk", "pruning"}
    BY DEF GrantInv, TypeOK, RecordOk
  <1> USE DEF At, Goto, GoEnd
  <1>1. CASE \/ CreateStamp(r) \/ PromptQueue(r) \/ PromptApproved(r)
             \/ PromptRefused(r)
    BY <1>0, <1>1 DEF CreateStamp, PromptQueue, PromptApproved, PromptRefused,
                      Local
  <1>2. CASE CreateBuild(r) \/ EndGone(r) \/ ExtendRead(r)
    BY <1>0, <1>2 DEF CreateBuild, EndGone, ExtendRead, Local
  <1>3. CASE ExtendVerify(r) \/ Revoke(r)
    <2>1. /\ UNCHANGED <<now, grants, timerVars, ends, crossed>>
          /\ local[r].pc \in {"verify", "revoke"}
      BY <1>3, Zenon DEF ExtendVerify, Revoke
    <2>2. \/ Goto(r, "queue") \/ Goto(r, "done")
          \/ \E cause \in {"exited", "revoked"} :
                GoEnd(r, local[r].id, cause, "done")
      BY <1>3 DEF ExtendVerify, Revoke
    <2> QED
      BY <1>0, <2>1, <2>2 DEF Local
  <1>4. CASE ServeSnapshot(r)
    <2> DEFINE p == IF Live = {} THEN "prune" ELSE "walk"
               cs == {[id |-> id, expired |-> FALSE] : id \in Live}
    <2>1. local' = [local EXCEPT ![r] =
                      [local[r] EXCEPT !.pc = p, !.seen = now, !.checks = cs]]
      BY <1>4, Zenon DEF ServeSnapshot
    <2>2. p \in {"prune", "walk"}
      OBVIOUS
    <2> HIDE DEF p, cs
    <2>3. local'[r].pc = p
      BY <1>0, <2>1 DEF Local
    <2>4. UNCHANGED <<now, grants, timerVars, ends, crossed>> /\ At(r, "snapshot")
      BY <1>4, Zenon DEF ServeSnapshot
    <2> QED
      BY <2>2, <2>3, <2>4
  <1>5. CASE PruneSnapshot(r)
    <2> DEFINE cs == {[id |-> id, expired |-> now > grants[id].expires]
                         : id \in Live}
    <2>1. local' = [local EXCEPT ![r] =
                      [local[r] EXCEPT !.pc = "pruning", !.checks = cs]]
      BY <1>5, Zenon DEF PruneSnapshot
    <2> HIDE DEF cs
    <2>2. local'[r].pc = "pruning"
      BY <1>0, <2>1 DEF Local
    <2>3. UNCHANGED <<now, grants, timerVars, ends, crossed>> /\ At(r, "prune")
      BY <1>5, Zenon DEF PruneSnapshot
    <2> QED
      BY <2>2, <2>3
  <1>6. CASE ServeWalk(r)
    <2>1. UNCHANGED <<now, grants, timerVars, ends, crossed>> /\ At(r, "walk")
      BY <1>6, Zenon DEF ServeWalk
    <2>2. ASSUME NEW c \in local[r].checks,
                 local' = [local EXCEPT
                     ![r].checks = local[r].checks \ {c},
                     ![r].id = c.id,
                     ![r].cause = IF SameRoot(c.id) THEN "none" ELSE "exited",
                     ![r].ret = "walk",
                     ![r].pc = CASE ~SameRoot(c.id) -> "end"
                                 [] SameRoot(c.id) ->
                                      IF alive /\ local[r].tree = start
                                      THEN "take" ELSE "walk"]
          PROVE  local'[r].pc \in {"end", "take", "walk"}
      BY <1>0, <2>2 DEF Local
    <2>3. Goto(r, "done") \/ local'[r].pc \in {"end", "take", "walk"}
      BY <1>6, <2>2, Zenon DEF ServeWalk
    <2> QED
      BY <1>0, <2>1, <2>3 DEF Local
  <1>7. CASE ServeTake(r)
    <2>1. UNCHANGED <<now, grants, timerVars, ends, crossed>> /\ At(r, "take")
      BY <1>7, Zenon DEF ServeTake
    <2>2. \/ Goto(r, "walk")
          \/ GoEnd(r, local[r].id, "expired", "walk")
          \/ local' = [local EXCEPT ![r].pc = "done", ![r].served = TRUE]
      BY <1>7, TakeSteps DEF GrantInv
    <2> QED
      BY <1>0, <2>1, <2>2 DEF Local
  <1>8. CASE Prune(r)
    <2>1. UNCHANGED <<now, grants, timerVars, ends, crossed>> /\ At(r, "pruning")
      BY <1>8, Zenon DEF Prune
    <2>2. ASSUME NEW c \in local[r].checks,
                 local' = [local EXCEPT
                     ![r].checks = @ \ {c},
                     ![r].id = c.id,
                     ![r].cause = IF c.expired THEN "expired" ELSE "exited",
                     ![r].ret = "pruning",
                     ![r].pc = IF c.expired \/ ~SameRoot(c.id) THEN "end"
                               ELSE "pruning"]
          PROVE  local'[r].pc \in {"end", "pruning"}
      BY <1>0, <2>2 DEF Local
    <2>3. Goto(r, "done") \/ local'[r].pc \in {"end", "pruning"}
      BY <1>8, <2>2, Zenon DEF Prune
    <2> QED
      BY <1>0, <2>1, <2>3 DEF Local
  <1> QED
    BY <1>1, <1>2, <1>3, <1>4, <1>5, <1>6, <1>7, <1>8, Zenon DEF Step, Writes

LEMMA RecordingKept ==
  ASSUME NEW r \in Requests, \A q \in Requests \ {r} : local'[q] = local[q],
         local[r].pc # "record", local'[r].pc # "record", NEW id \in Requests
  PROVE  Recording(id)' = Recording(id)
  BY DEF Recording, At

LEMMA TellsKept ==
  ASSUME NEW id \in Requests, ToldOnce(id), Recording(id)' = Recording(id),
         ends'[id] = ends[id], timerRecords' = timerRecords,
         grants'[id].state = "ended" <=> grants[id].state = "ended"
  PROVE  ToldOnce(id)'
  BY DEF ToldOnce

LEMMA StepTells ==
  ASSUME TellInv, NEW r \in Requests, Step(r), NEW id \in Requests
  PROVE  ToldOnce(id)'
  <1>0. /\ GrantInv /\ TypeOK /\ RecordOk(r) /\ ToldOnce(id)
        /\ local \in [Requests -> Local] /\ local[r] \in Local
        /\ grants \in [Requests -> Grant] /\ ends \in [Requests -> Nat]
    BY DEF TellInv, GrantInv, TypeOK
  <1>1. \A q \in Requests \ {r} : local'[q] = local[q]
    BY <1>0, OthersKept
  <1>2. CASE ~Writes(r)
    <2>1. /\ UNCHANGED <<grants, timerRecords, ends>>
          /\ local[r].pc # "record" /\ local'[r].pc # "record"
      BY <1>0, <1>2, OthersOweNothing DEF timerVars
    <2> QED
      BY <1>0, <1>1, <2>1, RecordingKept, TellsKept
  <1>3. CASE CreateInsert(r)
    <2>1. local[r].pc # "record" /\ local'[r].pc # "record"
          /\ UNCHANGED <<ends, timerRecords>> /\ ~Known(r)
      BY <1>0, <1>3 DEF CreateInsert, At, Goto, Local, timerVars, RecordOk,
                        UnderWay
    <2>2. grants'[id].state = "ended" <=> grants[id].state = "ended"
      BY <1>0, <1>3, <2>1 DEF CreateInsert, Known
    <2> QED
      BY <1>0, <1>1, <2>1, <2>2, RecordingKept, TellsKept
  <1>4. CASE ArmExpiry(r) \/ RegisterTimer(r)
    <2>1. local[r].pc # "record" /\ local'[r].pc # "record"
          /\ UNCHANGED <<ends, timerRecords, grants>>
      BY <1>0, <1>4 DEF ArmExpiry, RegisterTimer, At, Goto, Local
    <2> QED
      BY <1>0, <1>1, <2>1, RecordingKept, TellsKept
  <1>5. CASE ExtendSet(r)
    <2>1. local[r].pc # "record" /\ local'[r].pc # "record"
          /\ UNCHANGED <<ends, timerRecords>>
      BY <1>0, <1>5 DEF ExtendSet, At, Goto, Local, timerVars
    <2>2. \/ UNCHANGED grants
          \/ grants' = [grants EXCEPT ![local[r].id].expires = now + GrantTTL]
      BY <1>5, Zenon DEF ExtendSet
    <2>3. grants'[id].state = grants[id].state
      BY <1>0, <2>2 DEF Grant
    <2> QED
      BY <1>0, <1>1, <2>1, <2>3, RecordingKept, TellsKept
  <1>6. CASE End(r)
    <2> DEFINE e == local[r].id
    <2>0. e \in Requests
      BY <1>0 DEF Local
    <2>1. /\ local[r].pc # "record" /\ local'[r].pc = "record"
          /\ local'[r].id = e /\ UNCHANGED <<ends, timerRecords>>
          /\ grants[e].state = "live"
          /\ grants' = [grants EXCEPT ![e].state = "ended"]
      BY <1>0, <1>6 DEF End, EndLive, IsLive, At, Goto, Local
    <2>2. CASE id = e
      <3>1. Recording(id) = {} /\ ends[id] = 0 /\ id \notin timerRecords
        BY <1>0, <2>1, <2>2 DEF ToldOnce
      <3>2. Recording(id)' = {r}
        BY <1>1, <2>1, <2>2, <3>1 DEF Recording, At
      <3>3. grants'[id].state = "ended"
        BY <1>0, <2>0, <2>1, <2>2 DEF Grant
      <3> QED
        BY <2>1, <3>1, <3>2, <3>3 DEF ToldOnce
    <2>3. CASE id # e
      <3>1. Recording(id)' = Recording(id)
        BY <1>1, <2>1, <2>3 DEF Recording, At
      <3>2. grants'[id].state = grants[id].state
        BY <1>0, <2>0, <2>1, <2>3 DEF Grant
      <3> QED
        BY <1>0, <2>1, <3>1, <3>2, TellsKept
    <2> QED
      BY <2>2, <2>3
  <1>7. CASE RecordEnd(r)
    <2> DEFINE e == local[r].id
    <2>0. e \in Requests
      BY <1>0 DEF Local
    <2>1. /\ local[r].pc = "record" /\ local'[r].pc # "record"
          /\ UNCHANGED <<grants, timerRecords>>
          /\ ends' = [ends EXCEPT ![e] = @ + 1]
      BY <1>0, <1>7 DEF RecordEnd, At, Goto, Local, RecordOk, timerVars
    <2>2. CASE id = e
      <3>1. r \in Recording(id)
        BY <2>1, <2>2 DEF Recording, At
      <3>2. /\ grants[id].state = "ended" /\ ends[id] = 0
            /\ id \notin timerRecords /\ Recording(id) = {r}
        BY <1>0, <3>1 DEF ToldOnce
      <3>3. Recording(id)' = {}
        BY <1>1, <2>1, <3>2 DEF Recording, At
      <3>4. ends'[id] = 1
        BY <1>0, <2>1, <2>2, <3>2
      <3> QED
        BY <2>1, <3>2, <3>3, <3>4 DEF ToldOnce
    <2>3. CASE id # e
      <3>1. Recording(id)' = Recording(id)
        BY <1>1, <2>1, <2>3 DEF Recording, At
      <3>2. ends'[id] = ends[id]
        BY <1>0, <2>0, <2>1, <2>3
      <3> QED
        BY <1>0, <2>1, <3>1, <3>2, TellsKept
    <2> QED
      BY <2>2, <2>3
  <1> QED
    BY <1>2, <1>3, <1>4, <1>5, <1>6, <1>7 DEF Writes

LEMMA NextTells == TellInv /\ [Next]_vars => TellInv'
  <1> SUFFICES ASSUME TellInv, [Next]_vars, NEW id \in Requests
               PROVE  ToldOnce(id)'
    BY NextGrantInv DEF TellInv
  <1>0. /\ GrantInv /\ TypeOK /\ ToldOnce(id)
        /\ local \in [Requests -> Local]
        /\ grants \in [Requests -> Grant] /\ ends \in [Requests -> Nat]
        /\ timerRecords \subseteq Requests /\ expiring \subseteq Requests
    BY DEF TellInv, GrantInv, TypeOK
  <1>1. ASSUME NEW r \in Requests, Step(r) PROVE ToldOnce(id)'
    BY <1>1, StepTells
  <1>2. ASSUME NEW r \in Requests, Ask(r) PROVE ToldOnce(id)'
    <2>1. \A q \in Requests \ {r} : local'[q] = local[q]
      BY <1>0, <1>2, OthersKept
    <2>2. UNCHANGED <<grants, timerRecords, ends>> /\ local[r].pc = "idle"
      BY <1>2, Zenon DEF Ask, At, timerVars
    <2>3. PICK o \in OpsOf[r], tree \in {0, start}, e \in Requests :
             local' = [local EXCEPT ![r].pc = Entry(o), ![r].op = o,
                                    ![r].id = e, ![r].tree = tree]
      BY <1>2, Zenon DEF Ask
    <2>4. o \in {"create", "extend", "revoke", "serve", "list"}
      BY GrantOpsAssumption
    <2>5. local'[r].pc = Entry(o) /\ Entry(o) # "record"
      BY <1>0, <2>3, <2>4 DEF Entry, Local
    <2> QED
      BY <1>0, <2>1, <2>2, <2>5, RecordingKept, TellsKept
  <1>3. CASE TimerFires \/ TimerDecides \/ RootExits \/ PidRecycled \/ Clock
             \/ Finished \/ UNCHANGED vars
    <2>1. UNCHANGED <<grants, timerRecords, ends, local>>
      BY <1>3, Zenon DEF TimerFires, TimerDecides, RootExits, PidRecycled,
                         Clock, Finished, vars, timerVars
    <2>2. Recording(id)' = Recording(id)
      BY <2>1 DEF Recording, At
    <2> QED
      BY <1>0, <2>1, <2>2, TellsKept
  <1>4. CASE TimerEnds
    <2>0. UNCHANGED <<local, ends>>
      BY <1>4 DEF TimerEnds
    <2>1. Recording(id)' = Recording(id)
      BY <2>0 DEF Recording, At
    <2>2. PICK e \in expiring :
             \/ EndLive(e) /\ timerRecords' = timerRecords \cup {e}
             \/ UNCHANGED <<grants, timerRecords>>
      BY <1>4, Zenon DEF TimerEnds
    <2>3. CASE UNCHANGED <<grants, timerRecords>>
      BY <1>0, <2>0, <2>1, <2>3, TellsKept
    <2>4. CASE EndLive(e) /\ timerRecords' = timerRecords \cup {e}
      <3>1. grants[e].state = "live" /\ grants'[e].state = "ended"
            /\ (id # e => grants'[id].state = grants[id].state)
        BY <1>0, <2>2, <2>4 DEF EndLive, IsLive, Grant
      <3>2. CASE id = e
        BY <1>0, <2>0, <2>1, <2>4, <3>1, <3>2 DEF ToldOnce
      <3>3. CASE id # e
        <4>1. id \in timerRecords' <=> id \in timerRecords
          BY <2>4, <3>3
        <4> QED
          BY <1>0, <2>0, <2>1, <3>1, <3>3, <4>1 DEF ToldOnce
      <3> QED
        BY <3>2, <3>3
    <2> QED
      BY <2>2, <2>3, <2>4
  <1>5. CASE TimerRecords
    <2>0. UNCHANGED <<local, grants>>
      BY <1>5 DEF TimerRecords
    <2>1. Recording(id)' = Recording(id)
      BY <2>0 DEF Recording, At
    <2>2. PICK e \in timerRecords : /\ timerRecords' = timerRecords \ {e}
                                    /\ ends' = [ends EXCEPT ![e] = @ + 1]
      BY <1>5, Zenon DEF TimerRecords
    <2>3. CASE id = e
      <3>1. ends[id] = 0 /\ ends'[id] = 1 /\ id \notin timerRecords'
        BY <1>0, <2>2, <2>3 DEF ToldOnce
      <3> QED
        BY <1>0, <2>0, <2>1, <2>2, <2>3, <3>1 DEF ToldOnce
    <2>4. CASE id # e
      <3>1. ends'[id] = ends[id]
            /\ (id \in timerRecords' <=> id \in timerRecords)
        BY <1>0, <2>2, <2>4
      <3> QED
        BY <1>0, <2>0, <2>1, <3>1 DEF ToldOnce
    <2> QED
      BY <2>3, <2>4
  <1> QED
    BY <1>1, <1>2, <1>3, <1>4, <1>5, Zenon DEF Next, TimerStep

-----------------------------------------------------------------------------
(* Who times a grant.                                                      *)

\* What a request's place says of what it was asked.
Errand(r) ==
    LET l == local[r]
    IN  /\ l.op \in OpsOf[r] \cup {"none"}
        /\ l.op = "none" => l.pc = "idle"
        /\ l.pc \in {"queue", "prompt", "arm", "register"}
             => l.op \in {"create", "extend"}
        /\ l.pc = "extend" => l.op = "extend"
        /\ l.pc \in {"prune", "pruning"} => l.op \in {"serve", "list"}
        /\ l.ret = "pruning" => l.op \in {"serve", "list"}
        /\ l.op = "create" => l.id = r

\* What is extended was inserted before.
ExtendsAKnown(r) == local[r].op = "extend" => Known(local[r].id)

\* Each timer has a number of its own; a handle names a timer of its grant.
TimersNumbered ==
    /\ \A t \in armed \cup fired : t.n <= armings
    /\ \A id \in Requests : \A n \in handle[id] : n <= armings
    /\ \A id \in Requests, t \in armed \cup fired :
          t.n \in handle[id] => t.id = id

\* What a request that just armed a timer is about to register ...
ArmedItsOwn(r) ==
    At(r, "register") =>
        /\ local[r].timer <= armings
        /\ \A t \in armed \cup fired :
              t.n = local[r].timer => t.id = local[r].id

\* ... and what it arms for, unless extensions crossed ...
ArmsForDeadline(r) ==
    At(r, "arm") /\ IsLive(local[r].id) /\ local[r].id \notin crossed
        => local[r].expires = grants[local[r].id].expires

\* ... when it is the only one to arm.
OneArms(id) ==
    \A r, q \in Requests :
        (/\ local[r].id = id /\ local[r].pc \in {"arm", "register"}
         /\ local[q].id = id /\ local[q].pc \in {"arm", "register"}) => r = q

\* A timer stays armed for the deadline when whoever registers now stops the
\* one registered before; or it went off late enough; or somebody arms or ends.
Registering(id) == \E r \in Requests : At(r, "register") /\ local[r].id = id
WatchedOn(id) ==
    \/ \E t \in armed : /\ t.id = id /\ t.due = grants[id].expires + 1
                        /\ Registering(id) => t.n \notin handle[id]
    \/ \E t \in fired : t.id = id /\ now > grants[id].expires
    \/ id \in expiring
    \/ \E r \in Requests : local[r].id = id /\ (At(r, "arm") \/ At(r, "end"))

ErrandInv == GrantInv /\ \A r \in Requests : Errand(r) /\ ExtendsAKnown(r)
TimersWatch ==
    /\ TimersNumbered
    /\ \A r \in Requests : ArmedItsOwn(r) /\ ArmsForDeadline(r)
    /\ \A id \in Requests : id \notin crossed => OneArms(id)
    /\ \A id \in Requests : IsLive(id) /\ id \notin crossed => WatchedOn(id)
WatchInv == ErrandInv /\ TimersWatch

LEMMA InitWatch == Init => WatchInv
  <1> SUFFICES ASSUME Init PROVE WatchInv
    OBVIOUS
  <1>1. GrantInv
    BY InitGrantInv
  <1>2. \A r \in Requests : Errand(r) /\ ExtendsAKnown(r)
    BY DEF Init, Errand, ExtendsAKnown
  <1>3. TimersNumbered
    BY DEF Init, TimersNumbered
  <1>4. \A r \in Requests : ArmedItsOwn(r) /\ ArmsForDeadline(r)
    BY DEF Init, ArmedItsOwn, ArmsForDeadline, At
  <1>5. \A id \in Requests : ~IsLive(id) /\ OneArms(id)
    BY DEF Init, IsLive, OneArms
  <1> QED
    BY <1>1, <1>2, <1>3, <1>4, <1>5 DEF WatchInv, TimersWatch, ErrandInv

\* A step leaves the errand as it was, and the grant in hand of a create or an
\* extension; nobody moves again once answered.
LEMMA OwnErrand ==
  ASSUME GrantInv, NEW r \in Requests, Errand(r), Step(r)
  PROVE  /\ Errand(r)'
         /\ local'[r].op = local[r].op
         /\ local[r].op \in {"create", "extend"} => local'[r].id = local[r].id
         /\ local[r].pc # "done"
  <1>0. /\ local \in [Requests -> Local] /\ local[r] \in Local
        /\ local[r].ret \in {"done", "walk", "pruning"} /\ RecordOk(r)
    BY DEF GrantInv, TypeOK, RecordOk
  <1> USE DEF At, Goto, GoEnd
  <1>1. CASE \/ CreateStamp(r) \/ PromptQueue(r) \/ PromptApproved(r)
             \/ PromptRefused(r) \/ CreateBuild(r)
    BY <1>0, <1>1 DEF CreateStamp, PromptQueue, PromptApproved, PromptRefused,
                      CreateBuild, Local, Errand, RecordOk
  <1>2. CASE CreateInsert(r) \/ ArmExpiry(r) \/ RegisterTimer(r)
    BY <1>0, <1>2 DEF CreateInsert, ArmExpiry, RegisterTimer, Local, Errand,
                      RecordOk
  <1>3. CASE End(r) \/ EndGone(r) \/ RecordEnd(r) \/ ExtendRead(r)
    BY <1>0, <1>3 DEF End, EndGone, RecordEnd, ExtendRead, Local, Errand,
                      RecordOk
  <1>4. CASE ExtendVerify(r) \/ Revoke(r)
    <2>1. /\ local[r].pc \in {"verify", "revoke"}
          /\ \/ local[r].op = "extend" /\ Goto(r, "queue")
             \/ Goto(r, "done")
             \/ \E cause \in {"exited", "revoked"} :
                   GoEnd(r, local[r].id, cause, "done")
      BY <1>0, <1>4 DEF ExtendVerify, Revoke, RecordOk
    <2> QED
      BY <1>0, <2>1 DEF Local, Errand
  <1>5. CASE ExtendSet(r)
    BY <1>0, <1>5 DEF ExtendSet, Local, Errand
  <1>6. CASE ServeSnapshot(r)
    <2> DEFINE p == IF Live = {} THEN "prune" ELSE "walk"
               cs == {[id |-> id, expired |-> FALSE] : id \in Live}
    <2>1. local' = [local EXCEPT ![r] =
                      [local[r] EXCEPT !.pc = p, !.seen = now, !.checks = cs]]
      BY <1>6, Zenon DEF ServeSnapshot
    <2>2. p \in {"prune", "walk"} /\ local[r].pc = "snapshot"
          /\ local[r].op = "serve"
      BY <1>0, <1>6 DEF ServeSnapshot, RecordOk
    <2> HIDE DEF p, cs
    <2>3. /\ local'[r].pc = p /\ local'[r].op = local[r].op
          /\ local'[r].ret = local[r].ret /\ local'[r].id = local[r].id
      BY <1>0, <2>1 DEF Local
    <2> QED
      BY <2>2, <2>3 DEF Errand
  <1>7. CASE PruneSnapshot(r)
    <2> DEFINE cs == {[id |-> id, expired |-> now > grants[id].expires]
                         : id \in Live}
    <2>1. local' = [local EXCEPT ![r] =
                      [local[r] EXCEPT !.pc = "pruning", !.checks = cs]]
      BY <1>7, Zenon DEF PruneSnapshot
    <2>2. local[r].pc = "prune"
      BY <1>7 DEF PruneSnapshot
    <2> HIDE DEF cs
    <2>3. /\ local'[r].pc = "pruning" /\ local'[r].op = local[r].op
          /\ local'[r].ret = local[r].ret /\ local'[r].id = local[r].id
      BY <1>0, <2>1 DEF Local
    <2> QED
      BY <2>2, <2>3 DEF Errand
  <1>8. CASE ServeWalk(r)
    <2>1. local[r].pc = "walk" /\ local[r].op = "serve"
      BY <1>0, <1>8 DEF ServeWalk, RecordOk
    <2>2. ASSUME NEW c \in local[r].checks,
                 local' = [local EXCEPT
                     ![r].checks = local[r].checks \ {c},
                     ![r].id = c.id,
                     ![r].cause = IF SameRoot(c.id) THEN "none" ELSE "exited",
                     ![r].ret = "walk",
                     ![r].pc = CASE ~SameRoot(c.id) -> "end"
                                 [] SameRoot(c.id) ->
                                      IF alive /\ local[r].tree = start
                                      THEN "take" ELSE "walk"]
          PROVE  /\ local'[r].pc \in {"end", "take", "walk"}
                 /\ local'[r].op = local[r].op /\ local'[r].ret = "walk"
      BY <1>0, <2>2 DEF Local
    <2>3. Goto(r, "done") \/ /\ local'[r].pc \in {"end", "take", "walk"}
                             /\ local'[r].op = local[r].op
                             /\ local'[r].ret = "walk"
      BY <1>8, <2>2, Zenon DEF ServeWalk
    <2> QED
      BY <1>0, <2>1, <2>3 DEF Local, Errand
  <1>9. CASE ServeTake(r)
    <2>1. local[r].pc = "take" /\ local[r].op = "serve"
      BY <1>0, <1>9 DEF ServeTake, RecordOk
    <2>2. \/ Goto(r, "walk")
          \/ GoEnd(r, local[r].id, "expired", "walk")
          \/ local' = [local EXCEPT ![r].pc = "done", ![r].served = TRUE]
      BY <1>9, TakeSteps DEF GrantInv
    <2> QED
      BY <1>0, <2>1, <2>2 DEF Local, Errand
  <1>10. CASE Prune(r)
    <2>1. local[r].pc = "pruning" /\ local[r].op \in {"serve", "list"}
      BY <1>10 DEF Prune, Errand
    <2>2. ASSUME NEW c \in local[r].checks,
                 local' = [local EXCEPT
                     ![r].checks = @ \ {c},
                     ![r].id = c.id,
                     ![r].cause = IF c.expired THEN "expired" ELSE "exited",
                     ![r].ret = "pruning",
                     ![r].pc = IF c.expired \/ ~SameRoot(c.id) THEN "end"
                               ELSE "pruning"]
          PROVE  /\ local'[r].pc \in {"end", "pruning"}
                 /\ local'[r].op = local[r].op
      BY <1>0, <2>2 DEF Local
    <2>3. Goto(r, "done") \/ /\ local'[r].pc \in {"end", "pruning"}
                             /\ local'[r].op = local[r].op
      BY <1>10, <2>2, Zenon DEF Prune
    <2> QED
      BY <1>0, <2>1, <2>3 DEF Local, Errand
  <1> QED
    BY <1>1, <1>2, <1>3, <1>4, <1>5, <1>6, <1>7, <1>8, <1>9, <1>10, Zenon
    DEF Step

LEMMA AskedErrand ==
  ASSUME ErrandInv, NEW r \in Requests, Ask(r)
  PROVE  /\ Errand(r)' /\ ExtendsAKnown(r)'
         /\ local[r].pc = "idle"
         /\ local'[r].pc \in {"stamp", "read", "revoke", "snapshot", "prune"}
  <1>0. local \in [Requests -> Local] /\ local[r] \in Local /\ RecordOk(r)
        /\ Errand(r) /\ local[r].pc = "idle" /\ local[r].op = "none"
    BY DEF ErrandInv, GrantInv, TypeOK, Ask, At, RecordOk
  <1>1. PICK o \in OpsOf[r], tree \in {0, start}, id \in Requests :
           /\ IF o \in {"extend", "revoke"}
              THEN grants[id].state # "none" ELSE id = r
           /\ local' = [local EXCEPT ![r].pc = Entry(o), ![r].op = o,
                                     ![r].id = id, ![r].tree = tree]
    BY Zenon DEF Ask
  <1>2. o \in {"create", "extend", "revoke", "serve", "list"}
    BY GrantOpsAssumption
  <1>3. /\ Entry(o) \in {"stamp", "read", "revoke", "snapshot", "prune"}
        /\ Entry(o) = "prune" => o = "list"
    BY <1>2 DEF Entry
  <1>4. /\ local'[r].pc = Entry(o) /\ local'[r].op = o
        /\ local'[r].ret = local[r].ret /\ local'[r].id = id
    BY <1>0, <1>1 DEF Local
  <1>5. local[r].ret # "pruning"
    BY <1>0 DEF Errand
  <1>6. Errand(r)'
    BY <1>1, <1>2, <1>3, <1>4, <1>5 DEF Errand
  <1>7. o = "extend" => Known(id)'
    BY <1>1 DEF Ask, Known
  <1> QED
    BY <1>0, <1>3, <1>4, <1>6, <1>7 DEF ExtendsAKnown, Known

LEMMA NextErrands == ErrandInv /\ [Next]_vars => ErrandInv'
  <1> SUFFICES ASSUME ErrandInv, [Next]_vars, NEW q \in Requests
               PROVE  Errand(q)' /\ ExtendsAKnown(q)'
    BY NextGrantInv DEF ErrandInv
  <1>0. /\ GrantInv /\ TypeOK /\ Errand(q) /\ ExtendsAKnown(q)
        /\ local \in [Requests -> Local] /\ local[q] \in Local
        /\ local[q].id \in Requests
    BY DEF ErrandInv, GrantInv, TypeOK, Local
  <1>k. \A id \in Requests : Known(id) => Known(id)'
    BY <1>0, GrantsKept DEF Keeps
  <1>1. ASSUME NEW r \in Requests, Step(r)
        PROVE  Errand(q)' /\ ExtendsAKnown(q)'
    <2>1. /\ Errand(r)' /\ local'[r].op = local[r].op /\ local[r].pc # "done"
          /\ local[r].op \in {"create", "extend"} => local'[r].id = local[r].id
      BY <1>1, OwnErrand DEF ErrandInv
    <2>2. \A p \in Requests \ {r} : local'[p] = local[p]
      BY <1>0, <1>1, OthersKept
    <2>3. Errand(q)'
      BY <1>0, <2>1, <2>2 DEF Errand
    <2>4. /\ local'[q].op = local[q].op
          /\ local[q].op = "extend" => local'[q].id = local[q].id
      BY <2>1, <2>2
    <2> QED
      BY <1>0, <1>k, <2>3, <2>4 DEF ExtendsAKnown, Known
  <1>2. ASSUME NEW r \in Requests, Ask(r)
        PROVE  Errand(q)' /\ ExtendsAKnown(q)'
    <2>1. /\ Errand(r)' /\ ExtendsAKnown(r)' /\ local[r].pc = "idle"
      BY <1>2, AskedErrand
    <2>2. \A p \in Requests \ {r} : local'[p] = local[p]
      BY <1>0, <1>2, OthersKept
    <2> QED
      BY <1>0, <1>k, <2>1, <2>2 DEF ExtendsAKnown, Known, Errand
  <1>3. CASE \/ TimerStep \/ RootExits \/ PidRecycled \/ Clock \/ Finished
             \/ UNCHANGED vars
    <2>1. UNCHANGED local
      BY <1>3, Zenon
      DEF TimerStep, TimerFires, TimerDecides, TimerEnds, TimerRecords,
          RootExits, PidRecycled, Clock, Finished, vars
    <2> QED
      BY <1>0, <1>k, <2>1 DEF Errand, ExtendsAKnown, Known
  <1> QED
    BY <1>1, <1>2, <1>3, Zenon DEF Next

LEMMA RegisteringKept ==
  ASSUME NEW id \in Requests,
         \A q \in Requests :
            \/ local'[q] = local[q]
            \/ local'[q].pc # "register" /\ local[q].pc # "register"
            \/ local'[q].pc # "register" /\ local[q].id # id
            \/ local'[q].id # id /\ local[q].id # id
  PROVE  Registering(id)' <=> Registering(id)
  BY DEF Registering, At

\* A step that neither arms, registers nor extends, and ends nothing.
LEMMA WatchKept ==
  ASSUME WatchInv, now \in Nat, now' \in Nat, now' >= now,
         \A id \in Requests : grants[id].expires \in Nat,
         UNCHANGED <<grants, handle, armed, fired, expiring, armings, crossed>>,
         \A q \in Requests :
            \/ local'[q] = local[q]
            \/ /\ local[q].pc \notin {"arm", "register"}
               /\ local'[q].pc \notin {"arm", "register"}
               /\ local[q].pc = "end" => ~IsLive(local[q].id)
  PROVE  TimersWatch'
  <1>1. TimersWatch
    BY DEF WatchInv
  <1>2. TimersNumbered'
    BY <1>1 DEF TimersWatch, TimersNumbered
  <1>3. ASSUME NEW q \in Requests PROVE ArmedItsOwn(q)' /\ ArmsForDeadline(q)'
    BY <1>1 DEF TimersWatch, ArmedItsOwn, ArmsForDeadline, At, IsLive
  <1>4. ASSUME NEW id \in Requests, IsLive(id)', id \notin crossed'
        PROVE  WatchedOn(id)'
    <2>1. IsLive(id) /\ WatchedOn(id)
      BY <1>1, <1>4 DEF TimersWatch, IsLive
    <2>2. Registering(id)' <=> Registering(id)
      BY RegisteringKept
    <2>3. ASSUME NEW r \in Requests, local[r].id = id, At(r, "arm") \/ At(r, "end")
          PROVE  local'[r] = local[r]
      BY <2>1, <2>3 DEF At
    <2>4. now > grants[id].expires => now' > grants'[id].expires
      OBVIOUS
    <2> QED
      BY <2>1, <2>2, <2>3, <2>4 DEF WatchedOn, At
  <1>5. ASSUME NEW id \in Requests, id \notin crossed' PROVE OneArms(id)'
    BY <1>1, <1>5 DEF TimersWatch, OneArms
  <1> QED
    BY <1>2, <1>3, <1>4, <1>5 DEF TimersWatch

\* The end of one grant stops no timer of another.
LEMMA WatchKeptByAnEnd ==
  ASSUME WatchInv, TypeOK, NEW e \in Requests, EndLive(e),
         UNCHANGED <<now, fired, armings, crossed>>, expiring \ {e} \subseteq expiring',
         \A q \in Requests :
            \/ local'[q] = local[q]
            \/ /\ local[q].pc = "end" /\ local[q].id = e
               /\ local'[q].pc = "record"
  PROVE  TimersWatch'
  <1>1. TimersWatch
    BY DEF WatchInv
  <1>2. /\ grants' = [grants EXCEPT ![e].state = "ended"]
        /\ armed' = {t \in armed : t.n \notin handle[e]}
        /\ handle' = [handle EXCEPT ![e] = {}]
    BY DEF EndLive
  <1>3. /\ handle'[e] = {}
        /\ \A id \in Requests \ {e} : handle'[id] = handle[id]
        /\ armed' \subseteq armed
        /\ grants'[e].state = "ended"
        /\ \A id \in Requests : grants'[id].expires = grants[id].expires
        /\ \A id \in Requests \ {e} : grants'[id] = grants[id]
    BY <1>2 DEF TypeOK, Grant
  <1>4. TimersNumbered'
    BY <1>1, <1>3 DEF TimersWatch, TimersNumbered
  <1>5. ASSUME NEW q \in Requests PROVE ArmedItsOwn(q)'
    BY <1>1, <1>3 DEF TimersWatch, ArmedItsOwn, At
  <1>6. ASSUME NEW q \in Requests PROVE ArmsForDeadline(q)'
    <2> SUFFICES ASSUME At(q, "arm")', IsLive(local[q].id)',
                        local'[q].id \notin crossed'
                 PROVE  local'[q].expires = grants'[local'[q].id].expires
      BY DEF ArmsForDeadline, At
    <2>1. local'[q] = local[q] /\ At(q, "arm") /\ local[q].id \in Requests
      BY DEF At, TypeOK, Local
    <2>2. local[q].id # e
      BY <1>3, <2>1 DEF IsLive
    <2> QED
      BY <1>1, <1>3, <2>1, <2>2 DEF TimersWatch, ArmsForDeadline, IsLive
  <1>7. ASSUME NEW id \in Requests, IsLive(id)', id \notin crossed'
        PROVE  WatchedOn(id)'
    <2>1. id # e /\ IsLive(id) /\ WatchedOn(id)
      BY <1>1, <1>3, <1>7 DEF TimersWatch, IsLive
    <2>2. Registering(id)' <=> Registering(id)
      BY RegisteringKept
    <2>3. \A t \in armed : t.id = id => t \in armed'
      BY <1>1, <1>2, <2>1 DEF TimersWatch, TimersNumbered
    <2>4. \A r \in Requests : local[r].id = id => local'[r] = local[r]
      BY <2>1
    <2> QED
      BY <1>3, <2>1, <2>2, <2>3, <2>4 DEF WatchedOn, At
  <1>8. ASSUME NEW id \in Requests, id \notin crossed' PROVE OneArms(id)'
    BY <1>1, <1>8 DEF TimersWatch, OneArms
  <1> QED
    BY <1>4, <1>5, <1>6, <1>7, <1>8 DEF TimersWatch

\* Who sets a deadline will arm for it, alone or crossing another.
LEMMA WatchKeptByADeadline ==
  ASSUME WatchInv, TypeOK, NEW r \in Requests,
         CreateInsert(r) \/ (ExtendSet(r) /\ IsLive(local[r].id))
  PROVE  TimersWatch'
  <1> DEFINE e == local[r].id
  <1>0. /\ TimersWatch /\ ErrandInv /\ Errand(r) /\ RecordOk(r) /\ e \in Requests
        /\ local \in [Requests -> Local] /\ local[r] \in Local
        /\ grants \in [Requests -> Grant] /\ now + GrantTTL \in Nat
    BY GrantTTLAssumption
    DEF WatchInv, ErrandInv, GrantInv, TypeOK, Local
  <1>1. /\ UNCHANGED <<now, handle, armed, fired, expiring, armings>>
        /\ local[r].pc \in {"insert", "extend"}
        /\ local'[r].pc = "arm" /\ local'[r].id = e
        /\ local'[r].expires = grants'[e].expires
        /\ \A id \in Requests \ {e} : grants'[id] = grants[id]
        /\ \A q \in Requests \ {r} : local'[q] = local[q]
    <2>1. CASE CreateInsert(r)
      <3>1. e = r
        BY <1>0, <2>1 DEF CreateInsert, At, RecordOk, Errand
      <3> QED
        BY <1>0, <2>1, <3>1
        DEF CreateInsert, At, Goto, Local, timerVars, processVars
    <2>2. CASE ExtendSet(r) /\ IsLive(e)
      <3>1. /\ grants' = [grants EXCEPT ![e].expires = now + GrantTTL]
            /\ local' = [local EXCEPT ![r].pc = "arm",
                                      ![r].expires = now + GrantTTL]
            /\ At(r, "extend")
            /\ UNCHANGED <<now, processVars, timerVars, challenger, ends>>
        BY <2>2, Zenon DEF ExtendSet
      <3> QED
        BY <1>0, <3>1 DEF At, Local, Grant, timerVars
    <2> QED
      BY <2>1, <2>2
  <1>c. /\ \A id \in Requests \ {e} : id \in crossed' <=> id \in crossed
        /\ e \notin crossed' =>
             \A q \in Requests \ {r} :
                local[q].id = e => local[q].pc \notin {"arm", "register"}
    <2>1. CASE CreateInsert(r)
      <3>1. e = r /\ ~Known(r) /\ UNCHANGED crossed
        BY <1>0, <2>1 DEF CreateInsert, At, RecordOk, Errand, UnderWay
      <3>2. ASSUME NEW q \in Requests \ {r}, local[q].id = r,
                   local[q].pc \in {"arm", "register"}
            PROVE  FALSE
        <4>1. Errand(q) /\ ExtendsAKnown(q)
          BY <1>0 DEF ErrandInv
        <4>2. local[q].op \in {"create", "extend"}
          BY <3>2, <4>1 DEF Errand
        <4> QED
          BY <3>1, <3>2, <4>1, <4>2 DEF Errand, ExtendsAKnown
      <3> QED
        BY <3>1, <3>2
    <2>2. CASE ExtendSet(r) /\ IsLive(e)
      <3>1. crossed' = IF Arming(r, e) THEN crossed \cup {e} ELSE crossed \ {e}
        BY <2>2, Zenon DEF ExtendSet
      <3> QED
        BY <3>1 DEF Arming
    <2> QED
      BY <2>1, <2>2
  <1>2. TimersNumbered'
    BY <1>0, <1>1 DEF TimersWatch, TimersNumbered
  <1>3. ASSUME NEW q \in Requests PROVE ArmedItsOwn(q)'
    BY <1>0, <1>1 DEF TimersWatch, ArmedItsOwn, At
  <1>4. ASSUME NEW q \in Requests PROVE ArmsForDeadline(q)'
    <2>1. CASE q = r
      BY <1>1, <2>1 DEF ArmsForDeadline
    <2>2. CASE q # r /\ At(q, "arm")
      <3>1. local[q].id \in Requests /\ local'[q] = local[q]
        BY <1>0, <1>1, <2>2 DEF Local
      <3>2. local[q].id = e => e \in crossed'
        BY <1>c, <2>2 DEF At
      <3> QED
        BY <1>0, <1>1, <1>c, <2>2, <3>1, <3>2
        DEF TimersWatch, ArmsForDeadline, At, IsLive
    <2>3. CASE q # r /\ ~At(q, "arm")
      BY <1>1, <2>3 DEF ArmsForDeadline, At
    <2> QED
      BY <2>1, <2>2, <2>3
  <1>5. ASSUME NEW id \in Requests, IsLive(id)', id \notin crossed'
        PROVE  WatchedOn(id)'
    <2>1. CASE id = e
      BY <1>1, <2>1 DEF WatchedOn, At
    <2>2. CASE id # e
      <3>1. WatchedOn(id)
        BY <1>0, <1>1, <1>c, <1>5, <2>2 DEF TimersWatch, IsLive
      <3>2. Registering(id)' <=> Registering(id)
        BY <1>1, <2>2, RegisteringKept
      <3>3. \A q \in Requests : local[q].id = id => local'[q] = local[q]
        BY <1>1, <2>2
      <3> QED
        BY <1>1, <2>2, <3>1, <3>2, <3>3 DEF WatchedOn, At
    <2> QED
      BY <2>1, <2>2
  <1>6. ASSUME NEW id \in Requests, id \notin crossed' PROVE OneArms(id)'
    <2>1. CASE id = e
      BY <1>1, <1>c, <1>6, <2>1 DEF OneArms
    <2>2. CASE id # e
      BY <1>0, <1>1, <1>c, <1>6, <2>2 DEF TimersWatch, OneArms
    <2> QED
      BY <2>1, <2>2
  <1> QED
    BY <1>2, <1>3, <1>4, <1>5, <1>6 DEF TimersWatch

\* The timer is running before it is registered.
LEMMA WatchKeptByArming ==
  ASSUME WatchInv, TypeOK, NEW r \in Requests, ArmExpiry(r)
  PROVE  TimersWatch'
  <1> DEFINE e == local[r].id
             new == [n |-> armings + 1, id |-> e, due |-> local[r].expires + 1]
  <1>0. /\ TimersWatch /\ e \in Requests
        /\ local \in [Requests -> Local] /\ local[r] \in Local
        /\ armings \in Nat /\ \A t \in armed \cup fired : t.n \in Nat
        /\ \A id \in Requests : \A n \in handle[id] : n \in Nat
        /\ \A q \in Requests : local[q].timer \in Nat
    BY DEF WatchInv, TypeOK, Local, GrantTimer
  <1>1. /\ local' = [local EXCEPT ![r].pc = "register",
                                  ![r].timer = armings + 1]
        /\ armed' = armed \cup {new} /\ armings' = armings + 1
        /\ UNCHANGED <<now, grants, handle, fired, expiring, crossed>>
        /\ At(r, "arm")
    BY Zenon DEF ArmExpiry
  <1>2. /\ local'[r].pc = "register" /\ local'[r].timer = armings + 1
        /\ local'[r].id = e
        /\ \A q \in Requests \ {r} : local'[q] = local[q]
    BY <1>0, <1>1 DEF Local
  <1>3. new.n = armings + 1 /\ new.id = e /\ new.due = local[r].expires + 1
    OBVIOUS
  <1> HIDE DEF new
  <1>4. TimersNumbered'
    BY <1>0, <1>1, <1>3 DEF TimersWatch, TimersNumbered
  <1>5. \A t \in armed \cup fired : t.n <= armings
    BY <1>0 DEF TimersWatch, TimersNumbered
  <1>6. ASSUME NEW q \in Requests PROVE ArmedItsOwn(q)'
    <2>1. CASE q = r
      BY <1>0, <1>1, <1>2, <1>3, <1>5, <2>1 DEF ArmedItsOwn, At
    <2>2. CASE q # r
      <3>1. At(q, "register") => local[q].timer <= armings
                                  /\ local[q].timer # new.n
        BY <1>0, <1>3 DEF TimersWatch, ArmedItsOwn
      <3>2. ArmedItsOwn(q)
        BY <1>0 DEF TimersWatch
      <3>3. local[q].timer <= armings => local[q].timer <= armings + 1
        BY <1>0
      <3> QED
        BY <1>1, <1>2, <2>2, <3>1, <3>2, <3>3 DEF ArmedItsOwn, At
    <2> QED
      BY <2>1, <2>2
  <1>7. ASSUME NEW q \in Requests PROVE ArmsForDeadline(q)'
    BY <1>0, <1>1, <1>2 DEF TimersWatch, ArmsForDeadline, At, IsLive
  <1>8. ASSUME NEW id \in Requests, IsLive(id)', id \notin crossed'
        PROVE  WatchedOn(id)'
    <2>1. IsLive(id) /\ WatchedOn(id)
      BY <1>0, <1>1, <1>8 DEF TimersWatch, IsLive
    <2>2. CASE id = e
      <3>1. new.due = grants[id].expires + 1
        BY <1>0, <1>1, <1>3, <1>8, <2>1, <2>2 DEF TimersWatch, ArmsForDeadline
      <3>2. armings + 1 \notin handle[id]
        BY <1>0 DEF TimersWatch, TimersNumbered
      <3> QED
        BY <1>1, <1>3, <2>2, <3>1, <3>2 DEF WatchedOn
    <2>3. CASE id # e
      <3>1. Registering(id)' <=> Registering(id)
        BY <1>2, <2>3, RegisteringKept
      <3>2. \A q \in Requests : local[q].id = id => local'[q] = local[q]
        BY <1>2, <2>3
      <3> QED
        BY <1>1, <2>1, <3>1, <3>2 DEF WatchedOn, At
    <2> QED
      BY <2>2, <2>3
  <1>9. ASSUME NEW id \in Requests, id \notin crossed' PROVE OneArms(id)'
    <2>1. OneArms(id)
      BY <1>0, <1>1, <1>9 DEF TimersWatch
    <2>2. ASSUME NEW q \in Requests,
                 local'[q].id = id, local'[q].pc \in {"arm", "register"}
          PROVE  local[q].id = id /\ local[q].pc \in {"arm", "register"}
      BY <1>1, <1>2, <2>2 DEF At
    <2> QED
      BY <2>1, <2>2 DEF OneArms
  <1> QED
    BY <1>4, <1>6, <1>7, <1>8, <1>9 DEF TimersWatch

\* What a registration stops is the timer registered before.
LEMMA WatchKeptByRegistering ==
  ASSUME WatchInv, TypeOK, NEW r \in Requests, RegisterTimer(r)
  PROVE  TimersWatch'
  <1> DEFINE e == local[r].id
  <1>0. /\ TimersWatch /\ ErrandInv /\ e \in Requests
        /\ local \in [Requests -> Local] /\ local[r] \in Local
        /\ handle \in [Requests -> SUBSET Nat]
    BY DEF WatchInv, TypeOK, Local
  <1>1. /\ armed' = {t \in armed : t.n \notin handle[e]}
        /\ handle' = [handle EXCEPT ![e] = {local[r].timer}]
        /\ At(r, "register") /\ Goto(r, "done")
        /\ UNCHANGED <<now, grants, fired, expiring, armings, crossed>>
    BY Zenon DEF RegisterTimer
  <1>2. /\ local'[r].pc = "done"
        /\ \A q \in Requests \ {r} : local'[q] = local[q]
        /\ handle'[e] = {local[r].timer}
        /\ \A id \in Requests \ {e} : handle'[id] = handle[id]
        /\ armed' \subseteq armed
    BY <1>0, <1>1 DEF Goto, Local
  <1>3. ArmedItsOwn(r)
    BY <1>0 DEF TimersWatch
  <1>4. TimersNumbered'
    BY <1>0, <1>1, <1>2, <1>3 DEF TimersWatch, TimersNumbered, ArmedItsOwn
  <1>5. ASSUME NEW q \in Requests PROVE ArmedItsOwn(q)'
    BY <1>0, <1>1, <1>2 DEF TimersWatch, ArmedItsOwn, At
  <1>6. ASSUME NEW q \in Requests PROVE ArmsForDeadline(q)'
    BY <1>0, <1>1, <1>2 DEF TimersWatch, ArmsForDeadline, At, IsLive
  <1>7. ASSUME NEW id \in Requests, IsLive(id)', id \notin crossed'
        PROVE  WatchedOn(id)'
    <2>1. IsLive(id) /\ WatchedOn(id)
      BY <1>0, <1>1, <1>7 DEF TimersWatch, IsLive
    <2>2. \A q \in Requests : At(q, "arm") \/ At(q, "end")
                                => local'[q] = local[q]
      BY <1>1, <1>2 DEF At
    <2>3. CASE id = e
      <3>1. Registering(id)
        BY <1>1, <2>3 DEF Registering
      <3>2. ~Registering(id)'
        <4>1. OneArms(e)
          BY <1>0, <1>1, <1>7, <2>3 DEF TimersWatch
        <4> QED
          BY <1>0, <1>1, <1>2, <2>3, <4>1 DEF OneArms, Registering, At
      <3> QED
        BY <1>1, <2>1, <2>2, <2>3, <3>1, <3>2 DEF WatchedOn, At
    <2>4. CASE id # e
      <3>1. Registering(id)' <=> Registering(id)
        BY <1>2, <2>4, RegisteringKept
      <3>2. \A t \in armed : t.id = id => t \in armed'
        BY <1>0, <1>1, <2>4 DEF TimersWatch, TimersNumbered
      <3> QED
        BY <1>1, <1>2, <2>1, <2>2, <2>4, <3>1, <3>2 DEF WatchedOn, At
    <2> QED
      BY <2>3, <2>4
  <1>8. ASSUME NEW id \in Requests, id \notin crossed' PROVE OneArms(id)'
    BY <1>0, <1>1, <1>2, <1>8 DEF TimersWatch, OneArms
  <1> QED
    BY <1>4, <1>5, <1>6, <1>7, <1>8 DEF TimersWatch

\* A timer that goes off does so after the deadline, and finds it so.
LEMMA WatchKeptByTheTimer ==
  ASSUME WatchInv, TypeOK, TimerFires \/ TimerDecides
  PROVE  TimersWatch'
  <1>0. /\ TimersWatch /\ now \in Nat
        /\ \A id \in Requests : grants[id].expires \in Nat
        /\ \A t \in armed \cup fired : t.id \in Requests
        /\ handle \in [Requests -> SUBSET Nat]
    BY DEF WatchInv, TypeOK, Grant, GrantTimer
  <1>1. UNCHANGED <<now, grants, local, armings, crossed>>
    BY Zenon DEF TimerFires, TimerDecides
  <1>2. /\ armed' \subseteq armed /\ armed' \cup fired' \subseteq armed \cup fired
        /\ \A id \in Requests : handle'[id] \subseteq handle[id]
        /\ expiring \subseteq expiring'
    <2>1. CASE TimerFires
      BY <2>1 DEF TimerFires
    <2>2. CASE TimerDecides
      BY <1>0, <2>2 DEF TimerDecides
    <2> QED
      BY <2>1, <2>2
  <1>3. TimersNumbered'
    BY <1>0, <1>1, <1>2 DEF TimersWatch, TimersNumbered
  <1>4. ASSUME NEW q \in Requests PROVE ArmedItsOwn(q)' /\ ArmsForDeadline(q)'
    BY <1>0, <1>1, <1>2 DEF TimersWatch, ArmedItsOwn, ArmsForDeadline, At, IsLive
  <1>5. ASSUME NEW id \in Requests, IsLive(id)', id \notin crossed'
        PROVE  WatchedOn(id)'
    <2>1. IsLive(id) /\ WatchedOn(id)
      BY <1>0, <1>1, <1>5 DEF TimersWatch, IsLive
    <2>2. Registering(id)' <=> Registering(id)
      BY <1>1 DEF Registering, At
    <2>3. ASSUME NEW t \in armed, t.due = grants[id].expires + 1, t \notin armed'
          PROVE  t \in fired' /\ now > grants[id].expires
      BY <1>0, <2>3 DEF TimerFires, TimerDecides
    <2>4. ASSUME NEW t \in fired, t.id = id, now > grants[id].expires,
                 t \notin fired'
          PROVE  id \in expiring'
      BY <2>1, <2>4 DEF TimerFires, TimerDecides
    <2> QED
      BY <1>1, <1>2, <2>1, <2>2, <2>3, <2>4 DEF WatchedOn, At
  <1>6. ASSUME NEW id \in Requests, id \notin crossed' PROVE OneArms(id)'
    BY <1>0, <1>1, <1>6 DEF TimersWatch, OneArms
  <1> QED
    BY <1>3, <1>4, <1>5, <1>6 DEF TimersWatch

LEMMA StepWatches ==
  ASSUME WatchInv, NEW r \in Requests, Step(r)
  PROVE  TimersWatch'
  <1>0. /\ ErrandInv /\ GrantInv /\ TypeOK
        /\ local \in [Requests -> Local] /\ local[r] \in Local
        /\ local[r].id \in Requests /\ RecordOk(r) /\ now \in Nat
        /\ \A id \in Requests : grants[id].expires \in Nat
    BY DEF WatchInv, ErrandInv, GrantInv, TypeOK, Local, Grant
  <1>1. \A q \in Requests \ {r} : local'[q] = local[q]
    BY <1>0, OthersKept
  <1>2. CASE ~Writes(r)
    <2>1. /\ UNCHANGED <<now, grants, handle, armed, fired, expiring, armings,
                        crossed>>
          /\ local[r].pc \notin {"arm", "register"}
          /\ local'[r].pc \notin {"arm", "register"}
          /\ local[r].pc = "end" => ~IsLive(local[r].id)
      BY <1>0, <1>2, OthersOweNothing DEF timerVars
    <2> QED
      BY <1>0, <1>1, <2>1, WatchKept
  <1>3. CASE RecordEnd(r)
    <2>1. /\ UNCHANGED <<now, grants, handle, armed, fired, expiring, armings,
                        crossed>>
          /\ local[r].pc = "record"
          /\ local'[r].pc \notin {"arm", "register"}
      BY <1>0, <1>3 DEF RecordEnd, At, Goto, Local, RecordOk, timerVars
    <2> QED
      BY <1>0, <1>1, <2>1, WatchKept
  <1>4. CASE ExtendSet(r) /\ ~IsLive(local[r].id)
    <2>1. /\ UNCHANGED <<now, grants, handle, armed, fired, expiring, armings,
                        crossed>>
          /\ local[r].pc = "extend" /\ local'[r].pc = "done"
      BY <1>0, <1>4 DEF ExtendSet, At, Goto, Local, timerVars
    <2> QED
      BY <1>0, <1>1, <2>1, WatchKept
  <1>5. CASE End(r)
    <2>1. /\ EndLive(local[r].id)
          /\ UNCHANGED <<now, fired, expiring, armings, crossed>>
          /\ local[r].pc = "end" /\ local'[r].pc = "record"
      BY <1>0, <1>5 DEF End, At, Goto, Local
    <2> QED
      BY <1>0, <1>1, <2>1, WatchKeptByAnEnd
  <1> QED
    BY <1>0, <1>2, <1>3, <1>4, <1>5, WatchKeptByADeadline, WatchKeptByArming,
       WatchKeptByRegistering DEF Writes

LEMMA NextWatches == WatchInv /\ [Next]_vars => WatchInv'
  <1> SUFFICES ASSUME WatchInv, [Next]_vars PROVE TimersWatch'
    BY NextErrands DEF WatchInv
  <1>0. /\ ErrandInv /\ GrantInv /\ TypeOK /\ now \in Nat /\ now' \in Nat
        /\ expiring \subseteq Requests
        /\ \A id \in Requests : grants[id].expires \in Nat
    BY NextTyped DEF WatchInv, ErrandInv, GrantInv, TypeOK, Grant
  <1>1. ASSUME NEW r \in Requests, Step(r) PROVE TimersWatch'
    BY <1>1, StepWatches
  <1>2. ASSUME NEW r \in Requests, Ask(r) PROVE TimersWatch'
    <2>1. UNCHANGED <<now, grants, handle, armed, fired, expiring, armings,
                        crossed>>
      BY <1>2, Zenon DEF Ask, timerVars
    <2>2. /\ local[r].pc \notin {"arm", "register", "end"}
          /\ local'[r].pc \notin {"arm", "register"}
      BY <1>0, <1>2, AskedErrand
    <2>3. \A q \in Requests \ {r} : local'[q] = local[q]
      BY <1>0, <1>2, OthersKept
    <2> QED
      BY <1>0, <2>1, <2>2, <2>3, WatchKept
  <1>3. CASE TimerRecords \/ RootExits \/ PidRecycled \/ Clock \/ Finished
             \/ UNCHANGED vars
    <2>1. UNCHANGED <<local, grants, handle, armed, fired, expiring, armings,
                     crossed>>
      BY <1>3, Zenon DEF TimerRecords, RootExits, PidRecycled, Clock, Finished,
                         vars, timerVars
    <2>2. now' >= now
      BY <1>0, <1>3 DEF TimerRecords, RootExits, PidRecycled, Clock, Finished,
                        vars
    <2> QED
      BY <1>0, <2>1, <2>2, WatchKept
  <1>4. CASE TimerEnds
    <2>1. PICK e \in expiring :
             /\ expiring' = expiring \ {e}
             /\ \/ EndLive(e)
                \/ ~IsLive(e) /\ UNCHANGED <<grants, armed, handle>>
      BY <1>4, Zenon DEF TimerEnds
    <2>2. UNCHANGED <<now, fired, armings, local, crossed>>
      BY <1>4, Zenon DEF TimerEnds
    <2>3. CASE EndLive(e)
      BY <1>0, <2>1, <2>2, <2>3, WatchKeptByAnEnd
    <2>4. CASE ~IsLive(e) /\ UNCHANGED <<grants, armed, handle>>
      <3>1. TimersWatch
        BY DEF WatchInv
      <3>2. TimersNumbered'
        BY <2>2, <2>4, <3>1 DEF TimersWatch, TimersNumbered
      <3>3. ASSUME NEW q \in Requests
            PROVE  ArmedItsOwn(q)' /\ ArmsForDeadline(q)'
        BY <2>2, <2>4, <3>1
        DEF TimersWatch, ArmedItsOwn, ArmsForDeadline, At, IsLive
      <3>4. ASSUME NEW id \in Requests, IsLive(id)', id \notin crossed'
            PROVE  WatchedOn(id)'
        <4>1. IsLive(id) /\ WatchedOn(id) /\ id # e
          BY <2>2, <2>4, <3>1, <3>4 DEF TimersWatch, IsLive
        <4> QED
          BY <2>1, <2>2, <2>4, <4>1 DEF WatchedOn, Registering, At
      <3>5. ASSUME NEW id \in Requests, id \notin crossed' PROVE OneArms(id)'
        BY <2>2, <3>1, <3>5 DEF TimersWatch, OneArms
      <3> QED
        BY <3>2, <3>3, <3>4, <3>5 DEF TimersWatch
    <2> QED
      BY <2>1, <2>3, <2>4
  <1> QED
    BY <1>0, <1>1, <1>2, <1>3, <1>4, WatchKeptByTheTimer, Zenon
    DEF Next, TimerStep

-----------------------------------------------------------------------------
(* Theorems.                                                               *)

\* The grants, their timers and every request keep their types, whatever the
\* critical sections of grant.go do in whatever order.
THEOREM GrantsTyped == Spec => []TypeOK
  BY GrantInvAlways, PTL DEF GrantInv

\* An extension approved while its grant is revoked, pruned or expired does
\* not bring it back, and no create does (extendGrant's second look under
\* grantMu).
THEOREM GrantsEndedForGood == Spec => EndedForGood
  <1>1. GrantInv /\ [Next]_vars
          => [\A id \in Requests :
                 grants[id].state = "ended" => grants'[id].state = "ended"]_vars
    BY GrantsKept DEF Keeps
  <1> QED
    BY <1>1, GrantInvAlways, PTL DEF Spec, EndedForGood

\* A serve hands out a key only under a grant that is live at that moment and
\* whose root is the very process the caller descends from, though the grant
\* was looked up, its root checked and the ancestry walked in separate
\* critical sections before (timedUnwrap).
THEOREM GrantsAnswerOnlyTheirTree == Spec => AnswersOnlyItsTree
  <1> DEFINE Answer == \A r \in Requests :
                (~local[r].served /\ local'[r].served) =>
                    /\ IsLive(local[r].id)
                    /\ local[r].tree = grants[local[r].id].start
  <1>1. ASSUME GrantInv, Next, NEW r \in Requests,
               ~local[r].served, local'[r].served
        PROVE  IsLive(local[r].id) /\ local[r].tree = grants[local[r].id].start
    <2>1. ServeTake(r)
      BY <1>1, ServesOnlyInTake
    <2> QED
      BY <1>1, <2>1, TakeServes
  <1>2. GrantInv /\ [Next]_vars => [Answer]_vars
    BY <1>1
  <1> QED
    BY <1>2, GrantInvAlways, PTL DEF Spec, AnswersOnlyItsTree

\* However timers, prunes, serves and revokes race to end a grant, it ends
\* once and its end is recorded once (endGrantBy).
THEOREM GrantsEndedOnce == Spec => []EndedOnce
  <1>1. TellInv => EndedOnce
    <2> SUFFICES ASSUME TellInv, NEW id \in Requests
                 PROVE  ends[id] + Cardinality(Recording(id))
                          + (IF id \in timerRecords THEN 1 ELSE 0)
                        = IF grants[id].state = "ended" THEN 1 ELSE 0
      BY DEF EndedOnce, Recording
    <2>1. ToldOnce(id)
      BY DEF TellInv
    <2>2. \/ Recording(id) = {} /\ Cardinality(Recording(id)) = 0
          \/ (\E r \in Requests : Recording(id) = {r})
             /\ Cardinality(Recording(id)) = 1
      BY <2>1, FS_EmptySet, FS_Singleton, Zenon DEF ToldOnce
    <2>3. \A r : {r} # {}
      OBVIOUS
    <2> QED
      BY <2>1, <2>2, <2>3 DEF ToldOnce
  <1> QED
    BY <1>1, InitTells, NextTells, PTL DEF Spec

\* However often it is extended and by whomever, a live grant always has a
\* timer that will end it at its deadline, or somebody at work who arms one or
\* ends it: not even between the arming and the registering of an extension's
\* timer, and whichever timer was stopped meanwhile (armGrantExpiry).  Only a
\* grant whose deadline was last moved while another request was still arming
\* for it is left out.  And its end is told once.
THEOREM GrantsWatchedUntilEndedOnce == Spec => []WatchedUntilEndedOnce
  <1>1. WatchInv => GrantIsWatched
    <2> SUFFICES ASSUME WatchInv, NEW id \in Requests, IsLive(id),
                        id \notin crossed
                 PROVE  Watched(id)
      BY DEF GrantIsWatched
    <2>1. WatchedOn(id) /\ grants[id].expires \in Nat
      BY DEF WatchInv, ErrandInv, GrantInv, TypeOK, Grant, TimersWatch
    <2>2. \A r \in Requests : At(r, "arm") /\ local[r].id = id
                                 => local[r].expires <= grants[id].expires
      BY <2>1 DEF WatchInv, TimersWatch, ArmsForDeadline
    <2> QED
      BY <2>1, <2>2 DEF WatchedOn, Watched
  <1>2. WatchInv /\ [Next]_vars => WatchInv'
    BY NextWatches
  <1>3. GrantIsWatched /\ EndedOnce => WatchedUntilEndedOnce
    BY DEF WatchedUntilEndedOnce
  <1> QED
    BY <1>1, <1>2, <1>3, InitWatch, GrantsEndedOnce, PTL DEF Spec
=============================================================================
