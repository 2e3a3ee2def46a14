------------------------------ MODULE GateProofs ------------------------------
(***************************************************************************)
(* Proofs about Gate, for every set of requests and classes, every idle    *)
(* time, lifetime and schedule of pauses.  The invariant follows each      *)
(* request along the path of its operation, says who holds challengeMu and *)
(* who leads a flight, and keeps account of what an ended session left:    *)
(* as long as something of it is there, somebody still owes the clearing.  *)
(* StepInv puts together what a step of a request does to each part.       *)
(***************************************************************************)
EXTENDS Gate, SessionCoreProofs

-----------------------------------------------------------------------------
(* The invariant.                                                          *)

Draining == {"drain", "drainConsent", "drainTrust"}

\* Where a request is, or goes on when it has drained what it found parked.
Onto(p, rt) == IF p \in Draining THEN rt ELSE p
Where(r) == Onto(local[r].pc, local[r].ret)

\* The places of a gate, of a disclosed prompt in one, of a plain prompt.
FlightPlaces == {"ready", "dqueue", "offer", "dask", "dprompt", "adopt",
                 "drelease", "remember", "check", "score", "finish"}
GatePlaces == FlightPlaces \cup {"gate", "descent", "lookup", "throttle",
                                 "join", "wait"}
KeyPlaces == {"touch", "touched", "queue", "recheck", "rechecked", "ask",
              "prompt", "release", "clearBackoff", "forgive"}

\* Which request is where: the path of each operation through Server.handle.
PathAt(o, p, rt, u) ==
    LET w == Onto(p, rt)
    IN  /\ rt \notin Draining
        /\ (o = "none" <=> w = "idle") /\ (o \in {"none", "trust"} => ~u)
        /\ o = "unwrap" => w \in GatePlaces \cup KeyPlaces \cup {"served", "done"}
        /\ o = "unlock" => w \in KeyPlaces \cup {"served", "done"}
        /\ o = "trust" => w \in {"dqueue", "dprompt", "drelease", "record", "done"}
        /\ o = "lock" => /\ w \in {"lock", "awsclear", "done"} /\ p # "drain"
                         /\ p \in Draining => rt = "awsclear"
        /\ o = "awsget" => w \in GatePlaces \cup {"look", "read", "served", "done"}
        /\ o = "awsput" => w \in {"look", "fill", "done"}
        /\ o = "awsclear" => w \in {"awsclear", "done"} /\ p = w
PathOk(r) == PathAt(local[r].op, local[r].pc, local[r].ret, local[r].unlocking)

\* Where a request holds challengeMu.
HeldPlaces == {"offer", "dask", "dprompt", "adopt", "drelease", "recheck",
               "rechecked", "ask", "prompt", "release"}
HeldAt(w) == w \in HeldPlaces

\* Where a request counts on finding the vault locked, if it saw it locked,
\* and if its prompt offers to unlock.
CountsAt(w, saw, offers) ==
    \/ w \in {"ask", "prompt", "adopt"}
    \/ w \in {"rechecked", "dask"} /\ saw
    \/ w = "dprompt" /\ offers
CountsOnLocked(r) ==
    CountsAt(Where(r), local[r].got = Locked, local[r].unlocking)

HolderOk(r) ==
    /\ HeldAt(Where(r)) <=> challenger = r
    /\ CountsOnLocked(r) => mek = Locked

\* Who leads the flight of its class: a request between join and finish.
LeadsAt(o, w) == o \in {"unwrap", "awsget"} /\ w \in FlightPlaces
Leads(r) == LeadsAt(local[r].op, Where(r))
FlightOk ==
    /\ \A r \in Requests : Leads(r) <=> pending[Class(r)] = r
    /\ \A c \in Classes : pending[c] # NoOne => Class(pending[c]) = c

\* The end of a session that somebody still has to clear consent for, trust
\* for, and, short of a collection, the AWS cache for.
ConsentOwed ==
    \/ lockParked \/ tails["consent"] > 0
    \/ \E r \in Requests : local[r].pc = "drainConsent"
TrustOwed ==
    \/ ConsentOwed \/ tails["trust"] > 0
    \/ \E r \in Requests : local[r].pc = "drainTrust"
AwsOwed ==
    \/ tails["consent"] > 0 \/ tails["trust"] > 0 \/ tails["aws"] > 0
    \/ \E r \in Requests : /\ local[r].op = "lock"
                           /\ local[r].pc \in {"drainConsent", "drainTrust",
                                               "awsclear"}

Ended(s) == s \notin {Locked, mek}

SessionOk == session = opened /\ mek \in {Locked, opened}

\* Where an approval is on its way to the cache.
Approving(r) ==
    \/ Where(r) = "remember"
    \/ Where(r) \in {"adopt", "drelease"} /\ local[r].verdict = "allow"

\* An approval of an ended session is about to be cleared, or, not yet cached,
\* finds that there was a Clear since.
ApprovalOk(r) ==
    /\ local[r].clears <= clears
    /\ Approving(r) /\ local[r].clears = clears /\ Ended(local[r].given)
       => ConsentOwed
CacheOk ==
    \A c \in Classes :
        /\ cache[c].session <= opened
        /\ cache[c].session = opened /\ cache[c].cachedIn # mek => ConsentOwed
        /\ Ended(cache[c].given) => ConsentOwed
TrustOk == \A t \in trustRoots : Ended(t.recorded) => TrustOwed

\* Credentials of a session that was locked are about to be wiped, and who
\* would fill the cache with some has no proof any more, or was overtaken by
\* one that another call of its process earned.
Stale(s) == Ended(s) /\ s \notin collected
AwsOk == awsCache.id # 0 =>
            /\ awsCache.filled # Locked
            /\ ~awsCache.overtaken /\ Stale(awsCache.filled) => AwsOwed
FillOk(r) ==
    /\ Where(r) = "fill" /\ Stale(local[r].got) /\ r \notin overtaken
    /\ \E p \in awsProofs : p.process = ProcessOf[r]
    => AwsOwed

Parts ==
    /\ SessionOk /\ FlightOk /\ CacheOk /\ TrustOk /\ AwsOk
    /\ \A r \in Requests : PathOk(r) /\ HolderOk(r) /\ ApprovalOk(r) /\ FillOk(r)
IInv == TypeOK /\ Parts

-----------------------------------------------------------------------------
(* A step writes its own request's record only.                            *)

Only(r) ==
    /\ local' \in [Requests -> Local]
    /\ local'[r].op = local[r].op
    /\ \A q \in Requests : q # r => local'[q] = local[q]
Asked(r) ==
    /\ local'[r].clears = local[r].clears
    /\ local'[r].unlocking = local[r].unlocking
Answer(r) ==
    /\ local'[r].verdict = local[r].verdict
    /\ local'[r].given = local[r].given
Sees(r) == local'[r].got = local[r].got
Goes(r, p) ==
    /\ Only(r) /\ local'[r].pc = p /\ local'[r].ret = local[r].ret
    /\ Asked(r) /\ Answer(r) /\ Sees(r)

LEMMA WriteOnly ==
  ASSUME TypeOK, NEW r \in Requests, NEW l \in Local, l.op = local[r].op,
         local' = [local EXCEPT ![r] = l]
  PROVE  Only(r) /\ local'[r] = l
  BY DEF TypeOK, Only

LEMMA GotoMoves ==
  ASSUME TypeOK, NEW r \in Requests, NEW p \in Places, Goto(r, p)
  PROVE  Goes(r, p)
  <1> DEFINE l == [local[r] EXCEPT !.pc = p]
  <1>1. local' = [local EXCEPT ![r] = l]
    BY Zenon DEF Goto
  <1>2. local[r] \in Local
    BY DEF TypeOK
  <1>3. l \in Local /\ l.op = local[r].op
    BY <1>2 DEF Local
  <1>4. Only(r) /\ local'[r] = l
    BY <1>1, <1>3, WriteOnly
  <1> QED
    BY <1>2, <1>4 DEF Goes, Asked, Answer, Sees, Local

\* What a look at the session sees.
Looks(r, next) ==
    /\ Only(r) /\ local'[r].pc = "drain" /\ local'[r].ret = next
    /\ \/ local'[r].got = mek /\ mek' = mek /\ mek # Locked
       \/ local'[r].got = Locked /\ mek' = Locked
    /\ Asked(r) /\ Answer(r)

LEMMA LookMoves ==
  ASSUME TypeOK, NEW r \in Requests, NEW next \in Places,
         Peek(r, next) \/ TouchSession(r, next)
  PROVE  Looks(r, next)
  <1> DEFINE l(k) == [local[r] EXCEPT !.pc = "drain", !.ret = next, !.got = k]
  <1>1. \/ local' = [local EXCEPT ![r] = l(mek)] /\ mek' = mek /\ mek # Locked
        \/ local' = [local EXCEPT ![r] = l(Locked)] /\ mek' = Locked
    <2>1. CASE Peek(r, next)
      <3>1. CASE Live /\ local' = [local EXCEPT ![r] = l(mek)]
                 /\ UNCHANGED <<coreVars, lockVars>>
        BY <3>1 DEF Live, coreVars
      <3>2. CASE FindLocked /\ local' = [local EXCEPT ![r] = l(Locked)]
        BY <3>2 DEF FindLocked, coreVars
      <3>3. CASE CollectSession /\ local' = [local EXCEPT ![r] = l(Locked)]
        BY <3>3 DEF CollectSession, Collect
      <3> QED
        BY <2>1, <3>1, <3>2, <3>3, Zenon DEF Peek
    <2>2. CASE TouchSession(r, next)
      <3>1. CASE Touch /\ local' = [local EXCEPT ![r] = l(mek)]
        BY <3>1 DEF Touch, Live
      <3>2. CASE FindLocked /\ local' = [local EXCEPT ![r] = l(Locked)]
        BY <3>2 DEF FindLocked, coreVars
      <3>3. CASE CollectSession /\ local' = [local EXCEPT ![r] = l(Locked)]
        BY <3>3 DEF CollectSession, Collect
      <3> QED
        BY <2>2, <3>1, <3>2, <3>3, Zenon DEF TouchSession
    <2> QED
      BY <2>1, <2>2
  <1>2. local[r] \in Local /\ mek \in Nat /\ Locked \in Nat
        /\ "drain" \in Places
    BY DEF TypeOK, CoreTypeOK, Locked, Places
  <1>3. ASSUME NEW k \in Nat, local' = [local EXCEPT ![r] = l(k)]
        PROVE  /\ Only(r) /\ local'[r].pc = "drain" /\ local'[r].ret = next
               /\ local'[r].got = k /\ Asked(r) /\ Answer(r)
    <2>1. l(k) \in Local /\ l(k).op = local[r].op
      BY <1>2 DEF Local
    <2>2. Only(r) /\ local'[r] = l(k)
      BY <1>3, <2>1, WriteOnly
    <2> QED
      BY <1>2, <2>2 DEF Asked, Answer, Local
  <1> QED
    BY <1>1, <1>2, <1>3 DEF Looks

LEMMA DescentMoves ==
  ASSUME TypeOK, NEW r \in Requests, GateDescent(r)
  PROVE  /\ Only(r)
         /\ local'[r].pc \in {Allowed(r), "lookup"}
         /\ local'[r].ret = local[r].ret /\ Asked(r)
         /\ local'[r].given = local[r].given /\ Sees(r)
  <1> DEFINE l ==
        [local[r] EXCEPT !.pc = IF TrustedTree(r) THEN Allowed(r) ELSE "lookup",
                         !.verdict = IF TrustedTree(r) THEN "allow" ELSE "none"]
  <1>1. local' = [local EXCEPT ![r] = l]
    BY Zenon DEF GateDescent, Goto
  <1>2. local[r] \in Local /\ {"lookup", "served", "touch"} \subseteq Places
        /\ Allowed(r) \in Places
    BY DEF TypeOK, CoreTypeOK, Places, Allowed
  <1>3. l \in Local /\ l.op = local[r].op
    BY <1>2 DEF Local
  <1>4. Only(r) /\ local'[r] = l
    BY <1>1, <1>3, WriteOnly
  <1> QED
    BY <1>2, <1>4 DEF Asked, Answer, Sees, Local

LEMMA LookupHitMoves ==
  ASSUME TypeOK, NEW r \in Requests, GateLookup(r),
         Class(r) \notin Uncached, Servable(Class(r))
  PROVE  /\ Only(r) /\ local'[r].pc = Allowed(r)
         /\ local'[r].verdict = "allow"
         /\ local'[r].given = cache[Class(r)].given
         /\ local'[r].ret = local[r].ret /\ Asked(r) /\ Sees(r)
  <1> DEFINE l ==
        [local[r] EXCEPT !.pc = Allowed(r),
                         !.verdict = "allow",
                         !.given = cache[Class(r)].given]
  <1>1. local' = [local EXCEPT ![r] = l]
    BY Zenon DEF GateLookup, Goto
  <1>2. local[r] \in Local /\ Allowed(r) \in Places
        /\ cache[Class(r)].given \in Nat
    BY GateClassesAssumption DEF TypeOK, CoreTypeOK, Places, Allowed, Class
  <1>3. l \in Local /\ l.op = local[r].op
    BY <1>2 DEF Local
  <1>4. Only(r) /\ local'[r] = l
    BY <1>1, <1>3, WriteOnly
  <1> QED
    BY <1>2, <1>4 DEF Asked, Answer, Sees, Local

LEMMA ThrottledMoves ==
  ASSUME TypeOK, NEW r \in Requests, GateThrottle(r),
         now < refusals[Class(r)].until
  PROVE  /\ Only(r) /\ local'[r].pc = "done"
         /\ local'[r].verdict = "throttled" /\ local'[r].ret = local[r].ret
         /\ Asked(r) /\ local'[r].given = local[r].given /\ Sees(r)
  <1> DEFINE l == [local[r] EXCEPT !.pc = "done", !.verdict = "throttled"]
  <1>1. local' = [local EXCEPT ![r] = l]
    BY Zenon DEF GateThrottle, Goto
  <1>2. local[r] \in Local /\ {"done"} \subseteq Places
    BY DEF TypeOK, CoreTypeOK, Places
  <1>3. l \in Local /\ l.op = local[r].op
    BY <1>2 DEF Local
  <1>4. Only(r) /\ local'[r] = l
    BY <1>1, <1>3, WriteOnly
  <1> QED
    BY <1>2, <1>4 DEF Asked, Answer, Sees, Local

LEMMA JoinWaits ==
  ASSUME TypeOK, NEW r \in Requests, GateJoin(r),
         pending[Class(r)] # NoOne
  PROVE  /\ Only(r) /\ local'[r].pc = "wait" /\ local'[r].ret = local[r].ret
         /\ Asked(r) /\ Answer(r) /\ Sees(r)
  <1> DEFINE l == [local[r] EXCEPT !.pc = "wait", !.leader = pending[Class(r)]]
  <1>1. local' = [local EXCEPT ![r] = l]
    BY Zenon DEF GateJoin, Goto
  <1>2. local[r] \in Local /\ {"wait"} \subseteq Places
        /\ pending[Class(r)] \in Requests \cup {NoOne}
    BY GateClassesAssumption DEF TypeOK, CoreTypeOK, Places, Class
  <1>3. l \in Local /\ l.op = local[r].op
    BY <1>2 DEF Local
  <1>4. Only(r) /\ local'[r] = l
    BY <1>1, <1>3, WriteOnly
  <1> QED
    BY <1>2, <1>4 DEF Asked, Answer, Sees, Local

LEMMA WaitMoves ==
  ASSUME TypeOK, NEW r \in Requests, GateWait(r)
  PROVE  /\ Only(r) /\ local'[r].pc = "lookup" /\ local'[r].ret = local[r].ret
         /\ Asked(r) /\ Answer(r) /\ Sees(r)
  <1> DEFINE l == [local[r] EXCEPT !.pc = "lookup", !.leader = NoOne]
  <1>1. local' = [local EXCEPT ![r] = l]
    BY Zenon DEF GateWait, Goto
  <1>2. local[r] \in Local /\ {"lookup"} \subseteq Places
    BY DEF TypeOK, CoreTypeOK, Places
  <1>3. l \in Local /\ l.op = local[r].op
    BY <1>2 DEF Local
  <1>4. Only(r) /\ local'[r] = l
    BY <1>1, <1>3, WriteOnly
  <1> QED
    BY <1>2, <1>4 DEF Asked, Answer, Sees, Local

LEMMA ReadyMoves ==
  ASSUME TypeOK, NEW r \in Requests, GateReady(r)
  PROVE  /\ Only(r) /\ local'[r].pc = "dqueue" /\ local'[r].clears = clears
         /\ local'[r].ret = local[r].ret
         /\ local'[r].unlocking = local[r].unlocking /\ Answer(r) /\ Sees(r)
  <1> DEFINE l == [local[r] EXCEPT !.pc = "dqueue", !.clears = clears]
  <1>1. local' = [local EXCEPT ![r] = l]
    BY Zenon DEF GateReady, Goto
  <1>2. local[r] \in Local /\ {"dqueue"} \subseteq Places /\ clears \in Nat
    BY DEF TypeOK, CoreTypeOK, Places
  <1>3. l \in Local /\ l.op = local[r].op
    BY <1>2 DEF Local
  <1>4. Only(r) /\ local'[r] = l
    BY <1>1, <1>3, WriteOnly
  <1> QED
    BY <1>2, <1>4 DEF Asked, Answer, Sees, Local

LEMMA TurnedAwayMoves ==
  ASSUME TypeOK, NEW r \in Requests, DiscloseTurnedAway(r)
  PROVE  /\ Only(r) /\ local'[r].pc = Answered(r, FALSE)
         /\ local'[r].verdict = "deny" /\ local'[r].ret = local[r].ret
         /\ Asked(r) /\ local'[r].given = local[r].given /\ Sees(r)
  <1> DEFINE l == [local[r] EXCEPT !.pc = Answered(r, FALSE), !.verdict = "deny"]
  <1>1. local' = [local EXCEPT ![r] = l]
    BY Zenon DEF DiscloseTurnedAway, Goto
  <1>2. local[r] \in Local
        /\ Answered(r, FALSE) \in Places
    BY DEF TypeOK, CoreTypeOK, Places, Answered
  <1>3. l \in Local /\ l.op = local[r].op
    BY <1>2 DEF Local
  <1>4. Only(r) /\ local'[r] = l
    BY <1>1, <1>3, WriteOnly
  <1> QED
    BY <1>2, <1>4 DEF Asked, Answer, Sees, Local

LEMMA DAskMoves ==
  ASSUME TypeOK, NEW r \in Requests, DiscloseAsk(r)
  PROVE  /\ Only(r) /\ local'[r].pc = "dprompt"
         /\ local'[r].unlocking = (local[r].got = Locked /\ ~CoolingDown)
         /\ local'[r].ret = local[r].ret /\ local'[r].clears = local[r].clears
         /\ Answer(r) /\ Sees(r)
  <1> DEFINE l ==
        [local[r] EXCEPT !.pc = "dprompt",
                         !.unlocking = (local[r].got = Locked /\ ~CoolingDown)]
  <1>1. local' = [local EXCEPT ![r] = l]
    BY Zenon DEF DiscloseAsk, Goto
  <1>2. local[r] \in Local /\ {"dprompt"} \subseteq Places
    BY DEF TypeOK, CoreTypeOK, Places
  <1>3. l \in Local /\ l.op = local[r].op
    BY <1>2 DEF Local
  <1>4. Only(r) /\ local'[r] = l
    BY <1>1, <1>3, WriteOnly
  <1> QED
    BY <1>2, <1>4 DEF Asked, Answer, Sees, Local

LEMMA DApprovedMoves ==
  ASSUME TypeOK, NEW r \in Requests, DiscloseApproved(r)
  PROVE  /\ Only(r)
         /\ local'[r].pc = IF local[r].unlocking THEN "adopt" ELSE "drelease"
         /\ local'[r].verdict = "allow" /\ local'[r].given = mek
         /\ local'[r].ret = local[r].ret /\ Asked(r) /\ Sees(r)
  <1> DEFINE l ==
        [local[r] EXCEPT !.pc = IF local[r].unlocking THEN "adopt" ELSE "drelease",
                         !.verdict = "allow",
                         !.given = mek]
  <1>1. local' = [local EXCEPT ![r] = l]
    BY Zenon DEF DiscloseApproved, Goto
  <1>2. local[r] \in Local /\ {"adopt", "drelease"} \subseteq Places /\ mek \in Nat
    BY DEF TypeOK, CoreTypeOK, Places
  <1>3. l \in Local /\ l.op = local[r].op
    BY <1>2 DEF Local
  <1>4. Only(r) /\ local'[r] = l
    BY <1>1, <1>3, WriteOnly
  <1> QED
    BY <1>2, <1>4 DEF Asked, Answer, Sees, Local

LEMMA DRefusedMoves ==
  ASSUME TypeOK, NEW r \in Requests, DiscloseRefused(r)
  PROVE  /\ Only(r) /\ local'[r].pc = "drelease" /\ local'[r].verdict = "deny"
         /\ local'[r].ret = local[r].ret /\ Asked(r)
         /\ local'[r].given = local[r].given /\ Sees(r)
  <1> DEFINE l == [local[r] EXCEPT !.pc = "drelease", !.verdict = "deny"]
  <1>1. local' = [local EXCEPT ![r] = l]
    BY Zenon DEF DiscloseRefused, Goto
  <1>2. local[r] \in Local /\ {"drelease"} \subseteq Places
    BY DEF TypeOK, CoreTypeOK, Places
  <1>3. l \in Local /\ l.op = local[r].op
    BY <1>2 DEF Local
  <1>4. Only(r) /\ local'[r] = l
    BY <1>1, <1>3, WriteOnly
  <1> QED
    BY <1>2, <1>4 DEF Asked, Answer, Sees, Local

LEMMA AdoptKeepsMoves ==
  ASSUME TypeOK, NEW r \in Requests, Adopt(r),
         Live
  PROVE  /\ Only(r) /\ local'[r].pc = "drain" /\ local'[r].ret = "drelease"
         /\ Asked(r) /\ Answer(r) /\ Sees(r)
  <1> DEFINE l == [local[r] EXCEPT !.pc = "drain", !.ret = "drelease"]
  <1>1. local' = [local EXCEPT ![r] = l]
    BY Zenon DEF Adopt, Goto
  <1>2. local[r] \in Local /\ {"drain", "drelease"} \subseteq Places
    BY DEF TypeOK, CoreTypeOK, Places
  <1>3. l \in Local /\ l.op = local[r].op
    BY <1>2 DEF Local
  <1>4. Only(r) /\ local'[r] = l
    BY <1>1, <1>3, WriteOnly
  <1> QED
    BY <1>2, <1>4 DEF Asked, Answer, Sees, Local

LEMMA AdoptOpensMoves ==
  ASSUME TypeOK, NEW r \in Requests, Adopt(r),
         ~Live
  PROVE  /\ Only(r) /\ local'[r].pc = "drain" /\ local'[r].ret = "drelease"
         /\ local'[r].given = opened + 1 /\ Asked(r)
         /\ local'[r].verdict = local[r].verdict /\ Sees(r)
  <1> DEFINE l ==
        [local[r] EXCEPT !.pc = "drain",
                         !.ret = "drelease",
                         !.given = opened + 1]
  <1>1. local' = [local EXCEPT ![r] = l]
    BY Zenon DEF Adopt, Goto
  <1>2. local[r] \in Local /\ {"drain", "drelease"} \subseteq Places
        /\ opened + 1 \in Nat
    BY DEF TypeOK, CoreTypeOK, Places
  <1>3. l \in Local /\ l.op = local[r].op
    BY <1>2 DEF Local
  <1>4. Only(r) /\ local'[r] = l
    BY <1>1, <1>3, WriteOnly
  <1> QED
    BY <1>2, <1>4 DEF Asked, Answer, Sees, Local

LEMMA ApprovedMoves ==
  ASSUME TypeOK, NEW r \in Requests, ChallengeApproved(r)
  PROVE  /\ Only(r) /\ local'[r].pc = "release" /\ local'[r].got = opened + 1
         /\ local'[r].verdict = "allow" /\ local'[r].ret = local[r].ret
         /\ Asked(r) /\ local'[r].given = local[r].given
  <1> DEFINE l ==
        [local[r] EXCEPT !.pc = "release",
                         !.got = opened + 1,
                         !.verdict = "allow"]
  <1>1. local' = [local EXCEPT ![r] = l]
    BY Zenon DEF ChallengeApproved, Goto
  <1>2. local[r] \in Local /\ {"release"} \subseteq Places /\ opened + 1 \in Nat
    BY DEF TypeOK, CoreTypeOK, Places
  <1>3. l \in Local /\ l.op = local[r].op
    BY <1>2 DEF Local
  <1>4. Only(r) /\ local'[r] = l
    BY <1>1, <1>3, WriteOnly
  <1> QED
    BY <1>2, <1>4 DEF Asked, Answer, Sees, Local

LEMMA ServeAwsMoves ==
  ASSUME TypeOK, NEW r \in Requests, ServeAws(r)
  PROVE  /\ Only(r) /\ local'[r].pc = "done" /\ local'[r].ret = local[r].ret
         /\ Asked(r) /\ Answer(r) /\ Sees(r)
  <1> DEFINE l ==
        [local[r] EXCEPT !.pc = "done",
                         !.data = IF local[r].held.id \in awsWiped THEN "zeroes" ELSE "credentials"]
  <1>1. local' = [local EXCEPT ![r] = l]
    BY Zenon DEF ServeAws, Goto
  <1>2. local[r] \in Local /\ {"done"} \subseteq Places
    BY DEF TypeOK, CoreTypeOK, Places
  <1>3. l \in Local /\ l.op = local[r].op
    BY <1>2 DEF Local
  <1>4. Only(r) /\ local'[r] = l
    BY <1>1, <1>3, WriteOnly
  <1> QED
    BY <1>2, <1>4 DEF Asked, Answer, Sees, Local

LEMMA AwsReadMoves ==
  ASSUME TypeOK, NEW r \in Requests, AwsRead(r)
  PROVE  /\ Only(r) /\ local'[r].pc \in {"gate", "done"}
         /\ local'[r].ret = local[r].ret /\ Asked(r) /\ Answer(r) /\ Sees(r)
  <1> DEFINE hit == /\ local[r].got # Locked
                    /\ awsCache.id # 0
                    /\ awsCache.expires >= now + AwsMargin
             l == [local[r] EXCEPT !.pc = IF hit THEN "gate" ELSE "done",
                                   !.held = awsCache]
  <1>1. local' = [local EXCEPT ![r] = l]
    BY Zenon DEF AwsRead
  <1> HIDE DEF hit
  <1>2. local[r] \in Local /\ {"gate", "done"} \subseteq Places
        /\ awsCache \in Credentials
    BY DEF TypeOK, CoreTypeOK, Places
  <1>3. l \in Local /\ l.op = local[r].op
    BY <1>2 DEF Local
  <1>4. Only(r) /\ local'[r] = l
    BY <1>1, <1>3, WriteOnly
  <1> QED
    BY <1>2, <1>4 DEF Asked, Answer, Sees, Local

LEMMA LockMoves ==
  ASSUME TypeOK, NEW r \in Requests, LockSession(r)
  PROVE  /\ Only(r) /\ local'[r].pc = "drainConsent"
         /\ local'[r].ret = "awsclear" /\ Asked(r) /\ Answer(r) /\ Sees(r)
  <1> DEFINE l == [local[r] EXCEPT !.pc = "drainConsent", !.ret = "awsclear"]
  <1>1. local' = [local EXCEPT ![r] = l]
    BY Zenon DEF LockSession, Goto
  <1>2. local[r] \in Local /\ {"drainConsent", "awsclear"} \subseteq Places
    BY DEF TypeOK, CoreTypeOK, Places
  <1>3. l \in Local /\ l.op = local[r].op
    BY <1>2 DEF Local
  <1>4. Only(r) /\ local'[r] = l
    BY <1>1, <1>3, WriteOnly
  <1> QED
    BY <1>2, <1>4 DEF Asked, Answer, Sees, Local

-----------------------------------------------------------------------------
(* Every operation stays on its path.                                      *)

Yes(o) == IF o = "trust" THEN "record" ELSE "remember"
No(o) == IF o = "trust" THEN "done" ELSE "check"
AllowedAt(o) == IF o = "awsget" THEN "served" ELSE "touch"

\* Where an operation o may go from p: p itself, or where it went to drain.
OnwardInGate(o, p, rt, u) ==
    /\ p = "gate" => PathAt(o, "drain", "descent", u)
    /\ p = "drain" => /\ PathAt(o, "drainConsent", rt, u)
                      /\ PathAt(o, rt, rt, u)
    /\ p = "drainConsent" => PathAt(o, "drainTrust", rt, u)
    /\ p = "drainTrust" => PathAt(o, rt, rt, u)
    /\ p = "descent" => /\ PathAt(o, AllowedAt(o), rt, u)
                        /\ PathAt(o, "lookup", rt, u)
    /\ p = "lookup" => /\ PathAt(o, AllowedAt(o), rt, u)
                       /\ PathAt(o, "throttle", rt, u)
    /\ p = "throttle" => /\ PathAt(o, "done", rt, u)
                         /\ PathAt(o, "join", rt, u)
    /\ p = "join" => /\ PathAt(o, "ready", rt, u)
                     /\ PathAt(o, "wait", rt, u)
    /\ p = "wait" => PathAt(o, "lookup", rt, u)
    /\ p = "ready" => PathAt(o, "dqueue", rt, u)
    /\ p = "remember" => PathAt(o, "check", rt, u)
    /\ p = "check" => /\ PathAt(o, "score", rt, u)
                      /\ PathAt(o, "finish", rt, u)
    /\ p = "score" => PathAt(o, "finish", rt, u)
    /\ p = "finish" => /\ PathAt(o, AllowedAt(o), rt, u)
                       /\ PathAt(o, "done", rt, u)

OnwardDisclosed(o, p, rt, u, v) ==
    /\ p = "dqueue" => /\ PathAt(o, No(o), rt, u)
                       /\ PathAt(o, IF o = "trust" THEN "dprompt" ELSE "offer", rt, u)
    /\ p = "offer" => PathAt(o, "drain", "dask", u)
    /\ p = "dask" => PathAt(o, "dprompt", rt, v)
    /\ p = "dprompt" => /\ PathAt(o, IF u THEN "adopt" ELSE "drelease", rt, u)
                        /\ PathAt(o, "drelease", rt, u)
    /\ p = "adopt" => PathAt(o, "drain", "drelease", u)
    /\ p = "drelease" => /\ PathAt(o, Yes(o), rt, u)
                         /\ PathAt(o, No(o), rt, u)
    /\ p = "record" => PathAt(o, "done", rt, u)

OnwardToKey(o, p, rt, u) ==
    /\ p = "touch" => PathAt(o, "drain", "touched", u)
    /\ p = "touched" => /\ PathAt(o, "served", rt, u)
                        /\ PathAt(o, "queue", rt, u)
    /\ p = "queue" => PathAt(o, "recheck", rt, u)
    /\ p = "recheck" => PathAt(o, "drain", "rechecked", u)
    /\ p = "rechecked" => /\ PathAt(o, "release", rt, u)
                          /\ PathAt(o, "ask", rt, u)
    /\ p = "ask" => /\ PathAt(o, "release", rt, u)
                    /\ PathAt(o, "prompt", rt, u)
    /\ p = "prompt" => PathAt(o, "release", rt, u)
    /\ p = "release" => /\ PathAt(o, "done", rt, u)
                        /\ PathAt(o, "served", rt, u)
                        /\ PathAt(o, "clearBackoff", rt, u)
    /\ p = "clearBackoff" => PathAt(o, "forgive", rt, u)
    /\ p = "forgive" => PathAt(o, "done", rt, u)

OnwardServed(o, p, rt, u) ==
    /\ p = "served" => PathAt(o, "done", rt, u)
    /\ p = "look" => PathAt(o, "drain", IF o = "awsget" THEN "read" ELSE "fill", u)
    /\ p = "read" => /\ PathAt(o, "gate", rt, u)
                     /\ PathAt(o, "done", rt, u)
    /\ p = "fill" => PathAt(o, "done", rt, u)
    /\ p = "awsclear" => PathAt(o, "done", rt, u)
    /\ p = "lock" => PathAt(o, "drainConsent", "awsclear", u)

Onward(o, p, rt, u, v) ==
    /\ OnwardInGate(o, p, rt, u) /\ OnwardDisclosed(o, p, rt, u, v)
    /\ OnwardToKey(o, p, rt, u) /\ OnwardServed(o, p, rt, u)

LEMMA Paths ==
  ASSUME NEW o \in AllOps \cup {"none"}, NEW p, NEW rt, NEW u, NEW v,
         PathAt(o, p, rt, u)
  PROVE  Onward(o, p, rt, u, v)
  <1>1. OnwardInGate(o, p, rt, u)
    BY DEF OnwardInGate, PathAt, Onto, Draining, GatePlaces, FlightPlaces, KeyPlaces,
       AllOps, Yes, No, AllowedAt
  <1>2. OnwardDisclosed(o, p, rt, u, v)
    BY DEF OnwardDisclosed, PathAt, Onto, Draining, GatePlaces, FlightPlaces, KeyPlaces,
       AllOps, Yes, No, AllowedAt
  <1>3. OnwardToKey(o, p, rt, u)
    BY DEF OnwardToKey, PathAt, Onto, Draining, GatePlaces, FlightPlaces, KeyPlaces,
       AllOps, Yes, No, AllowedAt
  <1>4. OnwardServed(o, p, rt, u)
    BY DEF OnwardServed, PathAt, Onto, Draining, GatePlaces, FlightPlaces, KeyPlaces,
       AllOps, Yes, No, AllowedAt
  <1> QED
    BY <1>1, <1>2, <1>3, <1>4 DEF Onward

LEMMA StepPath ==
  ASSUME TypeOK, NEW r \in Requests, PathOk(r), Step(r)
  PROVE  Only(r) /\ PathOk(r)'
  <1> DEFINE c == Class(r)
             o == local[r].op
             p == local[r].pc
             rt == local[r].ret
             u == local[r].unlocking
             v == local[r].got = Locked /\ ~CoolingDown
  <1>0. /\ p \in Places /\ rt \in Places /\ o \in AllOps \cup {"none"}
        /\ PathAt(o, p, rt, u)
    BY DEF TypeOK, Local, PathOk
  <1>a. Onward(o, p, rt, u, v)
    BY <1>0, Paths
  <1>b. /\ Allowed(r) = AllowedAt(o)
        /\ \A yes \in BOOLEAN : Answered(r, yes) = IF yes THEN Yes(o) ELSE No(o)
        /\ {AllowedAt(o), Yes(o), No(o)} \subseteq Places
    BY DEF Allowed, AllowedAt, Answered, Yes, No, Places
  <1>c. ASSUME NEW t \in Places, Goto(r, t), PathAt(o, t, rt, u)
        PROVE  Only(r) /\ PathOk(r)'
    BY <1>c, GotoMoves DEF Goes, Asked, PathOk, Only
  <1>d. ASSUME NEW n \in Places, PathAt(o, "drain", n, u),
               Peek(r, n) \/ TouchSession(r, n)
        PROVE  Only(r) /\ PathOk(r)'
    BY <1>d, LookMoves DEF Looks, Asked, PathOk, Only
  <1> USE DEF At, Onward, OnwardInGate, OnwardDisclosed, OnwardToKey, OnwardServed, Asked
  <1>1. CASE Gate(r)
    BY <1>0, <1>a, <1>d, <1>1 DEF Gate, Places
  <1>2. CASE Drain(r)
    BY <1>0, <1>a, <1>b, <1>c, <1>2 DEF Drain, Places
  <1>3. CASE DrainConsent(r)
    BY <1>0, <1>a, <1>b, <1>c, <1>3 DEF DrainConsent, Places
  <1>4. CASE DrainTrust(r)
    BY <1>0, <1>a, <1>b, <1>c, <1>4 DEF DrainTrust, Places
  <1>5. CASE GateDescent(r)
    <2>1. p = "descent"
      BY <1>5 DEF GateDescent
    <2>2. PathAt(o, AllowedAt(o), rt, u) /\ PathAt(o, "lookup", rt, u)
      BY <1>a, <2>1
    <2>3. /\ Only(r) /\ local'[r].pc \in {AllowedAt(o), "lookup"}
          /\ local'[r].ret = rt /\ local'[r].unlocking = u
      BY <1>b, <1>5, DescentMoves
    <2> QED
      BY <2>2, <2>3 DEF PathOk, Only
  <1>6. CASE GateLookup(r) /\ (c \notin Uncached /\ Servable(c))
    BY ZenonT(60), <1>a, <1>b, <1>6, LookupHitMoves DEF GateLookup, PathOk, Only
  <1>7. CASE GateLookup(r) /\ (~(c \notin Uncached /\ Servable(c)))
    BY <1>0, <1>a, <1>b, <1>c, <1>7 DEF GateLookup, Places
  <1>8. CASE GateThrottle(r) /\ (now < refusals[c].until)
    BY <1>a, <1>b, <1>8, ThrottledMoves DEF GateThrottle, PathOk, Only
  <1>9. CASE GateThrottle(r) /\ (~(now < refusals[c].until))
    BY <1>0, <1>a, <1>b, <1>c, <1>9 DEF GateThrottle, Places
  <1>10. CASE GateJoin(r) /\ (pending[c] # NoOne)
    BY <1>a, <1>b, <1>10, JoinWaits DEF GateJoin, PathOk, Only
  <1>11. CASE GateJoin(r) /\ (pending[c] = NoOne)
    BY <1>0, <1>a, <1>b, <1>c, <1>11 DEF GateJoin, Places
  <1>12. CASE GateWait(r)
    BY <1>a, <1>b, <1>12, WaitMoves DEF GateWait, PathOk, Only
  <1>13. CASE GateReady(r)
    BY <1>a, <1>b, <1>13, ReadyMoves DEF GateReady, PathOk, Only
  <1>14. CASE Remember(r)
    BY <1>0, <1>a, <1>b, <1>c, <1>14 DEF Remember, Places
  <1>15. CASE GateCheck(r)
    BY <1>0, <1>a, <1>b, <1>c, <1>15 DEF GateCheck, Places
  <1>16. CASE GateScore(r)
    BY <1>0, <1>a, <1>b, <1>c, <1>16 DEF GateScore, Places
  <1>17. CASE GateFinish(r)
    BY <1>0, <1>a, <1>b, <1>c, <1>17 DEF GateFinish, Places
  <1>18. CASE DiscloseTurnedAway(r)
    BY ZenonT(60), <1>a, <1>b, <1>18, TurnedAwayMoves DEF DiscloseTurnedAway, PathOk, Only
  <1>19. CASE DiscloseLock(r)
    BY <1>0, <1>a, <1>b, <1>c, <1>19 DEF DiscloseLock, Places
  <1>20. CASE DisclosePeek(r)
    BY <1>0, <1>a, <1>d, <1>20 DEF DisclosePeek, Places
  <1>21. CASE DiscloseAsk(r)
    BY <1>a, <1>b, <1>21, DAskMoves DEF DiscloseAsk, PathOk, Only
  <1>22. CASE DiscloseApproved(r)
    BY <1>a, <1>b, <1>22, DApprovedMoves DEF DiscloseApproved, PathOk, Only
  <1>23. CASE DiscloseRefused(r)
    BY <1>a, <1>b, <1>23, DRefusedMoves DEF DiscloseRefused, PathOk, Only
  <1>24. CASE Adopt(r) /\ (Live)
    BY <1>a, <1>b, <1>24, AdoptKeepsMoves DEF Adopt, PathOk, Only
  <1>25. CASE Adopt(r) /\ (~Live)
    BY <1>a, <1>b, <1>25, AdoptOpensMoves DEF Adopt, PathOk, Only
  <1>26. CASE DiscloseRelease(r)
    BY <1>0, <1>a, <1>b, <1>c, <1>26 DEF DiscloseRelease, Places
  <1>27. CASE RecordTrust(r)
    BY <1>0, <1>a, <1>b, <1>c, <1>27 DEF RecordTrust, Places
  <1>28. CASE EnsureTouch(r)
    BY <1>0, <1>a, <1>d, <1>28 DEF EnsureTouch, Places
  <1>29. CASE EnsureTouched(r)
    BY <1>0, <1>a, <1>b, <1>c, <1>29 DEF EnsureTouched, Places
  <1>30. CASE ChallengeLock(r)
    BY <1>0, <1>a, <1>b, <1>c, <1>30 DEF ChallengeLock, Places
  <1>31. CASE ChallengeRetouch(r)
    BY <1>0, <1>a, <1>d, <1>31 DEF ChallengeRetouch, Places
  <1>32. CASE ChallengeRechecked(r)
    BY <1>0, <1>a, <1>b, <1>c, <1>32 DEF ChallengeRechecked, Places
  <1>33. CASE ChallengeAsk(r)
    BY <1>0, <1>a, <1>b, <1>c, <1>33 DEF ChallengeAsk, Places
  <1>34. CASE ChallengeApproved(r)
    BY <1>a, <1>b, <1>34, ApprovedMoves DEF ChallengeApproved, PathOk, Only
  <1>35. CASE ChallengeRefused(r)
    BY <1>0, <1>a, <1>b, <1>c, <1>35 DEF ChallengeRefused, Places
  <1>36. CASE ChallengeRelease(r)
    BY <1>0, <1>a, <1>b, <1>c, <1>36 DEF ChallengeRelease, Places
  <1>37. CASE ClearBackoff(r)
    BY <1>0, <1>a, <1>b, <1>c, <1>37 DEF ClearBackoff, Places
  <1>38. CASE ClearDiscloseBackoff(r)
    BY <1>0, <1>a, <1>b, <1>c, <1>38 DEF ClearDiscloseBackoff, Places
  <1>39. CASE ServeUnwrap(r)
    BY <1>0, <1>a, <1>b, <1>c, <1>39 DEF ServeUnwrap, Places
  <1>40. CASE ServeAws(r)
    BY <1>a, <1>b, <1>40, ServeAwsMoves DEF ServeAws, PathOk, Only
  <1>41. CASE AwsLook(r)
    BY <1>0, <1>a, <1>d, <1>41 DEF AwsLook, Places
  <1>42. CASE AwsRead(r)
    BY <1>a, <1>b, <1>42, AwsReadMoves DEF AwsRead, PathOk, Only
  <1>43. CASE AwsFill(r)
    BY <1>0, <1>a, <1>b, <1>c, <1>43 DEF AwsFill, Places
  <1>44. CASE AwsClear(r)
    BY <1>0, <1>a, <1>b, <1>c, <1>44 DEF AwsClear, Places
  <1>45. CASE LockSession(r)
    BY <1>a, <1>b, <1>45, LockMoves DEF LockSession, PathOk, Only
  <1> QED
    BY <1>1, <1>2, <1>3, <1>4, <1>5, <1>6, <1>7, <1>8, <1>9, <1>10,
       <1>11, <1>12, <1>13, <1>14, <1>15, <1>16, <1>17, <1>18, <1>19,
       <1>20, <1>21, <1>22, <1>23, <1>24, <1>25, <1>26, <1>27, <1>28,
       <1>29, <1>30, <1>31, <1>32, <1>33, <1>34, <1>35, <1>36, <1>37,
       <1>38, <1>39, <1>40, <1>41, <1>42, <1>43, <1>44, <1>45 DEF Step

-----------------------------------------------------------------------------
(* Who holds challengeMu, and what it may count on.                        *)

\* What a step of r does to challengeMu.
Keeps(r) == challenger' = challenger /\ (HeldAt(Where(r)') <=> HeldAt(Where(r)))
Acquires(r) == challenger = NoOne /\ challenger' = r /\ HeldAt(Where(r)')
Releases(r) == HeldAt(Where(r)) /\ challenger' = NoOne /\ ~HeldAt(Where(r)')
Holds(r) ==
    /\ Keeps(r) \/ Acquires(r) \/ Releases(r)
    /\ CountsOnLocked(r)' => mek' = Locked

LEMMA StepHolds ==
  ASSUME TypeOK, NEW r \in Requests, PathOk(r), HolderOk(r), Step(r)
  PROVE  Holds(r)
  <1> DEFINE c == Class(r)
             o == local[r].op
             p == local[r].pc
             rt == local[r].ret
  <1>0. /\ p \in Places /\ rt \in Places /\ o \in AllOps \cup {"none"}
        /\ rt \notin Draining
    BY DEF TypeOK, Local, PathOk, PathAt
  <1>b. /\ Allowed(r) = AllowedAt(o)
        /\ \A yes \in BOOLEAN : Answered(r, yes) = IF yes THEN Yes(o) ELSE No(o)
        /\ {AllowedAt(o), Yes(o), No(o)} \subseteq Places
        /\ {AllowedAt(o), Yes(o), No(o)} \cap (HeldPlaces \cup Draining) = {}
    BY DEF Allowed, AllowedAt, Answered, Yes, No, Places, HeldPlaces, Draining
  <1>c. ASSUME NEW t \in Places, Goto(r, t), UNCHANGED <<challenger, mek>>,
               HeldAt(Onto(t, rt)) <=> HeldAt(Where(r)),
               CountsAt(Onto(t, rt), local[r].got = Locked, local[r].unlocking) => CountsOnLocked(r)
        PROVE  Holds(r)
    BY <1>c, GotoMoves
    DEF Goes, Asked, Sees, Holds, Keeps, Where, Onto, CountsOnLocked, HolderOk
  <1>d. ASSUME NEW n \in Places, UNCHANGED challenger, n \notin Draining,
               HeldAt(n) <=> HeldAt(Where(r)),
               n \notin {"ask", "prompt", "adopt", "dprompt"},
               Peek(r, n) \/ TouchSession(r, n)
        PROVE  Holds(r)
    <2>1. Looks(r, n)
      BY <1>d, LookMoves
    <2>2. Where(r)' = n
      BY <2>1 DEF Looks, Where, Onto, Draining
    <2>3. CountsOnLocked(r)' => local'[r].got = Locked
      BY <1>d, <2>2 DEF CountsOnLocked, CountsAt
    <2> QED
      BY <1>d, <2>1, <2>2, <2>3 DEF Looks, Holds, Keeps
  <1>e. /\ {"descent", "dask", "touched", "rechecked", "read", "fill"} \subseteq Places
        /\ ~HeldAt("descent") /\ ~HeldAt("touched") /\ ~HeldAt("read") /\ ~HeldAt("fill")
        /\ HeldAt("dask") /\ HeldAt("rechecked")
        /\ Onto("gate", rt) = "gate" /\ ~HeldAt("gate")
        /\ Onto("touch", rt) = "touch" /\ ~HeldAt("touch")
        /\ Onto("look", rt) = "look" /\ ~HeldAt("look")
        /\ Onto("offer", rt) = "offer" /\ HeldAt("offer")
        /\ Onto("recheck", rt) = "recheck" /\ HeldAt("recheck")
        /\ \A n \in {"descent", "dask", "touched", "rechecked", "read", "fill"} :
              n \notin Draining /\ n \notin {"ask", "prompt", "adopt", "dprompt"}
    BY DEF Places, HeldAt, HeldPlaces, Onto, Draining
  <1> USE DEF At
  <1>1. CASE Gate(r)
    BY <1>d, <1>e, <1>1
    DEF Gate, Peek, TouchSession, challengeVars, Where
  <1>2. CASE Drain(r)
    BY <1>0, <1>c, <1>2
    DEF Drain, coreVars, challengeVars, Places, Where, Onto, Draining,
        CountsOnLocked
  <1>3. CASE DrainConsent(r)
    BY <1>0, <1>c, <1>3
    DEF DrainConsent, coreVars, challengeVars, Places, Where, Onto, Draining,
        CountsOnLocked
  <1>4. CASE DrainTrust(r)
    BY SMTT(60), <1>0, <1>b, <1>c, <1>4
    DEF DrainTrust, coreVars, challengeVars, Places, Deny,
        HeldAt, HeldPlaces, CountsAt, CountsOnLocked, Where, Onto, Draining
  <1>5. CASE GateDescent(r)
    BY ZenonT(60), <1>0, <1>b, <1>5, DescentMoves
    DEF GateDescent, HolderOk, coreVars, challengeVars, Holds, Keeps, Asked, Sees,
        HeldAt, HeldPlaces, CountsAt, CountsOnLocked, Where, Onto, Draining
  <1>6. CASE GateLookup(r) /\ (c \notin Uncached /\ Servable(c))
    BY <1>0, <1>b, <1>6, LookupHitMoves
    DEF GateLookup, HolderOk, coreVars, challengeVars, Holds, Keeps, Asked, Sees,
        HeldAt, HeldPlaces, CountsAt, CountsOnLocked, Where, Onto, Draining
  <1>7. CASE GateLookup(r) /\ (~(c \notin Uncached /\ Servable(c)))
    BY <1>0, <1>b, <1>c, <1>7
    DEF GateLookup, coreVars, challengeVars, Places, Deny,
        HeldAt, HeldPlaces, CountsAt, CountsOnLocked, Where, Onto, Draining
  <1>8. CASE GateThrottle(r) /\ (now < refusals[c].until)
    BY <1>0, <1>b, <1>8, ThrottledMoves
    DEF GateThrottle, HolderOk, coreVars, challengeVars, Holds, Keeps, Asked, Sees,
        HeldAt, HeldPlaces, CountsAt, CountsOnLocked, Where, Onto, Draining
  <1>9. CASE GateThrottle(r) /\ (~(now < refusals[c].until))
    BY <1>0, <1>b, <1>c, <1>9
    DEF GateThrottle, coreVars, challengeVars, Places, Deny,
        HeldAt, HeldPlaces, CountsAt, CountsOnLocked, Where, Onto, Draining
  <1>10. CASE GateJoin(r) /\ (pending[c] # NoOne)
    BY <1>0, <1>b, <1>10, JoinWaits
    DEF GateJoin, HolderOk, coreVars, challengeVars, Holds, Keeps, Asked, Sees,
        HeldAt, HeldPlaces, CountsAt, CountsOnLocked, Where, Onto, Draining
  <1>11. CASE GateJoin(r) /\ (pending[c] = NoOne)
    BY <1>0, <1>b, <1>c, <1>11
    DEF GateJoin, coreVars, challengeVars, Places, Deny,
        HeldAt, HeldPlaces, CountsAt, CountsOnLocked, Where, Onto, Draining
  <1>12. CASE GateWait(r)
    BY <1>0, <1>b, <1>12, WaitMoves
    DEF GateWait, HolderOk, coreVars, challengeVars, Holds, Keeps, Asked, Sees,
        HeldAt, HeldPlaces, CountsAt, CountsOnLocked, Where, Onto, Draining
  <1>13. CASE GateReady(r)
    BY <1>0, <1>b, <1>13, ReadyMoves
    DEF GateReady, HolderOk, coreVars, challengeVars, Holds, Keeps, Asked, Sees,
        HeldAt, HeldPlaces, CountsAt, CountsOnLocked, Where, Onto, Draining
  <1>14. CASE Remember(r)
    BY <1>0, <1>b, <1>c, <1>14
    DEF Remember, coreVars, challengeVars, Places, Deny,
        HeldAt, HeldPlaces, CountsAt, CountsOnLocked, Where, Onto, Draining
  <1>15. CASE GateCheck(r)
    BY <1>0, <1>b, <1>c, <1>15
    DEF GateCheck, coreVars, challengeVars, Places, Deny,
        HeldAt, HeldPlaces, CountsAt, CountsOnLocked, Where, Onto, Draining
  <1>16. CASE GateScore(r)
    BY <1>0, <1>b, <1>c, <1>16
    DEF GateScore, coreVars, challengeVars, Places, Deny,
        HeldAt, HeldPlaces, CountsAt, CountsOnLocked, Where, Onto, Draining
  <1>17. CASE GateFinish(r)
    <2> DEFINE t == IF local[r].verdict = "allow" THEN AllowedAt(o) ELSE "done"
    <2>1. p = "finish" /\ Goto(r, t) /\ UNCHANGED <<challenger, mek>>
      BY <1>b, <1>17 DEF GateFinish, coreVars, challengeVars
    <2>2. t \in Places /\ ~HeldAt(Onto(t, rt)) /\ Onto(t, rt) \in {"touch", "served", "done"}
      BY DEF AllowedAt, Places, HeldAt, HeldPlaces, Onto, Draining
    <2>3. ~HeldAt(Where(r))
      BY <2>1 DEF HeldAt, HeldPlaces, Where, Onto, Draining
    <2>4. ~CountsAt(Onto(t, rt), local[r].got = Locked, local[r].unlocking)
      BY <2>2 DEF CountsAt
    <2> HIDE DEF t
    <2> QED
      BY <1>c, <2>1, <2>2, <2>3, <2>4
  <1>18. CASE DiscloseTurnedAway(r)
    BY <1>0, <1>b, <1>18, TurnedAwayMoves
    DEF DiscloseTurnedAway, HolderOk, coreVars, challengeVars, Holds, Keeps, Asked, Sees,
        HeldAt, HeldPlaces, CountsAt, CountsOnLocked, Where, Onto, Draining
  <1>19. CASE DiscloseLock(r)
    <2> DEFINE t == IF o = "trust" THEN "dprompt" ELSE "offer"
    <2>1. p = "dqueue" /\ Goto(r, t) /\ challenger = NoOne /\ challenger' = r
      BY <1>19 DEF DiscloseLock
    <2>2. t \in Places /\ HeldAt(t) /\ t \notin Draining
          /\ (CountsAt(t, local[r].got = Locked, local[r].unlocking) =>
                o = "trust" /\ local[r].unlocking)
      BY DEF Places, HeldAt, HeldPlaces, Draining, CountsAt
    <2>3. ~(o = "trust" /\ local[r].unlocking)
      BY DEF PathOk, PathAt
    <2> HIDE DEF t
    <2>4. Goes(r, t)
      BY <2>1, <2>2, GotoMoves
    <2>5. Where(r)' = t
      BY <2>2, <2>4 DEF Goes, Where, Onto
    <2> QED
      BY <2>1, <2>2, <2>3, <2>4, <2>5
      DEF Goes, Asked, Sees, Holds, Acquires, CountsOnLocked
  <1>20. CASE DisclosePeek(r)
    <2>1. p = "offer" /\ Peek(r, "dask") /\ UNCHANGED challenger
      BY <1>20 DEF DisclosePeek, Peek, challengeVars
    <2>2. HeldAt(Where(r)) /\ HeldAt("dask")
      BY <1>e, <2>1 DEF Where
    <2> QED
      BY <1>d, <1>e, <2>1, <2>2
  <1>21. CASE DiscloseAsk(r)
    BY <1>0, <1>b, <1>21, DAskMoves
    DEF DiscloseAsk, HolderOk, coreVars, challengeVars, Holds, Keeps, Asked, Sees,
        HeldAt, HeldPlaces, CountsAt, CountsOnLocked, Where, Onto, Draining
  <1>22. CASE DiscloseApproved(r)
    <2>1. p = "dprompt" /\ UNCHANGED <<challenger, mek>>
      BY <1>22 DEF DiscloseApproved, coreVars
    <2>2. Where(r) = "dprompt" /\ HeldAt(Where(r))
      BY <2>1 DEF HeldAt, HeldPlaces, Where, Onto, Draining
    <2>3. CASE local[r].unlocking
      <3>1. mek = Locked
        BY <2>2, <2>3 DEF HolderOk, CountsOnLocked, CountsAt
      <3>2. Where(r)' = "adopt" /\ HeldAt("adopt")
        BY <1>22, <2>3, DApprovedMoves DEF HeldAt, HeldPlaces, Where, Onto, Draining
      <3> QED
        BY <2>1, <2>2, <3>1, <3>2 DEF Holds, Keeps
    <2>4. CASE ~local[r].unlocking
      <3>1. Where(r)' = "drelease" /\ HeldAt("drelease")
        BY <1>22, <2>4, DApprovedMoves DEF HeldAt, HeldPlaces, Where, Onto, Draining
      <3>2. ~CountsOnLocked(r)'
        BY <3>1 DEF CountsOnLocked, CountsAt
      <3> QED
        BY <2>1, <2>2, <3>1, <3>2 DEF Holds, Keeps
    <2> QED
      BY <2>3, <2>4
  <1>23. CASE DiscloseRefused(r)
    BY <1>0, <1>b, <1>23, DRefusedMoves
    DEF DiscloseRefused, HolderOk, coreVars, challengeVars, Holds, Keeps, Asked, Sees,
        HeldAt, HeldPlaces, CountsAt, CountsOnLocked, Where, Onto, Draining
  <1>24. CASE Adopt(r) /\ (Live)
    BY <1>0, <1>b, <1>24, AdoptKeepsMoves
    DEF Adopt, HolderOk, coreVars, challengeVars, Holds, Keeps, Asked, Sees,
        HeldAt, HeldPlaces, CountsAt, CountsOnLocked, Where, Onto, Draining
  <1>25. CASE Adopt(r) /\ (~Live)
    BY <1>0, <1>b, <1>25, AdoptOpensMoves
    DEF Adopt, HolderOk, coreVars, challengeVars, Holds, Keeps, Asked, Sees,
        HeldAt, HeldPlaces, CountsAt, CountsOnLocked, Where, Onto, Draining
  <1>26. CASE DiscloseRelease(r)
    <2> DEFINE t == Answered(r, local[r].verdict = "allow")
    <2>1. p = "drelease" /\ Goto(r, t) /\ challenger' = NoOne
      BY <1>26, Zenon DEF DiscloseRelease
    <2>2. t \in {Yes(o), No(o)}
      BY <1>b
    <2>3. t \in Places /\ t \in {"remember", "check", "record", "done"}
      BY <1>b, <2>2 DEF Yes, No
    <2> HIDE DEF t
    <2>4. ~HeldAt(t) /\ t \notin Draining
          /\ ~CountsAt(t, local[r].got = Locked, local[r].unlocking)
      BY <2>3 DEF HeldAt, HeldPlaces, Draining, CountsAt
    <2>5. Goes(r, t)
      BY <2>1, <2>3, GotoMoves
    <2>6. Where(r)' = t
      BY <2>4, <2>5 DEF Goes, Where, Onto
    <2>7. HeldAt(Where(r))
      BY <2>1 DEF HeldAt, HeldPlaces, Where, Onto, Draining
    <2> QED
      BY <2>1, <2>4, <2>5, <2>6, <2>7
      DEF Goes, Asked, Sees, Holds, Releases, CountsOnLocked
  <1>27. CASE RecordTrust(r)
    BY <1>0, <1>b, <1>c, <1>27
    DEF RecordTrust, coreVars, challengeVars, Places, Deny,
        HeldAt, HeldPlaces, CountsAt, CountsOnLocked, Where, Onto, Draining
  <1>28. CASE EnsureTouch(r)
    BY <1>d, <1>e, <1>28
    DEF EnsureTouch, Peek, TouchSession, challengeVars, Where
  <1>29. CASE EnsureTouched(r)
    BY <1>0, <1>b, <1>c, <1>29
    DEF EnsureTouched, coreVars, challengeVars, Places, Deny,
        HeldAt, HeldPlaces, CountsAt, CountsOnLocked, Where, Onto, Draining
  <1>30. CASE ChallengeLock(r)
    BY <1>0, <1>b, GotoMoves, <1>30
    DEF ChallengeLock, coreVars, Holds, Acquires, Releases, Goes, Places,
        HeldAt, HeldPlaces, CountsAt, CountsOnLocked, Where, Onto, Draining
  <1>31. CASE ChallengeRetouch(r)
    <2>1. p = "recheck" /\ TouchSession(r, "rechecked") /\ UNCHANGED challenger
      BY <1>31 DEF ChallengeRetouch, TouchSession, challengeVars
    <2>2. HeldAt(Where(r)) /\ HeldAt("rechecked")
      BY <1>e, <2>1 DEF Where
    <2> QED
      BY <1>d, <1>e, <2>1, <2>2
  <1>32. CASE ChallengeRechecked(r)
    BY <1>0, <1>b, <1>c, <1>32
    DEF ChallengeRechecked, coreVars, challengeVars, Places, Deny,
        HeldAt, HeldPlaces, CountsAt, CountsOnLocked, Where, Onto, Draining
  <1>33. CASE ChallengeAsk(r)
    BY <1>0, <1>b, <1>c, <1>33
    DEF ChallengeAsk, coreVars, challengeVars, Places, Deny,
        HeldAt, HeldPlaces, CountsAt, CountsOnLocked, Where, Onto, Draining
  <1>34. CASE ChallengeApproved(r)
    BY <1>0, <1>b, <1>34, ApprovedMoves
    DEF ChallengeApproved, HolderOk, coreVars, challengeVars, Holds, Keeps, Asked, Sees,
        HeldAt, HeldPlaces, CountsAt, CountsOnLocked, Where, Onto, Draining
  <1>35. CASE ChallengeRefused(r)
    BY <1>0, <1>b, <1>c, <1>35
    DEF ChallengeRefused, coreVars, challengeVars, Places, Deny,
        HeldAt, HeldPlaces, CountsAt, CountsOnLocked, Where, Onto, Draining
  <1>36. CASE ChallengeRelease(r)
    BY ZenonT(60), <1>0, <1>b, GotoMoves, <1>36
    DEF ChallengeRelease, coreVars, Holds, Acquires, Releases, Goes, Places,
        HeldAt, HeldPlaces, CountsAt, CountsOnLocked, Where, Onto, Draining
  <1>37. CASE ClearBackoff(r)
    BY <1>0, <1>b, <1>c, <1>37
    DEF ClearBackoff, coreVars, challengeVars, Places, Deny,
        HeldAt, HeldPlaces, CountsAt, CountsOnLocked, Where, Onto, Draining
  <1>38. CASE ClearDiscloseBackoff(r)
    BY <1>0, <1>b, <1>c, <1>38
    DEF ClearDiscloseBackoff, coreVars, challengeVars, Places, Deny,
        HeldAt, HeldPlaces, CountsAt, CountsOnLocked, Where, Onto, Draining
  <1>39. CASE ServeUnwrap(r)
    BY <1>0, <1>b, <1>c, <1>39
    DEF ServeUnwrap, coreVars, challengeVars, Places, Deny,
        HeldAt, HeldPlaces, CountsAt, CountsOnLocked, Where, Onto, Draining
  <1>40. CASE ServeAws(r)
    BY <1>0, <1>b, <1>40, ServeAwsMoves
    DEF ServeAws, HolderOk, coreVars, challengeVars, Holds, Keeps, Asked, Sees,
        HeldAt, HeldPlaces, CountsAt, CountsOnLocked, Where, Onto, Draining
  <1>41. CASE AwsLook(r)
    BY <1>d, <1>e, <1>41
    DEF AwsLook, Peek, TouchSession, challengeVars, Where
  <1>42. CASE AwsRead(r)
    BY <1>0, <1>b, <1>42, AwsReadMoves
    DEF AwsRead, HolderOk, coreVars, challengeVars, Holds, Keeps, Asked, Sees,
        HeldAt, HeldPlaces, CountsAt, CountsOnLocked, Where, Onto, Draining
  <1>43. CASE AwsFill(r)
    BY <1>0, <1>b, <1>c, <1>43
    DEF AwsFill, coreVars, challengeVars, Places, Deny,
        HeldAt, HeldPlaces, CountsAt, CountsOnLocked, Where, Onto, Draining
  <1>44. CASE AwsClear(r)
    BY <1>0, <1>b, <1>c, <1>44
    DEF AwsClear, coreVars, challengeVars, Places, Deny,
        HeldAt, HeldPlaces, CountsAt, CountsOnLocked, Where, Onto, Draining
  <1>45. CASE LockSession(r)
    BY <1>0, <1>b, <1>45, LockMoves
    DEF LockSession, HolderOk, coreVars, challengeVars, Holds, Keeps, Asked, Sees,
        HeldAt, HeldPlaces, CountsAt, CountsOnLocked, Where, Onto, Draining
  <1> QED
    BY <1>1, <1>2, <1>3, <1>4, <1>5, <1>6, <1>7, <1>8, <1>9, <1>10,
       <1>11, <1>12, <1>13, <1>14, <1>15, <1>16, <1>17, <1>18, <1>19,
       <1>20, <1>21, <1>22, <1>23, <1>24, <1>25, <1>26, <1>27, <1>28,
       <1>29, <1>30, <1>31, <1>32, <1>33, <1>34, <1>35, <1>36, <1>37,
       <1>38, <1>39, <1>40, <1>41, <1>42, <1>43, <1>44, <1>45 DEF Step

-----------------------------------------------------------------------------
(* What a step does to the session, and to what is owed for the sessions   *)
(* that ended.                                                             *)

SessionKept == mek' = mek /\ opened' = opened /\ session' = session
SessionOpens == /\ mek = Locked /\ mek' = opened + 1
                /\ opened' = opened + 1 /\ session' = session + 1
SessionEnds == /\ mek' = Locked /\ opened' = opened /\ session' = session
               /\ ConsentOwed' /\ (AwsOwed' \/ mek \in collected')
SessionStep == SessionKept \/ SessionOpens \/ SessionEnds

Cleared == cache' = [c \in Classes |-> NoEntry] /\ clears' = clears + 1
Wiped == awsCache' = NoCredentials /\ awsProofs' = {}
OwedStep ==
    /\ ConsentOwed => ConsentOwed' \/ Cleared
    /\ TrustOwed => TrustOwed' \/ trustRoots' = {}
    /\ AwsOwed => AwsOwed' \/ Wiped
    /\ collected \subseteq collected'

\* A request that is not at clearing leaves what is owed alone.
LEMMA OwedKept ==
  ASSUME NEW r \in Requests, Only(r), tails' = tails, lockParked => lockParked',
         collected \subseteq collected',
         local[r].pc \notin {"drainConsent", "drainTrust", "awsclear"}
  PROVE  OwedStep
  <1>1. \A q \in Requests :
           local[q].pc \in {"drainConsent", "drainTrust", "awsclear"}
             => local'[q] = local[q]
    BY DEF Only
  <1>2. ConsentOwed => ConsentOwed'
    BY <1>1 DEF ConsentOwed
  <1>3. TrustOwed => TrustOwed'
    BY <1>1, <1>2 DEF TrustOwed
  <1>4. AwsOwed => AwsOwed'
    BY <1>1 DEF AwsOwed
  <1> QED
    BY <1>2, <1>3, <1>4 DEF OwedStep

LEMMA QuietOwes ==
  ASSUME NEW r \in Requests, Only(r), UNCHANGED <<coreVars, session, lockVars>>,
         local[r].pc \notin {"drainConsent", "drainTrust", "awsclear"}
  PROVE  SessionStep /\ OwedStep
  <1>1. /\ tails' = tails /\ lockParked' = lockParked /\ collected' = collected
        /\ mek' = mek /\ opened' = opened /\ session' = session
    BY DEF coreVars, lockVars
  <1> QED
    BY <1>1, OwedKept DEF SessionStep, SessionKept

LEMMA LookOwes ==
  ASSUME TypeOK, NEW r \in Requests, NEW next \in Places,
         Peek(r, next) \/ TouchSession(r, next),
         local[r].pc \notin {"drainConsent", "drainTrust", "awsclear"}
  PROVE  SessionStep /\ OwedStep /\ [CoreNext]_coreVars
  <1>1. Only(r)
    BY LookMoves DEF Looks
  <1>2. session' = session
    BY DEF Peek, TouchSession, engineVars
  <1>3. CASE UNCHANGED <<coreVars, lockVars>>
    BY <1>1, <1>2, <1>3, QuietOwes
  <1>4. CASE Touch /\ UNCHANGED lockVars
    <2>1. /\ tails' = tails /\ lockParked' = lockParked /\ collected' = collected
          /\ mek' = mek /\ opened' = opened
      BY <1>4 DEF Touch, lockVars
    <2> QED
      BY <1>1, <1>2, <1>4, <2>1, OwedKept DEF SessionStep, SessionKept, CoreNext
  <1>5. CASE CollectSession
    <2>1. /\ tails' = tails /\ lockParked' /\ collected' = collected \cup {mek}
          /\ mek' = Locked /\ opened' = opened
      BY <1>5 DEF CollectSession, Collect
    <2>2. ConsentOwed'
      BY <2>1 DEF ConsentOwed
    <2> QED
      BY <1>1, <1>2, <1>5, <2>1, <2>2, OwedKept
      DEF SessionStep, SessionEnds, CollectSession, CoreNext
  <1> QED
    BY <1>3, <1>4, <1>5, Zenon DEF Peek, TouchSession, FindLocked

LEMMA OpenOwes ==
  ASSUME TypeOK, NEW r \in Requests, Only(r), mek = Locked, InstallSession,
         tails' = tails, lockParked => lockParked', collected' = collected,
         local[r].pc \notin {"drainConsent", "drainTrust", "awsclear"}
  PROVE  SessionStep /\ OwedStep /\ [CoreNext]_coreVars
  <1>1. /\ mek' = opened + 1 /\ opened' = opened + 1 /\ session' = session + 1
    BY DEF InstallSession, Install
  <1> QED
    BY <1>1, OwedKept DEF SessionStep, SessionOpens, CoreNext, InstallSession

LEMMA StepOwes ==
  ASSUME TypeOK, NEW r \in Requests, PathOk(r), HolderOk(r), Step(r)
  PROVE  SessionStep /\ OwedStep /\ [CoreNext]_coreVars
  <1>0. Only(r)
    BY StepPath
  <1> DEFINE p == local[r].pc
             away == p \notin {"drainConsent", "drainTrust", "awsclear"}
  <1>1. CASE Gate(r) \/ DisclosePeek(r) \/ AwsLook(r)
    <2>1. away /\ \E n \in {"descent", "dask", "read", "fill"} : Peek(r, n)
      BY <1>1 DEF Gate, DisclosePeek, AwsLook, At
    <2>2. {"descent", "dask", "read", "fill"} \subseteq Places
      BY DEF Places
    <2> QED
      BY <2>1, <2>2, LookOwes
  <1>2. CASE EnsureTouch(r) \/ ChallengeRetouch(r)
    <2>1. away /\ \E n \in {"touched", "rechecked"} : TouchSession(r, n)
      BY <1>2 DEF EnsureTouch, ChallengeRetouch, At
    <2>2. {"touched", "rechecked"} \subseteq Places
      BY DEF Places
    <2> QED
      BY <2>1, <2>2, LookOwes
  <1>3. CASE Drain(r)
    <2> DEFINE t == IF lockParked THEN "drainConsent" ELSE local[r].ret
    <2>1. /\ p = "drain" /\ ~lockParked' /\ Goto(r, t)
          /\ UNCHANGED <<coreVars, session, tails, collected, trustRoots>>
      BY <1>3 DEF Drain, At, engineVars
    <2>2. t \in Places
      BY DEF TypeOK, Local, Places
    <2>3. local'[r].pc = t
      BY <2>1, <2>2, GotoMoves DEF Goes
    <2>4. \A q \in Requests : q # r => local'[q] = local[q]
      BY <1>0 DEF Only
    <2>5. ConsentOwed => ConsentOwed'
      BY <2>1, <2>3, <2>4 DEF ConsentOwed
    <2>6. TrustOwed => TrustOwed'
      BY <2>1, <2>4, <2>5 DEF TrustOwed
    <2>7. AwsOwed => AwsOwed'
      BY <2>1, <2>4 DEF AwsOwed
    <2> QED
      BY <2>1, <2>5, <2>6, <2>7 DEF SessionStep, SessionKept, OwedStep, coreVars
  <1>4. CASE DrainConsent(r)
    <2>1. p = "drainConsent" /\ Goto(r, "drainTrust") /\ Cleared
          /\ UNCHANGED <<coreVars, session, lockVars, trustRoots>>
      BY <1>4 DEF DrainConsent, At, EngineClear, Cleared
    <2>2. local'[r].pc = "drainTrust" /\ local'[r].op = local[r].op
      BY <2>1, GotoMoves DEF Goes, Only, Places
    <2>3. \A q \in Requests : q # r => local'[q] = local[q]
      BY <1>0 DEF Only
    <2>4. TrustOwed'
      BY <2>2 DEF TrustOwed
    <2>5. AwsOwed => AwsOwed'
      BY <2>1, <2>2, <2>3 DEF AwsOwed, lockVars
    <2> QED
      BY <2>1, <2>4, <2>5
      DEF SessionStep, SessionKept, OwedStep, coreVars, lockVars
  <1>5. CASE DrainTrust(r)
    <2>1. p = "drainTrust" /\ Goto(r, local[r].ret) /\ trustRoots' = {}
          /\ UNCHANGED <<coreVars, session, lockVars>>
      BY <1>5 DEF DrainTrust, At, engineVars
    <2>2. local[r].ret \in Places
      BY DEF TypeOK, Local
    <2>3. local'[r].pc = local[r].ret /\ local'[r].op = local[r].op
      BY <2>1, <2>2, GotoMoves DEF Goes, Only
    <2>4. local[r].op = "lock" => local[r].ret = "awsclear"
      BY <2>1 DEF PathOk, PathAt, Draining
    <2>5. \A q \in Requests : q # r => local'[q] = local[q]
      BY <1>0 DEF Only
    <2>6. ConsentOwed => ConsentOwed'
      BY <2>1, <2>5 DEF ConsentOwed, lockVars
    <2>7. AwsOwed => AwsOwed'
      BY <2>1, <2>3, <2>4, <2>5 DEF AwsOwed, lockVars
    <2> QED
      BY <2>1, <2>6, <2>7 DEF SessionStep, SessionKept, OwedStep, coreVars, lockVars
  <1>6. CASE Adopt(r) \/ ChallengeApproved(r)
    <2>1. away /\ p \in {"adopt", "prompt"}
      BY <1>6 DEF Adopt, ChallengeApproved, At
    <2>2. mek = Locked
      BY <2>1 DEF HolderOk, CountsOnLocked, CountsAt, Where, Onto, Draining
    <2>3. InstallSession /\ tails' = tails /\ collected' = collected
      BY <1>6, <2>2 DEF Adopt, ChallengeApproved, Live, lockVars
    <2>4. ~Live
      BY <2>2 DEF Live
    <2>5. lockParked' = (lockParked \/ mek # Locked) \/ lockParked' = lockParked
      BY <1>6, <2>4, Zenon DEF Adopt, ChallengeApproved, lockVars
    <2>6. lockParked => lockParked'
      BY <2>5, Zenon
    <2> QED
      BY <1>0, <2>1, <2>2, <2>3, <2>6, OpenOwes
  <1>7. CASE ChallengeRefused(r)
    <2>1. /\ away /\ Deny /\ session' = session
          /\ tails' = tails /\ lockParked' = lockParked /\ collected' = collected
      BY <1>7 DEF ChallengeRefused, At, engineVars, lockVars
    <2> QED
      BY <1>0, <2>1, OwedKept DEF Deny, SessionStep, SessionKept, CoreNext
  <1>8. CASE LockSession(r)
    <2>1. p = "lock" /\ DropNow /\ session' = session
          /\ tails' = tails /\ lockParked' = lockParked /\ collected' = collected
      BY <1>8 DEF LockSession, At, engineVars, lockVars
    <2>2. mek' = Locked /\ opened' = opened
      BY <2>1 DEF DropNow, DropKey
    <2>3. local'[r].pc = "drainConsent"
      BY <1>8, LockMoves
    <2>4. local'[r].op = "lock"
      <3>1. local[r].op \in AllOps \cup {"none"}
        BY DEF TypeOK, Local
      <3>2. PathAt(local[r].op, "lock", local[r].ret, local[r].unlocking)
        BY <2>1 DEF PathOk
      <3>3. local[r].op = "lock"
        BY <3>1, <3>2
        DEF PathAt, Onto, Draining, AllOps, GatePlaces, FlightPlaces, KeyPlaces
      <3> QED
        BY <1>0, <3>3 DEF Only
    <2>5. ConsentOwed' /\ AwsOwed'
      BY <2>3, <2>4 DEF ConsentOwed, AwsOwed
    <2> QED
      BY <1>0, <2>1, <2>2, <2>5, OwedKept DEF SessionStep, SessionEnds, CoreNext
  <1>9. CASE AwsClear(r)
    <2>1. p = "awsclear" /\ Wiped /\ UNCHANGED <<coreVars, session, lockVars>>
      BY <1>9 DEF AwsClear, At, WipeAws, Wiped, engineVars
    <2>2. \A q \in Requests : q # r => local'[q] = local[q]
      BY <1>0 DEF Only
    <2>3. ConsentOwed => ConsentOwed'
      BY <2>1, <2>2 DEF ConsentOwed, lockVars
    <2>4. TrustOwed => TrustOwed'
      BY <2>1, <2>2, <2>3 DEF TrustOwed, lockVars
    <2> QED
      BY <2>1, <2>3, <2>4 DEF SessionStep, SessionKept, OwedStep, coreVars, lockVars
  <1>10. CASE GateDescent(r) \/ GateLookup(r) \/ GateThrottle(r) \/
             GateJoin(r) \/ GateWait(r) \/ GateReady(r)
    <2>1. away /\ UNCHANGED <<coreVars, session, lockVars>>
      BY <1>10 DEF At, engineVars, GateDescent, GateLookup,
         GateThrottle, GateJoin, GateWait, GateReady
    <2> QED
      BY <1>0, <2>1, QuietOwes
  <1>11. CASE Remember(r) \/ GateCheck(r) \/ GateScore(r) \/ GateFinish(r)
             \/ DiscloseTurnedAway(r) \/ DiscloseLock(r)
    <2>1. away /\ UNCHANGED <<coreVars, session, lockVars>>
      BY <1>11 DEF At, engineVars, Remember, GateCheck, GateScore,
         GateFinish, DiscloseTurnedAway, DiscloseLock
    <2> QED
      BY <1>0, <2>1, QuietOwes
  <1>12. CASE DiscloseAsk(r) \/ DiscloseApproved(r) \/ DiscloseRefused(r)
             \/ DiscloseRelease(r) \/ RecordTrust(r) \/ EnsureTouched(r)
    <2>1. away /\ UNCHANGED <<coreVars, session, lockVars>>
      BY <1>12 DEF At, engineVars, DiscloseAsk, DiscloseApproved,
         DiscloseRefused, DiscloseRelease, RecordTrust, EnsureTouched
    <2> QED
      BY <1>0, <2>1, QuietOwes
  <1>13. CASE ChallengeLock(r) \/ ChallengeRechecked(r) \/ ChallengeAsk(r)
             \/ ChallengeRelease(r) \/ ClearBackoff(r) \/
             ClearDiscloseBackoff(r)
    <2>1. away /\ UNCHANGED <<coreVars, session, lockVars>>
      BY <1>13 DEF At, engineVars, ChallengeLock, ChallengeRechecked,
         ChallengeAsk, ChallengeRelease, ClearBackoff,
         ClearDiscloseBackoff
    <2> QED
      BY <1>0, <2>1, QuietOwes
  <1>14. CASE ServeUnwrap(r) \/ ServeAws(r) \/ AwsRead(r) \/ AwsFill(r)
    <2>1. away /\ UNCHANGED <<coreVars, session, lockVars>>
      BY <1>14 DEF At, engineVars, ServeUnwrap, ServeAws, AwsRead,
         AwsFill
    <2> QED
      BY <1>0, <2>1, QuietOwes
  <1> QED
    BY <1>1, <1>2, <1>3, <1>4, <1>5, <1>6, <1>7, <1>8, <1>9, <1>10,
       <1>11, <1>12, <1>13, <1>14 DEF Step

-----------------------------------------------------------------------------
(* Who leads the flight of a class.                                        *)

Flies(r) ==
    \/ pending' = pending /\ (Leads(r)' <=> Leads(r))
    \/ /\ pending[Class(r)] = NoOne /\ Leads(r)'
       /\ pending' = [pending EXCEPT ![Class(r)] = r]
    \/ /\ Leads(r) /\ ~Leads(r)'
       /\ pending' = [pending EXCEPT ![Class(r)] = NoOne]

LEMMA StepFlies ==
  ASSUME TypeOK, NEW r \in Requests, PathOk(r), Step(r)
  PROVE  Flies(r)
  <1> DEFINE c == Class(r)
             o == local[r].op
             p == local[r].pc
             rt == local[r].ret
             on(t) == LeadsAt(o, Onto(t, rt)) <=> Leads(r)
  <1>0. /\ p \in Places /\ rt \in Places /\ o \in AllOps \cup {"none"}
        /\ rt \notin Draining /\ PathAt(o, p, rt, local[r].unlocking)
    BY DEF TypeOK, Local, PathOk, PathAt
  <1>b. /\ Allowed(r) = AllowedAt(o)
        /\ \A yes \in BOOLEAN : Answered(r, yes) = IF yes THEN Yes(o) ELSE No(o)
        /\ {AllowedAt(o), Yes(o), No(o)} \subseteq Places
        /\ AllowedAt(o) \in {"touch", "served"}
        /\ Yes(o) \in {"record", "remember"} /\ No(o) \in {"done", "check"}
        /\ o # "trust" => Yes(o) = "remember" /\ No(o) = "check"
    BY DEF Allowed, AllowedAt, Answered, Yes, No, Places
  <1>c. ASSUME NEW t \in Places, Goto(r, t), UNCHANGED pending, on(t)
        PROVE  Flies(r)
    BY <1>c, GotoMoves DEF Goes, Only, Flies, Where, Leads
  <1>d. ASSUME NEW n \in Places, n \notin Draining, Peek(r, n) \/ TouchSession(r, n),
               LeadsAt(o, n) <=> Leads(r)
        PROVE  Flies(r)
    <2>1. Looks(r, n)
      BY <1>d, LookMoves
    <2>2. Where(r)' = n
      BY <1>d, <2>1 DEF Looks, Where, Onto, Draining
    <2>3. pending' = pending
      BY <1>d DEF Peek, TouchSession, engineVars
    <2> QED
      BY <1>d, <2>1, <2>2, <2>3 DEF Looks, Only, Flies, Leads
  <1>e. ASSUME NEW t, local'[r].pc = t, local'[r].ret = rt, Only(r),
               UNCHANGED pending, on(t)
        PROVE  Flies(r)
    BY <1>e DEF Only, Flies, Where, Leads
  <1> USE DEF At
  <1>1. CASE Gate(r)
    BY <1>0, <1>d, <1>1 DEF Gate, Places,
        Leads, LeadsAt, FlightPlaces, Where, Onto, Draining
  <1>2. CASE Drain(r)
    BY <1>0, <1>b, <1>c, <1>2 DEF Drain, engineVars, EngineClear, Places,
        Leads, LeadsAt, FlightPlaces, Where, Onto, Draining
  <1>3. CASE DrainConsent(r)
    BY <1>0, <1>b, <1>c, <1>3 DEF DrainConsent, engineVars, EngineClear, Places,
        Leads, LeadsAt, FlightPlaces, Where, Onto, Draining
  <1>4. CASE DrainTrust(r)
    BY <1>0, <1>b, <1>c, <1>4 DEF DrainTrust, engineVars, EngineClear, Places,
        Leads, LeadsAt, FlightPlaces, Where, Onto, Draining
  <1>5. CASE GateDescent(r)
    <2>1. UNCHANGED pending
      BY <1>5 DEF GateDescent, engineVars, Install, InstallSession
    <2> QED
      BY <1>0, <1>b, <2>1, <1>5, DescentMoves
      DEF GateDescent, Flies, Only,
          Leads, LeadsAt, FlightPlaces, Where, Onto, Draining
  <1>6. CASE GateLookup(r) /\ (c \notin Uncached /\ Servable(c))
    <2>1. UNCHANGED pending
      BY <1>6 DEF GateLookup, engineVars, Install, InstallSession
    <2> QED
      BY <1>0, <1>b, <2>1, <1>6, LookupHitMoves
      DEF GateLookup, Flies, Only,
          Leads, LeadsAt, FlightPlaces, Where, Onto, Draining
  <1>7. CASE GateLookup(r) /\ (~(c \notin Uncached /\ Servable(c)))
    BY <1>0, <1>b, <1>c, <1>7 DEF GateLookup, engineVars, EngineClear, Places,
        Leads, LeadsAt, FlightPlaces, Where, Onto, Draining
  <1>8. CASE GateThrottle(r) /\ (now < refusals[c].until)
    <2>1. UNCHANGED pending
      BY <1>8 DEF GateThrottle, engineVars, Install, InstallSession
    <2> QED
      BY <1>0, <1>b, <2>1, <1>8, ThrottledMoves
      DEF GateThrottle, Flies, Only,
          Leads, LeadsAt, FlightPlaces, Where, Onto, Draining
  <1>9. CASE GateThrottle(r) /\ (~(now < refusals[c].until))
    BY <1>0, <1>b, <1>c, <1>9 DEF GateThrottle, engineVars, EngineClear, Places,
        Leads, LeadsAt, FlightPlaces, Where, Onto, Draining
  <1>10. CASE GateJoin(r) /\ (pending[c] # NoOne)
    <2>1. UNCHANGED pending
      BY <1>10 DEF GateJoin, engineVars, Install, InstallSession
    <2> QED
      BY <1>0, <1>b, <2>1, <1>10, JoinWaits
      DEF GateJoin, Flies, Only,
          Leads, LeadsAt, FlightPlaces, Where, Onto, Draining
  <1>11. CASE GateJoin(r) /\ (pending[c] = NoOne)
    <2>1. /\ p = "join" /\ Goto(r, "ready")
          /\ pending' = [pending EXCEPT ![Class(r)] = r]
      BY <1>11 DEF GateJoin
    <2>2. Goes(r, "ready")
      BY <2>1, GotoMoves DEF Places
    <2>3. o \in {"unwrap", "awsget"}
      BY <1>0, <2>1 DEF PathAt, Onto, Draining, AllOps, KeyPlaces
    <2>4. Leads(r)'
      BY <2>2, <2>3 DEF Goes, Only, Leads, LeadsAt, FlightPlaces, Where, Onto, Draining
    <2> QED
      BY <1>11, <2>1, <2>4 DEF Flies
  <1>12. CASE GateWait(r)
    <2>1. UNCHANGED pending
      BY <1>12 DEF GateWait, engineVars, Install, InstallSession
    <2> QED
      BY <1>0, <1>b, <2>1, <1>12, WaitMoves
      DEF GateWait, Flies, Only,
          Leads, LeadsAt, FlightPlaces, Where, Onto, Draining
  <1>13. CASE GateReady(r)
    <2>1. UNCHANGED pending
      BY <1>13 DEF GateReady, engineVars, Install, InstallSession
    <2> QED
      BY <1>0, <1>b, <2>1, <1>13, ReadyMoves
      DEF GateReady, Flies, Only,
          Leads, LeadsAt, FlightPlaces, Where, Onto, Draining
  <1>14. CASE Remember(r)
    BY <1>0, <1>b, <1>c, <1>14 DEF Remember, engineVars, EngineClear, Places,
        Leads, LeadsAt, FlightPlaces, Where, Onto, Draining
  <1>15. CASE GateCheck(r)
    BY <1>0, <1>b, <1>c, <1>15 DEF GateCheck, engineVars, EngineClear, Places,
        Leads, LeadsAt, FlightPlaces, Where, Onto, Draining
  <1>16. CASE GateScore(r)
    BY <1>0, <1>b, <1>c, <1>16 DEF GateScore, engineVars, EngineClear, Places,
        Leads, LeadsAt, FlightPlaces, Where, Onto, Draining
  <1>17. CASE GateFinish(r)
    <2> DEFINE t == IF local[r].verdict = "allow" THEN AllowedAt(o) ELSE "done"
    <2>1. /\ p = "finish" /\ Goto(r, t)
          /\ pending' = [pending EXCEPT ![Class(r)] = NoOne]
      BY <1>b, <1>17 DEF GateFinish
    <2>2. t \in Places /\ t \in {"touch", "served", "done"}
      BY <1>b DEF Places
    <2> HIDE DEF t
    <2>3. Goes(r, t)
      BY <2>1, <2>2, GotoMoves
    <2>4. o \in {"unwrap", "awsget"}
      BY <1>0, <2>1 DEF PathAt, Onto, Draining, AllOps, KeyPlaces
    <2>5. Leads(r) /\ ~Leads(r)'
      BY <2>1, <2>2, <2>3, <2>4 DEF Goes, Only, Leads, LeadsAt, FlightPlaces, Where, Onto, Draining
    <2> QED
      BY <2>1, <2>5 DEF Flies
  <1>18. CASE DiscloseTurnedAway(r)
    <2>1. p = "dqueue" /\ UNCHANGED pending
      BY <1>18 DEF DiscloseTurnedAway, engineVars
    <2>2. PICK t \in {Yes(o), No(o)} : local'[r].pc = t
      BY <1>b, <1>18, TurnedAwayMoves
    <2>3. local'[r].ret = rt /\ Only(r)
      BY <1>18, TurnedAwayMoves
    <2>4. on(t)
      BY <1>b, <2>1 DEF Leads, LeadsAt, FlightPlaces, Where, Onto, Draining
    <2> QED
      BY <1>e, <2>1, <2>2, <2>3, <2>4
  <1>19. CASE DiscloseLock(r)
    <2> DEFINE t == IF o = "trust" THEN "dprompt" ELSE "offer"
    <2>1. p = "dqueue" /\ Goto(r, t) /\ UNCHANGED pending
      BY <1>19 DEF DiscloseLock, engineVars
    <2>2. t \in Places /\ on(t)
      BY <2>1 DEF Places, Leads, LeadsAt, FlightPlaces, Where, Onto, Draining
    <2> QED
      BY <1>c, <2>1, <2>2
  <1>20. CASE DisclosePeek(r)
    BY <1>0, <1>d, <1>20 DEF DisclosePeek, Places,
        Leads, LeadsAt, FlightPlaces, Where, Onto, Draining
  <1>21. CASE DiscloseAsk(r)
    <2>1. UNCHANGED pending
      BY <1>21 DEF DiscloseAsk, engineVars, Install, InstallSession
    <2> QED
      BY <1>0, <1>b, <2>1, <1>21, DAskMoves
      DEF DiscloseAsk, Flies, Only,
          Leads, LeadsAt, FlightPlaces, Where, Onto, Draining
  <1>22. CASE DiscloseApproved(r)
    <2>1. p = "dprompt" /\ UNCHANGED pending
      BY <1>22 DEF DiscloseApproved, engineVars
    <2>2. PICK t \in {"adopt", "drelease"} : local'[r].pc = t
      BY <1>b, <1>22, DApprovedMoves
    <2>3. local'[r].ret = rt /\ Only(r)
      BY <1>22, DApprovedMoves
    <2>4. on(t)
      BY <1>b, <2>1 DEF Leads, LeadsAt, FlightPlaces, Where, Onto, Draining
    <2> QED
      BY <1>e, <2>1, <2>2, <2>3, <2>4
  <1>23. CASE DiscloseRefused(r)
    <2>1. UNCHANGED pending
      BY <1>23 DEF DiscloseRefused, engineVars, Install, InstallSession
    <2> QED
      BY <1>0, <1>b, <2>1, <1>23, DRefusedMoves
      DEF DiscloseRefused, Flies, Only,
          Leads, LeadsAt, FlightPlaces, Where, Onto, Draining
  <1>24. CASE Adopt(r) /\ (Live)
    <2>1. UNCHANGED pending
      BY <1>24 DEF Adopt, engineVars, Install, InstallSession
    <2> QED
      BY <1>0, <1>b, <2>1, <1>24, AdoptKeepsMoves
      DEF Adopt, Flies, Only,
          Leads, LeadsAt, FlightPlaces, Where, Onto, Draining
  <1>25. CASE Adopt(r) /\ (~Live)
    <2>1. UNCHANGED pending
      BY <1>25 DEF Adopt, engineVars, Install, InstallSession
    <2> QED
      BY <1>0, <1>b, <2>1, <1>25, AdoptOpensMoves
      DEF Adopt, Flies, Only,
          Leads, LeadsAt, FlightPlaces, Where, Onto, Draining
  <1>26. CASE DiscloseRelease(r)
    <2> DEFINE t == Answered(r, local[r].verdict = "allow")
    <2>1. p = "drelease" /\ Goto(r, t) /\ UNCHANGED pending
      BY <1>26, Zenon DEF DiscloseRelease, engineVars
    <2>2. t \in {Yes(o), No(o)}
      BY <1>b
    <2> HIDE DEF t
    <2>3. t \in Places /\ on(t)
      BY <1>b, <2>1, <2>2 DEF Leads, LeadsAt, FlightPlaces, Where, Onto, Draining
    <2> QED
      BY <1>c, <2>1, <2>3
  <1>27. CASE RecordTrust(r)
    BY <1>0, <1>b, <1>c, <1>27 DEF RecordTrust, engineVars, EngineClear, Places,
        Leads, LeadsAt, FlightPlaces, Where, Onto, Draining
  <1>28. CASE EnsureTouch(r)
    BY <1>0, <1>d, <1>28 DEF EnsureTouch, Places,
        Leads, LeadsAt, FlightPlaces, Where, Onto, Draining
  <1>29. CASE EnsureTouched(r)
    BY <1>0, <1>b, <1>c, <1>29 DEF EnsureTouched, engineVars, EngineClear, Places,
        Leads, LeadsAt, FlightPlaces, Where, Onto, Draining
  <1>30. CASE ChallengeLock(r)
    BY <1>0, <1>b, <1>c, <1>30 DEF ChallengeLock, engineVars, EngineClear, Places,
        Leads, LeadsAt, FlightPlaces, Where, Onto, Draining
  <1>31. CASE ChallengeRetouch(r)
    BY <1>0, <1>d, <1>31 DEF ChallengeRetouch, Places,
        Leads, LeadsAt, FlightPlaces, Where, Onto, Draining
  <1>32. CASE ChallengeRechecked(r)
    BY <1>0, <1>b, <1>c, <1>32 DEF ChallengeRechecked, engineVars, EngineClear, Places,
        Leads, LeadsAt, FlightPlaces, Where, Onto, Draining
  <1>33. CASE ChallengeAsk(r)
    BY <1>0, <1>b, <1>c, <1>33 DEF ChallengeAsk, engineVars, EngineClear, Places,
        Leads, LeadsAt, FlightPlaces, Where, Onto, Draining
  <1>34. CASE ChallengeApproved(r)
    <2>1. UNCHANGED pending
      BY <1>34 DEF ChallengeApproved, engineVars, Install, InstallSession
    <2> QED
      BY <1>0, <1>b, <2>1, <1>34, ApprovedMoves
      DEF ChallengeApproved, Flies, Only,
          Leads, LeadsAt, FlightPlaces, Where, Onto, Draining
  <1>35. CASE ChallengeRefused(r)
    BY <1>0, <1>b, <1>c, <1>35 DEF ChallengeRefused, engineVars, EngineClear, Places,
        Leads, LeadsAt, FlightPlaces, Where, Onto, Draining
  <1>36. CASE ChallengeRelease(r)
    BY <1>0, <1>b, <1>c, <1>36 DEF ChallengeRelease, engineVars, EngineClear, Places,
        Leads, LeadsAt, FlightPlaces, Where, Onto, Draining
  <1>37. CASE ClearBackoff(r)
    BY <1>0, <1>b, <1>c, <1>37 DEF ClearBackoff, engineVars, EngineClear, Places,
        Leads, LeadsAt, FlightPlaces, Where, Onto, Draining
  <1>38. CASE ClearDiscloseBackoff(r)
    BY <1>0, <1>b, <1>c, <1>38 DEF ClearDiscloseBackoff, engineVars, EngineClear, Places,
        Leads, LeadsAt, FlightPlaces, Where, Onto, Draining
  <1>39. CASE ServeUnwrap(r)
    BY <1>0, <1>b, <1>c, <1>39 DEF ServeUnwrap, engineVars, EngineClear, Places,
        Leads, LeadsAt, FlightPlaces, Where, Onto, Draining
  <1>40. CASE ServeAws(r)
    <2>1. UNCHANGED pending
      BY <1>40 DEF ServeAws, engineVars, Install, InstallSession
    <2> QED
      BY <1>0, <1>b, <2>1, <1>40, ServeAwsMoves
      DEF ServeAws, Flies, Only,
          Leads, LeadsAt, FlightPlaces, Where, Onto, Draining
  <1>41. CASE AwsLook(r)
    BY <1>0, <1>d, <1>41 DEF AwsLook, Places,
        Leads, LeadsAt, FlightPlaces, Where, Onto, Draining
  <1>42. CASE AwsRead(r)
    <2>1. UNCHANGED pending
      BY <1>42 DEF AwsRead, engineVars, Install, InstallSession
    <2> QED
      BY <1>0, <1>b, <2>1, <1>42, AwsReadMoves
      DEF AwsRead, Flies, Only,
          Leads, LeadsAt, FlightPlaces, Where, Onto, Draining
  <1>43. CASE AwsFill(r)
    BY <1>0, <1>b, <1>c, <1>43 DEF AwsFill, engineVars, EngineClear, Places,
        Leads, LeadsAt, FlightPlaces, Where, Onto, Draining
  <1>44. CASE AwsClear(r)
    BY <1>0, <1>b, <1>c, <1>44 DEF AwsClear, engineVars, EngineClear, Places,
        Leads, LeadsAt, FlightPlaces, Where, Onto, Draining
  <1>45. CASE LockSession(r)
    <2>1. UNCHANGED pending
      BY <1>45 DEF LockSession, engineVars, Install, InstallSession
    <2> QED
      BY <1>0, <1>b, <2>1, <1>45, LockMoves
      DEF LockSession, Flies, Only,
          Leads, LeadsAt, FlightPlaces, Where, Onto, Draining
  <1> QED
    BY <1>1, <1>2, <1>3, <1>4, <1>5, <1>6, <1>7, <1>8, <1>9, <1>10,
       <1>11, <1>12, <1>13, <1>14, <1>15, <1>16, <1>17, <1>18, <1>19,
       <1>20, <1>21, <1>22, <1>23, <1>24, <1>25, <1>26, <1>27, <1>28,
       <1>29, <1>30, <1>31, <1>32, <1>33, <1>34, <1>35, <1>36, <1>37,
       <1>38, <1>39, <1>40, <1>41, <1>42, <1>43, <1>44, <1>45 DEF Step

-----------------------------------------------------------------------------
(* What a step does to the data: the engine, trust, the AWS cache.         *)

Entry0 == [expires : Nat, born : Nat, session : Nat, given : Nat, cachedIn : Nat]
Pause == [count : Nat, until : Nat]
EngineTypeOK ==
    /\ cache \in [Classes -> Entry0]
    /\ pending \in [Classes -> Requests \cup {NoOne}]
    /\ refusals \in [Classes -> Pause]
    /\ clears \in Nat /\ session \in Nat
ChallengeTypeOK ==
    /\ challenger \in Requests \cup {NoOne}
    /\ paused \in Pause /\ refused \in [Classes -> Nat]
LockTypeOK ==
    /\ lockParked \in BOOLEAN /\ tails \in [TailStages -> Nat]
    /\ collected \subseteq Nat
DataTypeOK ==
    /\ trustRoots \subseteq [root : Requests, declared : Nat, recorded : Nat]
    /\ awsCache \in Credentials /\ awsFills \in Nat /\ awsWiped \subseteq Nat
    /\ awsProofs \subseteq [process : {ProcessOf[r] : r \in Requests}, at : Nat]
    /\ overtaken \subseteq Requests

LEMMA TypeParts ==
  TypeOK <=> /\ CoreTypeOK /\ local \in [Requests -> Local]
             /\ EngineTypeOK /\ ChallengeTypeOK /\ LockTypeOK /\ DataTypeOK
  BY DEF TypeOK, EngineTypeOK, ChallengeTypeOK, LockTypeOK, DataTypeOK, Entry0, Pause

LEMMA EscalatedType ==
  ASSUME NEW refusal \in Pause, now \in Nat
  PROVE  Escalated(refusal) \in Pause
  <1> DEFINE count == refusal.count + 1
  <1>1. count \in Nat /\ count > 0
    BY DEF Pause
  <1>2. BackoffFor(count) \in Nat
    BY <1>1, GateBackoffAssumption DEF BackoffFor
  <1> HIDE DEF count
  <1>3. [count |-> count, until |-> now + BackoffFor(count)] \in Pause
    BY <1>1, <1>2 DEF Pause
  <1> QED
    BY <1>3 DEF Escalated, count

Remembers(r, c) ==
    /\ Where(r) = "remember" /\ clears = local[r].clears
    /\ cache'[c].session = session /\ cache'[c].given = local[r].given
    /\ cache'[c].cachedIn = mek
    /\ UNCHANGED <<mek, opened, session>>
EntryKept(c) ==
    /\ cache'[c].session = cache[c].session
    /\ cache'[c].given = cache[c].given
    /\ cache'[c].cachedIn = cache[c].cachedIn
CacheStep(r) ==
    \A c \in Classes : cache'[c] = NoEntry \/ EntryKept(c) \/ Remembers(r, c)
ClearsStep == clears' = clears \/ Cleared

LEMMA ClearedEngine ==
  ASSUME EngineTypeOK, EngineClear
  PROVE  EngineTypeOK' /\ Cleared /\ \A c \in Classes : cache'[c] = NoEntry
  BY DEF EngineTypeOK, EngineClear, Cleared, NoEntry, NoRefusal, Entry0, Pause

LEMMA StepEngine ==
  ASSUME TypeOK, NEW r \in Requests, Step(r)
  PROVE  EngineTypeOK' /\ CacheStep(r) /\ ClearsStep
  <1>0. EngineTypeOK /\ now \in Nat /\ mek \in Nat /\ now + TTL \in Nat
        /\ local[r] \in Local /\ Class(r) \in Classes
    BY TypeParts, TTLAssumption, GateClassesAssumption DEF CoreTypeOK, Class, TypeOK
  <1> DEFINE k == Class(r)
             same == UNCHANGED cache => \A c \in Classes : EntryKept(c)
  <1>s. same
    BY DEF EntryKept
  <1>1. CASE GateLookup(r)
    <2> DEFINE e == [cache[k] EXCEPT !.expires = now + TTL]
    <2>1. \/ cache' = [cache EXCEPT ![k] = e]
          \/ cache' = [cache EXCEPT ![k] = NoEntry]
      BY <1>1, Zenon DEF GateLookup
    <2>2. /\ e \in Entry0 /\ NoEntry \in Entry0
          /\ e.session = cache[k].session /\ e.given = cache[k].given
          /\ e.cachedIn = cache[k].cachedIn
      BY <1>0 DEF EngineTypeOK, Entry0, NoEntry
    <2> HIDE DEF e
    <2>3. CacheStep(r)
      BY <1>0, <2>1, <2>2 DEF CacheStep, EntryKept, EngineTypeOK
    <2>4. cache' \in [Classes -> Entry0]
      BY <1>0, <2>1, <2>2 DEF EngineTypeOK
    <2> QED
      BY <1>0, <1>1, <2>3, <2>4 DEF GateLookup, EngineTypeOK, ClearsStep
  <1>2. CASE Remember(r)
    <2> DEFINE e == [expires |-> now + TTL, born |-> now, session |-> session,
                     given |-> local[r].given, cachedIn |-> mek]
    <2>1. \/ cache' = [cache EXCEPT ![k] = e] /\ clears = local[r].clears
          \/ cache' = cache
      BY <1>2, Zenon DEF Remember
    <2>2. local[r].given \in Nat
      BY <1>0 DEF Local
    <2>3. e \in Entry0
      BY <1>0, <2>2 DEF EngineTypeOK, Entry0
    <2>4. e.session = session /\ e.given = local[r].given /\ e.cachedIn = mek
      OBVIOUS
    <2> HIDE DEF e
    <2>5. /\ local[r].pc = "remember"
          /\ UNCHANGED <<coreVars, pending, refusals, clears, session>>
      BY <1>2 DEF Remember, At
    <2>6. Where(r) = "remember" /\ UNCHANGED <<mek, opened, session>>
      BY <2>5 DEF Where, Onto, Draining, coreVars
    <2>7. CacheStep(r)
      BY <1>0, <2>1, <2>4, <2>6 DEF CacheStep, EntryKept, Remembers, EngineTypeOK
    <2>8. cache' \in [Classes -> Entry0]
      BY <1>0, <2>1, <2>3 DEF EngineTypeOK
    <2> QED
      BY <1>0, <2>5, <2>7, <2>8 DEF EngineTypeOK, ClearsStep
  <1>3. CASE DrainConsent(r)
    BY <1>0, <1>3, ClearedEngine DEF DrainConsent, CacheStep, ClearsStep
  <1>4. CASE GateJoin(r) \/ GateFinish(r)
    <2>1. UNCHANGED <<cache, refusals, clears, session>>
      BY <1>4 DEF GateJoin, GateFinish
    <2>2. \/ pending' = [pending EXCEPT ![k] = r] \/ pending' = pending
          \/ pending' = [pending EXCEPT ![k] = NoOne]
      BY <1>4, Zenon DEF GateJoin, GateFinish
    <2> QED
      BY <1>0, <1>s, <2>1, <2>2 DEF EngineTypeOK, CacheStep, ClearsStep
  <1>5. CASE GateScore(r) \/ ClearBackoff(r)
    <2>1. UNCHANGED <<cache, pending, clears, session>>
      BY <1>5 DEF GateScore, ClearBackoff
    <2>2. \/ refusals' = [refusals EXCEPT ![k] = NoRefusal]
          \/ refusals' = [refusals EXCEPT ![k] = Escalated(refusals[k])]
          \/ refusals' = [c \in Classes |-> NoRefusal]
      BY <1>5 DEF GateScore, ClearBackoff
    <2>3. NoRefusal \in Pause /\ Escalated(refusals[k]) \in Pause
      BY <1>0, EscalatedType DEF EngineTypeOK, NoRefusal, Pause
    <2>4. refusals' \in [Classes -> Pause]
      BY <1>0, <2>2, <2>3 DEF EngineTypeOK
    <2> QED
      BY <1>0, <1>s, <2>1, <2>4 DEF EngineTypeOK, CacheStep, ClearsStep
  <1>6. CASE Adopt(r) \/ ChallengeApproved(r)
    <2>1. UNCHANGED <<cache, pending, refusals, clears>>
          /\ session' \in {session, session + 1}
      BY <1>6 DEF Adopt, ChallengeApproved, InstallSession, engineVars
    <2> QED
      BY <1>0, <1>s, <2>1 DEF EngineTypeOK, CacheStep, ClearsStep
  <1>7. ASSUME UNCHANGED engineVars
        PROVE  EngineTypeOK' /\ CacheStep(r) /\ ClearsStep
    BY <1>0, <1>7, <1>s DEF engineVars, EngineTypeOK, CacheStep, ClearsStep
  <1>8. CASE Gate(r) \/ Drain(r) \/ DrainTrust(r) \/ GateDescent(r) \/
             GateThrottle(r) \/ GateWait(r) \/ GateReady(r)
    BY <1>8, <1>7 DEF Peek, TouchSession, Gate, Drain, DrainTrust,
       GateDescent, GateThrottle, GateWait, GateReady
  <1>9. CASE GateCheck(r) \/ DiscloseTurnedAway(r) \/ DiscloseLock(r) \/
             DisclosePeek(r) \/ DiscloseAsk(r) \/ DiscloseApproved(r) \/
             DiscloseRefused(r)
    BY <1>9, <1>7 DEF Peek, TouchSession, GateCheck,
       DiscloseTurnedAway, DiscloseLock, DisclosePeek, DiscloseAsk,
       DiscloseApproved, DiscloseRefused
  <1>10. CASE DiscloseRelease(r) \/ RecordTrust(r) \/ EnsureTouch(r) \/
             EnsureTouched(r) \/ ChallengeLock(r) \/ ChallengeRetouch(r)
             \/ ChallengeRechecked(r)
    BY <1>10, <1>7 DEF Peek, TouchSession, DiscloseRelease,
       RecordTrust, EnsureTouch, EnsureTouched, ChallengeLock,
       ChallengeRetouch, ChallengeRechecked
  <1>11. CASE ChallengeAsk(r) \/ ChallengeRefused(r) \/
             ChallengeRelease(r) \/ ClearDiscloseBackoff(r) \/
             ServeUnwrap(r) \/ ServeAws(r) \/ AwsLook(r)
    BY <1>11, <1>7 DEF Peek, TouchSession, ChallengeAsk,
       ChallengeRefused, ChallengeRelease, ClearDiscloseBackoff,
       ServeUnwrap, ServeAws, AwsLook
  <1>12. CASE AwsRead(r) \/ AwsFill(r) \/ AwsClear(r) \/ LockSession(r)
    BY <1>12, <1>7 DEF Peek, TouchSession, AwsRead, AwsFill, AwsClear,
       LockSession
  <1> QED
    BY <1>1, <1>2, <1>3, <1>4, <1>5, <1>6, <1>8, <1>9, <1>10, <1>11,
       <1>12 DEF Step

LEMMA StepChallenge ==
  ASSUME TypeOK, NEW r \in Requests, Step(r)
  PROVE  ChallengeTypeOK'
  <1>0. ChallengeTypeOK /\ now \in Nat /\ Class(r) \in Classes
    BY TypeParts, GateClassesAssumption DEF CoreTypeOK, Class
  <1>1. CASE DiscloseRefused(r)
    <2>1. /\ challenger' = challenger /\ paused' = Escalated(paused)
          /\ refused' = [refused EXCEPT ![Class(r)] = refused[Class(r)] + 1]
      BY <1>1 DEF DiscloseRefused
    <2>2. Escalated(paused) \in Pause
      BY <1>0, EscalatedType DEF ChallengeTypeOK
    <2> QED
      BY <1>0, <2>1, <2>2 DEF ChallengeTypeOK
  <1>2. CASE DiscloseApproved(r) \/ ClearDiscloseBackoff(r)
    BY <1>0, <1>2
    DEF DiscloseApproved, ClearDiscloseBackoff, ChallengeTypeOK, NoRefusal, Pause
  <1>3. CASE \/ DiscloseLock(r) \/ DiscloseRelease(r) \/ ChallengeLock(r)
             \/ ChallengeRelease(r)
    <2>1. challenger' \in {r, NoOne} /\ UNCHANGED <<paused, refused>>
      BY <1>3 DEF DiscloseLock, DiscloseRelease, ChallengeLock, ChallengeRelease
    <2> QED
      BY <1>0, <2>1 DEF ChallengeTypeOK
  <1>4. ASSUME UNCHANGED challengeVars
        PROVE  ChallengeTypeOK'
    BY <1>0, <1>4 DEF challengeVars, ChallengeTypeOK
  <1>5. CASE Gate(r) \/ Drain(r) \/ DrainConsent(r) \/ DrainTrust(r) \/
             GateDescent(r) \/ GateLookup(r) \/ GateThrottle(r)
    BY <1>5, <1>4 DEF Peek, TouchSession, Gate, Drain, DrainConsent,
       DrainTrust, GateDescent, GateLookup, GateThrottle
  <1>6. CASE GateJoin(r) \/ GateWait(r) \/ GateReady(r) \/ Remember(r) \/
             GateCheck(r) \/ GateScore(r) \/ GateFinish(r)
    BY <1>6, <1>4 DEF Peek, TouchSession, GateJoin, GateWait,
       GateReady, Remember, GateCheck, GateScore, GateFinish
  <1>7. CASE DiscloseTurnedAway(r) \/ DisclosePeek(r) \/ DiscloseAsk(r) \/
             Adopt(r) \/ RecordTrust(r) \/ EnsureTouch(r) \/
             EnsureTouched(r)
    BY <1>7, <1>4 DEF Peek, TouchSession, DiscloseTurnedAway,
       DisclosePeek, DiscloseAsk, Adopt, RecordTrust, EnsureTouch,
       EnsureTouched
  <1>8. CASE ChallengeRetouch(r) \/ ChallengeRechecked(r) \/
             ChallengeAsk(r) \/ ChallengeApproved(r) \/
             ChallengeRefused(r) \/ ClearBackoff(r) \/ ServeUnwrap(r)
    BY <1>8, <1>4 DEF Peek, TouchSession, ChallengeRetouch,
       ChallengeRechecked, ChallengeAsk, ChallengeApproved,
       ChallengeRefused, ClearBackoff, ServeUnwrap
  <1>9. CASE ServeAws(r) \/ AwsLook(r) \/ AwsRead(r) \/ AwsFill(r) \/
             AwsClear(r) \/ LockSession(r)
    BY <1>9, <1>4 DEF Peek, TouchSession, ServeAws, AwsLook, AwsRead,
       AwsFill, AwsClear, LockSession
  <1> QED
    BY <1>1, <1>2, <1>3, <1>5, <1>6, <1>7, <1>8, <1>9 DEF Step

LEMMA StepLocksType ==
  ASSUME TypeOK, NEW r \in Requests, Step(r)
  PROVE  LockTypeOK'
  <1>0. LockTypeOK /\ mek \in Nat
    BY TypeParts DEF CoreTypeOK
  <1>1. CASE Drain(r)
    BY <1>0, <1>1 DEF Drain, LockTypeOK
  <1>2. CASE Adopt(r)
    <2>1. UNCHANGED <<tails, collected>>
      BY <1>2 DEF Adopt, lockVars
    <2>2. lockParked' \in BOOLEAN
      <3>1. \/ lockParked' = (lockParked \/ mek # Locked)
            \/ lockParked' = lockParked
        BY <1>2, Zenon DEF Adopt, lockVars
      <3>2. lockParked \in BOOLEAN
        BY <1>0 DEF LockTypeOK
      <3> QED
        BY <3>1, <3>2
    <2> QED
      BY <1>0, <2>1, <2>2 DEF LockTypeOK
  <1>3. ASSUME UNCHANGED lockVars \/ CollectSession
        PROVE  LockTypeOK'
    BY <1>0, <1>3 DEF lockVars, CollectSession, LockTypeOK
  <1>4. CASE Gate(r) \/ DrainConsent(r) \/ DrainTrust(r) \/ GateDescent(r)
             \/ GateLookup(r) \/ GateThrottle(r) \/ GateJoin(r)
    BY <1>4, <1>3 DEF Peek, TouchSession, FindLocked, Gate,
       DrainConsent, DrainTrust, GateDescent, GateLookup,
       GateThrottle, GateJoin
  <1>5. CASE GateWait(r) \/ GateReady(r) \/ Remember(r) \/ GateCheck(r) \/
             GateScore(r) \/ GateFinish(r) \/ DiscloseTurnedAway(r)
    BY <1>5, <1>3 DEF Peek, TouchSession, FindLocked, GateWait,
       GateReady, Remember, GateCheck, GateScore, GateFinish,
       DiscloseTurnedAway
  <1>6. CASE DiscloseLock(r) \/ DisclosePeek(r) \/ DiscloseAsk(r) \/
             DiscloseApproved(r) \/ DiscloseRefused(r) \/
             DiscloseRelease(r) \/ RecordTrust(r)
    BY <1>6, <1>3 DEF Peek, TouchSession, FindLocked, DiscloseLock,
       DisclosePeek, DiscloseAsk, DiscloseApproved, DiscloseRefused,
       DiscloseRelease, RecordTrust
  <1>7. CASE EnsureTouch(r) \/ EnsureTouched(r) \/ ChallengeLock(r) \/
             ChallengeRetouch(r) \/ ChallengeRechecked(r) \/
             ChallengeAsk(r) \/ ChallengeApproved(r)
    BY <1>7, <1>3 DEF Peek, TouchSession, FindLocked, EnsureTouch,
       EnsureTouched, ChallengeLock, ChallengeRetouch,
       ChallengeRechecked, ChallengeAsk, ChallengeApproved
  <1>8. CASE ChallengeRefused(r) \/ ChallengeRelease(r) \/ ClearBackoff(r)
             \/ ClearDiscloseBackoff(r) \/ ServeUnwrap(r) \/ ServeAws(r)
             \/ AwsLook(r)
    BY <1>8, <1>3 DEF Peek, TouchSession, FindLocked,
       ChallengeRefused, ChallengeRelease, ClearBackoff,
       ClearDiscloseBackoff, ServeUnwrap, ServeAws, AwsLook
  <1>9. CASE AwsRead(r) \/ AwsFill(r) \/ AwsClear(r) \/ LockSession(r)
    BY <1>9, <1>3 DEF Peek, TouchSession, FindLocked, AwsRead,
       AwsFill, AwsClear, LockSession
  <1> QED
    BY <1>1, <1>2, <1>4, <1>5, <1>6, <1>7, <1>8, <1>9 DEF Step

\* What a step adds to the trust roots and the proofs, and puts in the cache.
TrustStep ==
    \/ trustRoots' = {}
    \/ \A t \in trustRoots' : t \in trustRoots \/ (t.recorded = mek /\ mek' = mek)
Notes(p, r) ==
    /\ p.process = ProcessOf[r]
    /\ \A q \in Requests : /\ ProcessOf[q] = ProcessOf[r]
                           /\ local[q].pc \notin {"idle", "look"}
                           => q \in overtaken'
ProofStep(r) ==
    /\ overtaken \subseteq overtaken'
    /\ \A p \in awsProofs' : p \in awsProofs \/ Notes(p, r)
Fills(r) ==
    /\ local[r].pc = "fill" /\ Proven(r) /\ local[r].got # Locked
    /\ awsCache'.filled = local[r].got
    /\ awsCache'.overtaken = (r \in overtaken)
    /\ mek' = mek /\ collected' = collected
AwsStep(r) == awsCache' = awsCache \/ awsCache' = NoCredentials \/ Fills(r)

LEMMA WipedType ==
  ASSUME DataTypeOK, WipeAws, UNCHANGED trustRoots
  PROVE  DataTypeOK' /\ Wiped /\ overtaken' = overtaken
  BY DEF DataTypeOK, WipeAws, Wiped, NoCredentials, Credentials

LEMMA StepData ==
  ASSUME TypeOK, NEW r \in Requests, Step(r)
  PROVE  DataTypeOK' /\ TrustStep /\ ProofStep(r) /\ AwsStep(r)
  <1>0. DataTypeOK /\ now \in Nat /\ mek \in Nat /\ local[r] \in Local
    BY TypeParts DEF CoreTypeOK, TypeOK
  <1>a. ASSUME UNCHANGED trustRoots PROVE TrustStep
    BY <1>a, Zenon DEF TrustStep
  <1>b. ASSUME UNCHANGED <<awsProofs, overtaken>> PROVE ProofStep(r)
    BY <1>b, Zenon DEF ProofStep
  <1>c. UNCHANGED awsCache => AwsStep(r)
    BY DEF AwsStep
  <1>1. CASE DrainTrust(r)
    <2>1. trustRoots' = {} /\ UNCHANGED <<awsCache, awsFills, awsWiped, awsProofs, overtaken>>
      BY <1>1 DEF DrainTrust, awsVars
    <2>2. DataTypeOK'
      BY <1>0, <2>1 DEF DataTypeOK
    <2> QED
      BY <1>b, <1>c, <2>1, <2>2 DEF TrustStep
  <1>2. CASE RecordTrust(r)
    <2> DEFINE t == [root |-> r, declared |-> local[r].given, recorded |-> mek]
    <2>1. /\ trustRoots' = trustRoots \cup {t} /\ mek' = mek
          /\ UNCHANGED <<awsCache, awsFills, awsWiped, awsProofs, overtaken>>
      BY <1>2 DEF RecordTrust, awsVars, coreVars
    <2>2. local[r].given \in Nat
      BY <1>0 DEF Local
    <2>3. t \in [root : Requests, declared : Nat, recorded : Nat] /\ t.recorded = mek
      BY <1>0, <2>2
    <2> HIDE DEF t
    <2>4. DataTypeOK'
      BY <1>0, <2>1, <2>3 DEF DataTypeOK
    <2>5. TrustStep
      BY <2>1, <2>3 DEF TrustStep
    <2> QED
      BY <1>b, <1>c, <2>1, <2>4, <2>5
  <1>3. CASE ServeUnwrap(r)
    <2> DEFINE p == [process |-> ProcessOf[r], at |-> now]
    <2>1. /\ UNCHANGED <<trustRoots, awsCache, awsFills, awsWiped>>
          /\ \/ UNCHANGED <<awsProofs, overtaken>>
             \/ /\ awsProofs' \subseteq awsProofs \cup {p}
                /\ overtaken' = overtaken \cup
                      {q \in Requests : /\ ProcessOf[q] = ProcessOf[r]
                                        /\ local[q].pc \notin {"idle", "look"}}
      BY <1>3 DEF ServeUnwrap
    <2>2. /\ p \in [process : {ProcessOf[q] : q \in Requests}, at : Nat]
          /\ p.process = ProcessOf[r]
      BY <1>0
    <2> HIDE DEF p
    <2>3. DataTypeOK'
      BY <1>0, <2>1, <2>2 DEF DataTypeOK
    <2>4. CASE UNCHANGED <<awsProofs, overtaken>>
      BY <1>a, <1>b, <1>c, <2>1, <2>3, <2>4
    <2>5. CASE /\ awsProofs' \subseteq awsProofs \cup {p}
               /\ overtaken' = overtaken \cup
                     {q \in Requests : /\ ProcessOf[q] = ProcessOf[r]
                                       /\ local[q].pc \notin {"idle", "look"}}
      <3>1. Notes(p, r)
        BY <2>2, <2>5 DEF Notes
      <3>2. ProofStep(r)
        BY <2>5, <3>1 DEF ProofStep
      <3> QED
        BY <1>a, <1>c, <2>1, <2>3, <3>2
    <2> QED
      BY <2>1, <2>4, <2>5
  <1>4. CASE AwsFill(r)
    <2> DEFINE e == [id |-> awsFills + 1, expires |-> now + AwsLife,
                     filled |-> local[r].got,
                     overtaken |-> r \in overtaken]
               fills == /\ local[r].got # Locked /\ Proven(r)
                        /\ awsFills' = awsFills + 1 /\ awsCache' = e
    <2>1. /\ UNCHANGED <<coreVars, lockVars, trustRoots, awsWiped, awsProofs,
                         overtaken>>
          /\ local[r].pc = "fill"
          /\ fills \/ UNCHANGED <<awsFills, awsCache>>
      BY <1>4 DEF AwsFill, At
    <2>2. local[r].got \in Nat
      BY <1>0 DEF Local
    <2>3. /\ e \in Credentials /\ e.filled = local[r].got
          /\ e.overtaken = (r \in overtaken)
      BY <1>0, <2>2, AwsAssumption DEF DataTypeOK, Credentials
    <2> HIDE DEF e
    <2>4. mek' = mek /\ collected' = collected
      BY <2>1 DEF coreVars, lockVars
    <2>5. AwsStep(r)
      BY <2>1, <2>3, <2>4 DEF AwsStep, Fills
    <2>6. DataTypeOK'
      BY <1>0, <2>1, <2>3 DEF DataTypeOK
    <2> QED
      BY <1>a, <1>b, <2>1, <2>5, <2>6
  <1>5. CASE AwsClear(r)
    <2>1. DataTypeOK' /\ Wiped /\ UNCHANGED <<trustRoots, overtaken>>
      BY <1>0, <1>5, WipedType DEF AwsClear
    <2>2. ProofStep(r) /\ AwsStep(r)
      BY <2>1 DEF Wiped, ProofStep, AwsStep
    <2> QED
      BY <1>a, <2>1, <2>2
  <1>6. ASSUME UNCHANGED <<trustRoots, awsVars>>
        PROVE  DataTypeOK' /\ TrustStep /\ ProofStep(r) /\ AwsStep(r)
    <2>1. UNCHANGED <<trustRoots, awsCache, awsFills, awsWiped, awsProofs, overtaken>>
      BY <1>6 DEF awsVars
    <2>2. DataTypeOK'
      BY <1>0, <2>1 DEF DataTypeOK
    <2> QED
      BY <1>a, <1>b, <1>c, <2>1, <2>2
  <1>7. CASE Gate(r) \/ Drain(r) \/ DrainConsent(r) \/ GateDescent(r) \/
             GateLookup(r) \/ GateThrottle(r) \/ GateJoin(r)
    BY <1>7, <1>6 DEF Peek, TouchSession, Gate, Drain, DrainConsent,
       GateDescent, GateLookup, GateThrottle, GateJoin
  <1>8. CASE GateWait(r) \/ GateReady(r) \/ Remember(r) \/ GateCheck(r) \/
             GateScore(r) \/ GateFinish(r) \/ DiscloseTurnedAway(r)
    BY <1>8, <1>6 DEF Peek, TouchSession, GateWait, GateReady,
       Remember, GateCheck, GateScore, GateFinish, DiscloseTurnedAway
  <1>9. CASE DiscloseLock(r) \/ DisclosePeek(r) \/ DiscloseAsk(r) \/
             DiscloseApproved(r) \/ DiscloseRefused(r) \/ Adopt(r) \/
             DiscloseRelease(r)
    BY <1>9, <1>6 DEF Peek, TouchSession, DiscloseLock, DisclosePeek,
       DiscloseAsk, DiscloseApproved, DiscloseRefused, Adopt,
       DiscloseRelease
  <1>10. CASE EnsureTouch(r) \/ EnsureTouched(r) \/ ChallengeLock(r) \/
             ChallengeRetouch(r) \/ ChallengeRechecked(r) \/
             ChallengeAsk(r) \/ ChallengeApproved(r)
    BY <1>10, <1>6 DEF Peek, TouchSession, EnsureTouch, EnsureTouched,
       ChallengeLock, ChallengeRetouch, ChallengeRechecked,
       ChallengeAsk, ChallengeApproved
  <1>11. CASE ChallengeRefused(r) \/ ChallengeRelease(r) \/
             ClearBackoff(r) \/ ClearDiscloseBackoff(r) \/ ServeAws(r) \/
             AwsLook(r) \/ AwsRead(r)
    BY <1>11, <1>6 DEF Peek, TouchSession, ChallengeRefused,
       ChallengeRelease, ClearBackoff, ClearDiscloseBackoff, ServeAws,
       AwsLook, AwsRead
  <1>12. CASE LockSession(r)
    BY <1>12, <1>6 DEF Peek, TouchSession, LockSession
  <1> QED
    BY <1>1, <1>2, <1>3, <1>4, <1>5, <1>7, <1>8, <1>9, <1>10, <1>11,
       <1>12 DEF Step

-----------------------------------------------------------------------------
(* What a step hands on: an approval of this session, or one that was on   *)
(* its way already; and a look of this moment to who fills the AWS cache.  *)

ApprovalStep(r) ==
    /\ local'[r].clears \in {local[r].clears, clears}
    /\ Approving(r)' => \/ local'[r].given = mek'
                        \/ /\ Approving(r)
                           /\ local'[r].given = local[r].given
                           /\ local'[r].clears = local[r].clears
FillStep(r) ==
    Where(r)' = "fill" => \/ Where(r) = "fill" /\ local'[r].got = local[r].got
                          \/ local'[r].got \in {Locked, mek'}

LEMMA StepHands ==
  ASSUME TypeOK, NEW r \in Requests, PathOk(r), Step(r)
  PROVE  ApprovalStep(r) /\ FillStep(r)
  <1> DEFINE c == Class(r)
             o == local[r].op
             p == local[r].pc
             rt == local[r].ret
             on(t) == \/ Onto(t, rt) = Where(r)
                      \/ Onto(t, rt) \notin {"adopt", "drelease", "remember", "fill"}
  <1>0. /\ p \in Places /\ rt \in Places
        /\ rt \notin Draining
    BY DEF TypeOK, Local, PathOk, PathAt
  <1>b. /\ Allowed(r) = AllowedAt(o)
        /\ \A yes \in BOOLEAN : Answered(r, yes) = IF yes THEN Yes(o) ELSE No(o)
        /\ {AllowedAt(o), Yes(o), No(o)} \subseteq Places
        /\ AllowedAt(o) \in {"touch", "served"}
        /\ Yes(o) \in {"record", "remember"} /\ No(o) \in {"done", "check"}
    BY DEF Allowed, AllowedAt, Answered, Yes, No, Places
  <1>c. ASSUME NEW t \in Places, Goto(r, t), on(t)
        PROVE  ApprovalStep(r) /\ FillStep(r)
    <2>1. Goes(r, t)
      BY <1>c, GotoMoves
    <2>2. Where(r)' = Onto(t, rt)
      BY <2>1 DEF Goes, Where
    <2> QED
      BY <1>c, <2>1, <2>2
      DEF Goes, Asked, Answer, Sees, Approving, ApprovalStep, FillStep
  <1>d. ASSUME NEW n \in Places, n \notin Draining,
               n \notin {"adopt", "drelease", "remember"},
               Peek(r, n) \/ TouchSession(r, n)
        PROVE  ApprovalStep(r) /\ FillStep(r)
    <2>1. Looks(r, n)
      BY <1>d, LookMoves
    <2>2. Where(r)' = n
      BY <1>d, <2>1 DEF Looks, Where, Onto, Draining
    <2>3. local'[r].got \in {Locked, mek'}
      BY <2>1 DEF Looks
    <2> QED
      BY <1>d, <2>1, <2>2, <2>3
      DEF Looks, Asked, Approving, ApprovalStep, FillStep
  <1>e. ASSUME NEW t, local'[r].pc = t, local'[r].ret = rt,
               local'[r].clears \in {local[r].clears, clears},
               t \notin Draining, t \notin {"adopt", "drelease", "remember", "fill"}
        PROVE  ApprovalStep(r) /\ FillStep(r)
    <2>1. Where(r)' = t
      BY <1>e DEF Where, Onto
    <2> QED
      BY <1>e, <2>1 DEF Approving, ApprovalStep, FillStep
  <1> USE DEF At
  <1>1. CASE Gate(r)
    BY <1>0, <1>d, <1>1 DEF Gate, Places, Draining
  <1>2. CASE Drain(r)
    BY <1>0, <1>b, <1>c, <1>2 DEF Drain, Places,
        Where, Onto, Draining
  <1>3. CASE DrainConsent(r)
    BY <1>0, <1>b, <1>c, <1>3 DEF DrainConsent, Places,
        Where, Onto, Draining
  <1>4. CASE DrainTrust(r)
    BY <1>0, <1>b, <1>c, <1>4 DEF DrainTrust, Places,
        Where, Onto, Draining
  <1>5. CASE GateDescent(r)
    BY <1>0, <1>b, <1>e, <1>5, DescentMoves DEF Asked, Draining
  <1>6. CASE GateLookup(r) /\ (c \notin Uncached /\ Servable(c))
    BY <1>0, <1>b, <1>e, <1>6, LookupHitMoves DEF Asked, Draining
  <1>7. CASE GateLookup(r) /\ (~(c \notin Uncached /\ Servable(c)))
    BY <1>0, <1>b, <1>c, <1>7 DEF GateLookup, Places,
        Where, Onto, Draining
  <1>8. CASE GateThrottle(r) /\ (now < refusals[c].until)
    BY <1>0, <1>b, <1>e, <1>8, ThrottledMoves DEF Asked, Draining
  <1>9. CASE GateThrottle(r) /\ (~(now < refusals[c].until))
    BY <1>0, <1>b, <1>c, <1>9 DEF GateThrottle, Places,
        Where, Onto, Draining
  <1>10. CASE GateJoin(r) /\ (pending[c] # NoOne)
    BY <1>0, <1>b, <1>e, <1>10, JoinWaits DEF Asked, Draining
  <1>11. CASE GateJoin(r) /\ (pending[c] = NoOne)
    BY <1>0, <1>b, <1>c, <1>11 DEF GateJoin, Places,
        Where, Onto, Draining
  <1>12. CASE GateWait(r)
    BY <1>0, <1>b, <1>e, <1>12, WaitMoves DEF Asked, Draining
  <1>13. CASE GateReady(r)
    BY <1>0, <1>b, <1>e, <1>13, ReadyMoves DEF Asked, Draining
  <1>14. CASE Remember(r)
    BY <1>0, <1>b, <1>c, <1>14 DEF Remember, Places,
        Where, Onto, Draining
  <1>15. CASE GateCheck(r)
    BY <1>0, <1>b, <1>c, <1>15 DEF GateCheck, Places,
        Where, Onto, Draining
  <1>16. CASE GateScore(r)
    BY <1>0, <1>b, <1>c, <1>16 DEF GateScore, Places,
        Where, Onto, Draining
  <1>17. CASE GateFinish(r)
    BY <1>0, <1>b, <1>c, <1>17 DEF GateFinish, Places,
        Where, Onto, Draining
  <1>18. CASE DiscloseTurnedAway(r)
    <2>1. PICK t \in {Yes(o), No(o)} : local'[r].pc = t /\ t \in {"done", "check"}
      BY <1>b, <1>18, TurnedAwayMoves
    <2>2. local'[r].ret = rt /\ Asked(r)
      BY <1>18, TurnedAwayMoves
    <2> QED
      BY <1>e, <2>1, <2>2 DEF Asked, Draining
  <1>19. CASE DiscloseLock(r)
    BY <1>0, <1>b, <1>c, <1>19 DEF DiscloseLock, Places,
        Where, Onto, Draining
  <1>20. CASE DisclosePeek(r)
    BY <1>0, <1>d, <1>20 DEF DisclosePeek, Places, Draining
  <1>21. CASE DiscloseAsk(r)
    BY <1>0, <1>b, <1>e, <1>21, DAskMoves DEF Asked, Draining
  <1>22. CASE DiscloseApproved(r)
    <2>1. /\ Asked(r) /\ local'[r].given = mek /\ local'[r].ret = rt
          /\ local'[r].pc \in {"adopt", "drelease"}
      BY <1>22, DApprovedMoves
    <2>2. mek' = mek
      BY <1>22 DEF DiscloseApproved, coreVars
    <2>3. Where(r)' \in {"adopt", "drelease"}
      BY <2>1 DEF Where, Onto, Draining
    <2> QED
      BY <2>1, <2>2, <2>3 DEF Asked, Approving, ApprovalStep, FillStep
  <1>23. CASE DiscloseRefused(r)
    <2>1. /\ Asked(r) /\ local'[r].verdict = "deny" /\ local'[r].ret = rt
          /\ local'[r].pc = "drelease"
      BY <1>23, DRefusedMoves
    <2>2. Where(r)' = "drelease"
      BY <2>1 DEF Where, Onto, Draining
    <2> QED
      BY <2>1, <2>2 DEF Asked, Approving, ApprovalStep, FillStep
  <1>24. CASE Adopt(r) /\ (Live)
    <2>1. /\ Asked(r) /\ Answer(r) /\ p = "adopt"
          /\ local'[r].pc = "drain" /\ local'[r].ret = "drelease"
      BY <1>24, AdoptKeepsMoves DEF Adopt
    <2>2. Where(r) = "adopt" /\ Where(r)' = "drelease"
      BY <2>1 DEF Where, Onto, Draining
    <2> QED
      BY <2>1, <2>2 DEF Asked, Answer, Approving, ApprovalStep, FillStep
  <1>25. CASE Adopt(r) /\ (~Live)
    <2>1. /\ Asked(r) /\ local'[r].given = opened + 1
          /\ local'[r].pc = "drain" /\ local'[r].ret = "drelease"
      BY <1>25, AdoptOpensMoves
    <2>2. Where(r)' = "drelease"
      BY <2>1 DEF Where, Onto, Draining
    <2>3. mek' = opened + 1
      BY <1>25 DEF Adopt, InstallSession, Install
    <2> QED
      BY <2>1, <2>2, <2>3 DEF Asked, Approving, ApprovalStep, FillStep
  <1>26. CASE DiscloseRelease(r)
    <2> DEFINE t == Answered(r, local[r].verdict = "allow")
    <2>1. p = "drelease" /\ Goto(r, t)
      BY <1>26, Zenon DEF DiscloseRelease
    <2>2. /\ t \in {Yes(o), No(o)} /\ t \in Places
          /\ t = "remember" => local[r].verdict = "allow"
      BY <1>b
    <2> HIDE DEF t
    <2>3. Goes(r, t)
      BY <2>1, <2>2, GotoMoves
    <2>4. Where(r) = "drelease" /\ Where(r)' = t
      BY <1>b, <2>1, <2>2, <2>3 DEF Goes, Where, Onto, Draining
    <2> QED
      BY <1>b, <2>2, <2>3, <2>4
      DEF Goes, Asked, Answer, Approving, ApprovalStep, FillStep
  <1>27. CASE RecordTrust(r)
    BY <1>0, <1>b, <1>c, <1>27 DEF RecordTrust, Places,
        Where, Onto, Draining
  <1>28. CASE EnsureTouch(r)
    BY <1>0, <1>d, <1>28 DEF EnsureTouch, Places, Draining
  <1>29. CASE EnsureTouched(r)
    BY <1>0, <1>b, <1>c, <1>29 DEF EnsureTouched, Places,
        Where, Onto, Draining
  <1>30. CASE ChallengeLock(r)
    BY <1>0, <1>b, <1>c, <1>30 DEF ChallengeLock, Places,
        Where, Onto, Draining
  <1>31. CASE ChallengeRetouch(r)
    BY <1>0, <1>d, <1>31 DEF ChallengeRetouch, Places, Draining
  <1>32. CASE ChallengeRechecked(r)
    BY <1>0, <1>b, <1>c, <1>32 DEF ChallengeRechecked, Places,
        Where, Onto, Draining
  <1>33. CASE ChallengeAsk(r)
    BY <1>0, <1>b, <1>c, <1>33 DEF ChallengeAsk, Places,
        Where, Onto, Draining
  <1>34. CASE ChallengeApproved(r)
    BY <1>0, <1>b, <1>e, <1>34, ApprovedMoves DEF Asked, Draining
  <1>35. CASE ChallengeRefused(r)
    BY <1>0, <1>b, <1>c, <1>35 DEF ChallengeRefused, Places,
        Where, Onto, Draining
  <1>36. CASE ChallengeRelease(r)
    BY <1>0, <1>b, <1>c, <1>36 DEF ChallengeRelease, Places,
        Where, Onto, Draining
  <1>37. CASE ClearBackoff(r)
    BY <1>0, <1>b, <1>c, <1>37 DEF ClearBackoff, Places,
        Where, Onto, Draining
  <1>38. CASE ClearDiscloseBackoff(r)
    BY <1>0, <1>b, <1>c, <1>38 DEF ClearDiscloseBackoff, Places,
        Where, Onto, Draining
  <1>39. CASE ServeUnwrap(r)
    BY <1>0, <1>b, <1>c, <1>39 DEF ServeUnwrap, Places,
        Where, Onto, Draining
  <1>40. CASE ServeAws(r)
    BY <1>0, <1>b, <1>e, <1>40, ServeAwsMoves DEF Asked, Draining
  <1>41. CASE AwsLook(r)
    BY <1>0, <1>d, <1>41 DEF AwsLook, Places, Draining
  <1>42. CASE AwsRead(r)
    BY <1>0, <1>b, <1>e, <1>42, AwsReadMoves DEF Asked, Draining
  <1>43. CASE AwsFill(r)
    BY <1>0, <1>b, <1>c, <1>43 DEF AwsFill, Places,
        Where, Onto, Draining
  <1>44. CASE AwsClear(r)
    BY <1>0, <1>b, <1>c, <1>44 DEF AwsClear, Places,
        Where, Onto, Draining
  <1>45. CASE LockSession(r)
    <2>1. /\ Asked(r)
          /\ local'[r].pc = "drainConsent" /\ local'[r].ret = "awsclear"
      BY <1>45, LockMoves
    <2>2. Where(r)' = "awsclear"
      BY <2>1 DEF Where, Onto, Draining
    <2> QED
      BY <2>1, <2>2 DEF Asked, Approving, ApprovalStep, FillStep
  <1> QED
    BY <1>1, <1>2, <1>3, <1>4, <1>5, <1>6, <1>7, <1>8, <1>9, <1>10,
       <1>11, <1>12, <1>13, <1>14, <1>15, <1>16, <1>17, <1>18, <1>19,
       <1>20, <1>21, <1>22, <1>23, <1>24, <1>25, <1>26, <1>27, <1>28,
       <1>29, <1>30, <1>31, <1>32, <1>33, <1>34, <1>35, <1>36, <1>37,
       <1>38, <1>39, <1>40, <1>41, <1>42, <1>43, <1>44, <1>45 DEF Step

LEMMA StepOpens ==
  ASSUME TypeOK, NEW r \in Requests, Step(r)
  PROVE  mek' \in {mek, Locked} \/ HeldAt(Where(r))
  <1>a. CASE Adopt(r) \/ ChallengeApproved(r)
    BY <1>a DEF Adopt, ChallengeApproved, At, HeldAt, HeldPlaces, Where, Onto,
       Draining
  <1>b. ASSUME UNCHANGED coreVars \/ Touch \/ Collect \/ Deny \/ DropNow
        PROVE  mek' \in {mek, Locked}
    BY <1>b DEF coreVars, Touch, Collect, Deny, DropNow, DropKey
  <1>1. CASE Gate(r) \/ Drain(r) \/ DrainConsent(r) \/ DrainTrust(r) \/
             GateDescent(r) \/ GateLookup(r) \/ GateThrottle(r)
    BY <1>b, <1>1 DEF Peek, TouchSession, FindLocked, CollectSession,
       Gate, Drain, DrainConsent, DrainTrust, GateDescent, GateLookup,
       GateThrottle
  <1>2. CASE GateJoin(r) \/ GateWait(r) \/ GateReady(r) \/ Remember(r) \/
             GateCheck(r) \/ GateScore(r) \/ GateFinish(r)
    BY <1>b, <1>2 DEF Peek, TouchSession, FindLocked, CollectSession,
       GateJoin, GateWait, GateReady, Remember, GateCheck, GateScore,
       GateFinish
  <1>3. CASE DiscloseTurnedAway(r) \/ DiscloseLock(r) \/ DisclosePeek(r)
             \/ DiscloseAsk(r) \/ DiscloseApproved(r) \/
             DiscloseRefused(r) \/ DiscloseRelease(r)
    BY <1>b, <1>3 DEF Peek, TouchSession, FindLocked, CollectSession,
       DiscloseTurnedAway, DiscloseLock, DisclosePeek, DiscloseAsk,
       DiscloseApproved, DiscloseRefused, DiscloseRelease
  <1>4. CASE RecordTrust(r) \/ EnsureTouch(r) \/ EnsureTouched(r) \/
             ChallengeLock(r) \/ ChallengeRetouch(r) \/
             ChallengeRechecked(r) \/ ChallengeAsk(r)
    BY <1>b, <1>4 DEF Peek, TouchSession, FindLocked, CollectSession,
       RecordTrust, EnsureTouch, EnsureTouched, ChallengeLock,
       ChallengeRetouch, ChallengeRechecked, ChallengeAsk
  <1>5. CASE ChallengeRefused(r) \/ ChallengeRelease(r) \/
             ClearBackoff(r) \/ ClearDiscloseBackoff(r) \/ ServeUnwrap(r)
             \/ ServeAws(r) \/ AwsLook(r)
    BY <1>b, <1>5 DEF Peek, TouchSession, FindLocked, CollectSession,
       ChallengeRefused, ChallengeRelease, ClearBackoff,
       ClearDiscloseBackoff, ServeUnwrap, ServeAws, AwsLook
  <1>6. CASE AwsRead(r) \/ AwsFill(r) \/ AwsClear(r) \/ LockSession(r)
    BY <1>b, <1>6 DEF Peek, TouchSession, FindLocked, CollectSession,
       AwsRead, AwsFill, AwsClear, LockSession
  <1> QED
    BY <1>a, <1>1, <1>2, <1>3, <1>4, <1>5, <1>6 DEF Step

-----------------------------------------------------------------------------
(* What the invariant keeps, whoever took the step.                        *)

LEMMA Numbers ==
  ASSUME TypeOK, SessionStep, SessionOk
  PROVE  /\ mek \in Nat /\ opened \in Nat /\ clears \in Nat /\ Locked = 0
         /\ mek' \in Nat /\ opened' \in Nat /\ opened <= opened'
         /\ SessionOk'
  BY DEF TypeOK, CoreTypeOK, Locked, SessionStep, SessionKept, SessionOpens,
         SessionEnds, SessionOk

LEMMA EndedBefore ==
  ASSUME SessionStep, NEW s, Ended(s)'
  PROVE  Ended(s) \/ (ConsentOwed' /\ (AwsOwed' \/ s \in collected'))
  <1>1. s # Locked /\ s # mek'
    BY DEF Ended, Locked
  <1>2. CASE s = mek
    BY <1>1, <1>2 DEF SessionStep, SessionKept, SessionOpens, SessionEnds
  <1> QED
    BY <1>1, <1>2 DEF Ended

LEMMA KeepsTrust ==
  ASSUME TrustOk, SessionStep, OwedStep, TrustStep
  PROVE  TrustOk'
  <1> SUFFICES ASSUME NEW t \in trustRoots', Ended(t.recorded)'
               PROVE  TrustOwed'
    BY DEF TrustOk
  <1>1. t \in trustRoots \/ (t.recorded = mek /\ mek' = mek)
    BY DEF TrustStep
  <1>2. t \in trustRoots
    BY <1>1 DEF Ended
  <1>3. CASE Ended(t.recorded)
    BY <1>2, <1>3 DEF TrustOk, OwedStep
  <1>4. CASE ConsentOwed'
    BY <1>4 DEF TrustOwed
  <1> QED
    BY <1>3, <1>4, EndedBefore

LEMMA KeepsCache ==
  ASSUME TypeOK, SessionOk, CacheOk, SessionStep, OwedStep,
         \A q \in Requests : ApprovalOk(q),
         \A c \in Classes :
            \/ cache'[c] = NoEntry \/ EntryKept(c)
            \/ \E r \in Requests : Remembers(r, c)
  PROVE  CacheOk'
  <1>0. /\ mek \in Nat /\ opened \in Nat /\ Locked = 0 /\ opened' \in Nat
        /\ opened <= opened' /\ mek' \in Nat /\ session = opened
        /\ mek' \in {Locked, opened'}
    BY Numbers DEF SessionOk
  <1> SUFFICES ASSUME NEW c \in Classes
               PROVE  /\ cache'[c].session <= opened'
                      /\ cache'[c].session = opened' /\ cache'[c].cachedIn # mek'
                         => ConsentOwed'
                      /\ Ended(cache[c].given)' => ConsentOwed'
    BY DEF CacheOk
  <1>1. CASE cache'[c] = NoEntry
    <2>1. /\ cache'[c].session = 0 /\ cache'[c].given = 0
          /\ cache'[c].cachedIn = 0
      BY <1>1 DEF NoEntry
    <2>2. ~Ended(cache[c].given)'
      BY <1>0, <2>1 DEF Ended, Locked
    <2> QED
      BY <1>0, <2>1, <2>2
  <1>2. ASSUME cache'[c] # NoEntry, ConsentOwed PROVE ConsentOwed'
    BY <1>2 DEF OwedStep, Cleared
  <1>3. ASSUME cache'[c] # NoEntry, EntryKept(c)
        PROVE  /\ cache'[c].session <= opened'
               /\ cache'[c].session = opened' /\ cache'[c].cachedIn # mek'
                  => ConsentOwed'
               /\ Ended(cache[c].given)' => ConsentOwed'
    <2>1. /\ cache[c].session \in Nat /\ cache[c].session <= opened
          /\ cache[c].session = opened /\ cache[c].cachedIn # mek
             => ConsentOwed
          /\ Ended(cache[c].given) => ConsentOwed
      BY DEF CacheOk, TypeOK
    <2>2. ASSUME Ended(cache[c].given)' PROVE ConsentOwed'
      <3>1. Ended(cache[c].given) <=> Ended(cache'[c].given)
        BY <1>3 DEF EntryKept
      <3>2. Ended(cache'[c].given) \/ ConsentOwed'
        BY <2>2 DEF Ended, SessionStep, SessionKept, SessionOpens, SessionEnds,
                    Locked
      <3> QED
        BY <1>2, <1>3, <2>1, <3>1, <3>2
    <2>3. ASSUME cache'[c].session = opened', cache'[c].cachedIn # mek'
          PROVE  ConsentOwed'
      <3>1. cache[c].session = opened' /\ cache[c].cachedIn # mek'
        BY <1>3, <2>3 DEF EntryKept
      <3>2. opened' = opened
        BY <1>0, <2>1, <3>1
      <3>3. mek' = mek \/ ConsentOwed'
        BY <1>0, <3>2 DEF SessionStep, SessionKept, SessionOpens, SessionEnds
      <3> QED
        BY <1>2, <1>3, <2>1, <3>1, <3>2, <3>3
    <2>4. cache'[c].session <= opened'
      BY <1>0, <1>3, <2>1 DEF EntryKept
    <2> QED
      BY <2>2, <2>3, <2>4
  <1>4. ASSUME cache'[c] # NoEntry, NEW r \in Requests, Remembers(r, c)
        PROVE  /\ cache'[c].session <= opened'
               /\ cache'[c].session = opened' /\ cache'[c].cachedIn # mek'
                  => ConsentOwed'
               /\ Ended(cache[c].given)' => ConsentOwed'
    <2>1. /\ cache'[c].session = opened /\ cache'[c].given = local[r].given
          /\ cache'[c].cachedIn = mek /\ mek' = mek /\ opened' = opened
      BY <1>0, <1>4 DEF Remembers
    <2>2. Approving(r) /\ local[r].clears = clears
      BY <1>4 DEF Remembers, Approving
    <2>3. Ended(local[r].given) => ConsentOwed'
      BY <1>2, <1>4, <2>2 DEF ApprovalOk
    <2>4. Ended(cache[c].given)' => Ended(local[r].given)
      BY <2>1 DEF Ended, Locked
    <2> QED
      BY <1>0, <2>1, <2>3, <2>4
  <1> QED
    BY <1>1, <1>3, <1>4

LEMMA KeepsApproval ==
  ASSUME TypeOK, TypeOK', SessionStep, OwedStep, ClearsStep, NEW q \in Requests,
         ApprovalOk(q), local'[q] = local[q] \/ ApprovalStep(q)
  PROVE  ApprovalOk(q)'
  <1>0. /\ clears \in Nat /\ clears' \in Nat
        /\ local[q].clears \in Nat /\ local'[q].clears \in Nat
    BY DEF TypeOK, Local
  <1>1. local'[q].clears \in {local[q].clears, clears}
    BY DEF ApprovalStep
  <1>2. clears' = clears \/ clears' = clears + 1
    BY DEF ClearsStep, Cleared
  <1>3. local[q].clears <= clears
    BY DEF ApprovalOk
  <1>4. local'[q].clears <= clears'
    BY <1>0, <1>1, <1>2, <1>3
  <1>5. ASSUME Approving(q)', local'[q].clears = clears', Ended(local[q].given)'
        PROVE  ConsentOwed'
    <2>1. clears' = clears /\ ~Cleared
      BY <1>0, <1>1, <1>2, <1>3, <1>5 DEF Cleared
    <2>2. local'[q].given # mek'
      BY <1>5 DEF Ended
    <2>3. local'[q] = local[q] => Approving(q)
      BY <1>5 DEF Approving, Where
    <2>4. /\ Approving(q) /\ local'[q].given = local[q].given
          /\ local'[q].clears = local[q].clears
      BY <1>5, <2>2, <2>3 DEF ApprovalStep
    <2>5. Ended(local[q].given) => ConsentOwed
      BY <1>5, <2>1, <2>4 DEF ApprovalOk
    <2>6. Ended(local[q].given) \/ ConsentOwed'
      BY <1>5, <2>4 DEF Ended, SessionStep, SessionKept, SessionOpens,
                        SessionEnds, Locked
    <2> QED
      BY <2>1, <2>5, <2>6 DEF OwedStep
  <1> QED
    BY <1>4, <1>5 DEF ApprovalOk

LEMMA KeepsAws ==
  ASSUME AwsOk, SessionStep, OwedStep, \A r \in Requests : FillOk(r),
         \/ awsCache' = awsCache \/ awsCache' = NoCredentials
         \/ \E r \in Requests : Fills(r)
  PROVE  AwsOk'
  <1> SUFFICES ASSUME awsCache'.id # 0
               PROVE  /\ awsCache'.filled # Locked
                      /\ ~awsCache'.overtaken /\ Stale(awsCache.filled)'
                         => AwsOwed'
    BY DEF AwsOk, Locked
  <1>1. awsCache' # NoCredentials
    BY DEF NoCredentials
  <1>2. AwsOwed => AwsOwed'
    BY <1>1 DEF OwedStep, Wiped
  <1>3. CASE awsCache' = awsCache
    <2>1. /\ awsCache.filled # Locked
          /\ ~awsCache.overtaken /\ Stale(awsCache.filled) => AwsOwed
      BY <1>3 DEF AwsOk
    <2>2. Stale(awsCache.filled)' => Stale(awsCache.filled) \/ AwsOwed'
      BY <1>3 DEF Stale, Ended, OwedStep, SessionStep, SessionKept,
         SessionOpens, SessionEnds, Locked
    <2> QED
      BY <1>2, <1>3, <2>1, <2>2
  <1>4. ASSUME NEW r \in Requests, Fills(r)
        PROVE  /\ awsCache'.filled # Locked
               /\ ~awsCache'.overtaken /\ Stale(awsCache.filled)' => AwsOwed'
    <2>1. /\ local[r].pc = "fill" /\ local[r].got # Locked
          /\ awsCache'.filled = local[r].got
          /\ awsCache'.overtaken = (r \in overtaken)
          /\ mek' = mek /\ collected' = collected
          /\ \E p \in awsProofs : p.process = ProcessOf[r]
      BY <1>4 DEF Fills, Proven
    <2>2. Where(r) = "fill"
      BY <2>1 DEF Where, Onto, Draining
    <2>3. Stale(awsCache.filled)' => Stale(local[r].got)
      BY <2>1 DEF Stale, Ended, Locked
    <2> QED
      BY <1>2, <2>1, <2>2, <2>3 DEF FillOk
  <1> QED
    BY <1>1, <1>3, <1>4

LEMMA KeepsFill ==
  ASSUME SessionStep, OwedStep, NEW q \in Requests, FillOk(q),
         local'[q] = local[q] \/ FillStep(q),
         overtaken \subseteq overtaken',
         \A p \in awsProofs' :
            p \in awsProofs \/ \E r \in Requests : Notes(p, r)
  PROVE  FillOk(q)'
  <1> SUFFICES ASSUME Where(q)' = "fill", Stale(local[q].got)',
                      q \notin overtaken',
                      NEW p \in awsProofs', p.process = ProcessOf[q]
               PROVE  AwsOwed'
    BY DEF FillOk
  <1>1. local'[q].got \notin {Locked, mek'}
    BY DEF Stale, Ended, Locked
  <1>2. Where(q) = "fill" /\ local'[q].got = local[q].got
    BY <1>1 DEF FillStep, Where
  <1>3. p \in awsProofs
    <2>1. local[q].pc \notin {"idle", "look"}
      BY <1>2 DEF Where, Onto, Draining
    <2> QED
      BY <2>1 DEF Notes
  <1>4. Stale(local[q].got) \/ AwsOwed'
    BY <1>2 DEF Stale, Ended, OwedStep, SessionStep, SessionKept,
       SessionOpens, SessionEnds, Locked
  <1>5. AwsOwed => AwsOwed'
    BY DEF OwedStep, Wiped
  <1> QED
    BY <1>2, <1>3, <1>4, <1>5 DEF FillOk

LEMMA KeepsHolder ==
  ASSUME TypeOK, NEW r \in Requests, Only(r), Holds(r), SessionStep,
         mek' \in {mek, Locked} \/ HeldAt(Where(r)),
         \A q \in Requests : HolderOk(q)
  PROVE  \A q \in Requests : HolderOk(q)'
  <1> SUFFICES ASSUME NEW q \in Requests PROVE HolderOk(q)'
    OBVIOUS
  <1>0. HolderOk(q) /\ HolderOk(r) /\ NoOne \notin Requests
    BY GateNoOneAssumption
  <1>1. CASE q = r
    <2>1. HeldAt(Where(r)') <=> challenger' = r
      BY <1>0 DEF Holds, Keeps, Acquires, Releases, HolderOk
    <2> QED
      BY <1>1, <2>1 DEF Holds, HolderOk, HeldAt
  <1>2. CASE q # r
    <2>1. local'[q] = local[q]
      BY <1>2 DEF Only
    <2>2. Where(q)' = Where(q) /\ (CountsOnLocked(q)' <=> CountsOnLocked(q))
      BY <2>1 DEF Where, CountsOnLocked, CountsAt, Locked
    <2>3. HeldAt(Where(q)') <=> challenger' = q
      BY <1>0, <1>2, <2>2 DEF Holds, Keeps, Acquires, Releases, HolderOk
    <2>4. CountsOnLocked(q) => HeldAt(Where(q))
      BY DEF CountsOnLocked, CountsAt, HeldAt, HeldPlaces
    <2>5. CountsOnLocked(q) => mek' = Locked
      <3>1. CountsOnLocked(q) => ~HeldAt(Where(r))
        BY <1>0, <1>2, <2>4 DEF HolderOk
      <3> QED
        BY <1>0, <3>1 DEF HolderOk
    <2> QED
      BY <2>2, <2>3, <2>5 DEF HolderOk, HeldAt, Locked
  <1> QED
    BY <1>1, <1>2

LEMMA KeepsFlight ==
  ASSUME TypeOK, NEW r \in Requests, Only(r), Flies(r), FlightOk
  PROVE  FlightOk'
  <1>0. /\ pending \in [Classes -> Requests \cup {NoOne}]
        /\ NoOne \notin Requests
        /\ \A q \in Requests : Class(q) \in Classes
    BY GateNoOneAssumption, GateClassesAssumption DEF TypeOK, Class
  <1>1. \A q \in Requests : q # r => (Leads(q)' <=> Leads(q))
    BY DEF Only, Leads, Where
  <1>2. /\ \A q \in Requests : Leads(q) <=> pending[Class(q)] = q
        /\ \A c \in Classes : pending[c] # NoOne => Class(pending[c]) = c
    BY DEF FlightOk
  <1>3. Leads(r) <=> pending[Class(r)] = r
    BY <1>2
  <1>c. \A q : Class(q)' = Class(q)
    BY DEF Class
  <1>4. /\ \A q \in Requests : Leads(q)' <=> pending'[Class(q)] = q
        /\ \A c \in Classes : pending'[c] # NoOne => Class(pending'[c]) = c
    <2>1. CASE pending' = pending /\ (Leads(r)' <=> Leads(r))
      BY <1>1, <1>2, <2>1
    <2>2. CASE /\ pending[Class(r)] = NoOne /\ Leads(r)'
               /\ pending' = [pending EXCEPT ![Class(r)] = r]
      <3>1. /\ pending'[Class(r)] = r
            /\ \A c \in Classes : c # Class(r) => pending'[c] = pending[c]
        BY <1>0, <2>2
      <3> QED
        BY <1>0, <1>1, <1>2, <2>2, <3>1
    <2>3. CASE /\ Leads(r) /\ ~Leads(r)'
               /\ pending' = [pending EXCEPT ![Class(r)] = NoOne]
      <3>1. /\ pending'[Class(r)] = NoOne
            /\ \A c \in Classes : c # Class(r) => pending'[c] = pending[c]
        BY <1>0, <2>3
      <3> QED
        BY <1>0, <1>1, <1>2, <1>3, <2>3, <3>1
    <2> QED
      BY <2>1, <2>2, <2>3 DEF Flies
  <1> QED
    BY <1>4 DEF FlightOk, Class

LEMMA KeepsPaths ==
  ASSUME NEW r \in Requests, Only(r), PathOk(r)',
         \A q \in Requests : PathOk(q)
  PROVE  \A q \in Requests : PathOk(q)'
  BY DEF Only, PathOk

\* A step of a request.
LEMMA StepInv ==
  ASSUME IInv, NEW r \in Requests, Step(r)
  PROVE  IInv' /\ [CoreNext]_coreVars
  <1>0. /\ TypeOK /\ SessionOk /\ FlightOk /\ CacheOk /\ TrustOk
        /\ AwsOk
        /\ \A q \in Requests : /\ PathOk(q) /\ HolderOk(q)
                               /\ ApprovalOk(q) /\ FillOk(q)
    BY DEF IInv, Parts
  <1>1. Only(r) /\ PathOk(r)'
    BY <1>0, StepPath
  <1>2. SessionStep /\ OwedStep /\ [CoreNext]_coreVars
    BY <1>0, StepOwes
  <1>3. Holds(r) /\ Flies(r)
    BY <1>0, StepHolds, StepFlies
  <1>4. ApprovalStep(r) /\ FillStep(r)
    BY <1>0, StepHands
  <1>5. EngineTypeOK' /\ CacheStep(r) /\ ClearsStep
    BY <1>0, StepEngine
  <1>6. DataTypeOK' /\ TrustStep /\ ProofStep(r) /\ AwsStep(r)
    BY <1>0, StepData
  <1>7. TypeOK'
    <2>1. CoreTypeOK'
      BY <1>0, <1>2, CoreTypeStep, TypeParts
    <2>2. ChallengeTypeOK' /\ LockTypeOK'
      BY <1>0, StepChallenge, StepLocksType
    <2>3. (local \in [Requests -> Local])'
      BY <1>1 DEF Only
    <2> QED
      BY <1>5, <1>6, <2>1, <2>2, <2>3
      DEF TypeOK, EngineTypeOK, ChallengeTypeOK, LockTypeOK, DataTypeOK,
          Entry0, Pause
  <1>8. SessionOk'
    BY <1>0, <1>2, Numbers
  <1>9. TrustOk'
    BY <1>0, <1>2, <1>6, KeepsTrust
  <1>10. CacheOk'
    <2>1. \A c \in Classes :
            \/ cache'[c] = NoEntry \/ EntryKept(c)
            \/ \E q \in Requests : Remembers(q, c)
      BY <1>5 DEF CacheStep
    <2> QED
      BY <1>0, <1>2, <2>1, KeepsCache
  <1>11. ASSUME NEW q \in Requests PROVE ApprovalOk(q)'
    <2>1. local'[q] = local[q] \/ ApprovalStep(q)
      BY <1>1, <1>4 DEF Only
    <2> QED
      BY <1>0, <1>2, <1>5, <1>7, <2>1, KeepsApproval
  <1>12. AwsOk'
    <2>1. \/ awsCache' = awsCache \/ awsCache' = NoCredentials
          \/ \E q \in Requests : Fills(q)
      BY <1>6 DEF AwsStep
    <2> QED
      BY <1>0, <1>2, <2>1, KeepsAws
  <1>13. ASSUME NEW q \in Requests PROVE FillOk(q)'
    <2>1. local'[q] = local[q] \/ FillStep(q)
      BY <1>1, <1>4 DEF Only
    <2>2. /\ overtaken \subseteq overtaken'
          /\ \A p \in awsProofs' :
                p \in awsProofs \/ \E s \in Requests : Notes(p, s)
      BY <1>6 DEF ProofStep
    <2> QED
      BY <1>0, <1>2, <2>1, <2>2, KeepsFill
  <1>14. \A q \in Requests : HolderOk(q)'
    <2>1. mek' \in {mek, Locked} \/ HeldAt(Where(r))
      BY <1>0, StepOpens
    <2> QED
      BY <1>0, <1>1, <1>2, <1>3, <2>1, KeepsHolder
  <1>15. FlightOk' /\ \A q \in Requests : PathOk(q)'
    BY <1>0, <1>1, <1>3, KeepsFlight, KeepsPaths
  <1>16. Parts'
    BY <1>8, <1>9, <1>10, <1>11, <1>12, <1>13, <1>14, <1>15 DEF Parts
  <1> QED
    BY <1>2, <1>7, <1>16 DEF IInv

-----------------------------------------------------------------------------
(* The other steps: a call comes in, a timer goes off, time passes.        *)

\* A step that leaves the requests, their flights and challengeMu alone, and
\* of the data at most clears some.
LEMMA CalmInv ==
  ASSUME IInv, TypeOK', UNCHANGED <<local, challenger, pending>>,
         SessionStep, mek' \in {mek, Locked}, OwedStep, ClearsStep,
         \A c \in Classes : cache'[c] = NoEntry \/ EntryKept(c),
         trustRoots' \in {{}, trustRoots}, awsProofs' \in {{}, awsProofs},
         awsCache' \in {NoCredentials, awsCache}, overtaken' = overtaken
  PROVE  IInv'
  <1>0. /\ TypeOK /\ SessionOk /\ FlightOk /\ CacheOk /\ TrustOk
        /\ AwsOk
        /\ \A q \in Requests : /\ PathOk(q) /\ HolderOk(q)
                               /\ ApprovalOk(q) /\ FillOk(q)
    BY DEF IInv, Parts
  <1>1. local' = local /\ challenger' = challenger /\ pending' = pending
    OBVIOUS
  <1>2. SessionOk'
    BY <1>0, Numbers
  <1>3. TrustOk'
    <2>1. TrustStep
      BY DEF TrustStep
    <2> QED
      BY <1>0, <2>1, KeepsTrust
  <1>4. CacheOk'
    BY <1>0, KeepsCache
  <1>5. \A q \in Requests : ApprovalOk(q)'
    BY <1>0, <1>1, KeepsApproval
  <1>6. AwsOk'
    BY <1>0, KeepsAws
  <1>7. ASSUME NEW q \in Requests PROVE FillOk(q)'
    <2>1. \A p \in awsProofs' :
            p \in awsProofs \/ \E s \in Requests : Notes(p, s)
      OBVIOUS
    <2> QED
      BY <1>0, <1>1, <2>1, KeepsFill
  <1>8. \A q \in Requests : HolderOk(q)'
    BY <1>0, <1>1 DEF HolderOk, CountsOnLocked, CountsAt, HeldAt, Where, Locked
  <1>9. FlightOk'
    BY <1>0, <1>1 DEF FlightOk, Leads, Where, Class
  <1>10. \A q \in Requests : PathOk(q)'
    BY <1>0, <1>1 DEF PathOk
  <1>11. Parts'
    BY <1>2, <1>3, <1>4, <1>5, <1>6, <1>7, <1>8, <1>9, <1>10 DEF Parts
  <1> QED
    BY <1>11 DEF IInv

\* A lock goroutine drops the key: it owes what it clears next.
LEMMA TimerLocksInv ==
  ASSUME IInv, TimerLocks
  PROVE  IInv' /\ [CoreNext]_coreVars
  <1>0. TypeOK /\ tails \in [TailStages -> Nat] /\ "consent" \in TailStages
    BY DEF IInv, TypeOK, TailStages
  <1>1. /\ DropTimed /\ tails' = [tails EXCEPT !["consent"] = tails["consent"] + 1]
        /\ UNCHANGED <<local, engineVars, challengeVars, lockParked, collected,
                       trustRoots, awsVars>>
    BY DEF TimerLocks
  <1>2. [CoreNext]_coreVars /\ mek' = Locked /\ opened' = opened
    BY <1>1 DEF CoreNext, DropTimed, DropKey
  <1>3. tails' \in [TailStages -> Nat]
    BY <1>0, <1>1
  <1>4. tails'["consent"] > 0
    BY <1>0, <1>1
  <1>5. ConsentOwed' /\ TrustOwed' /\ AwsOwed'
    BY <1>4 DEF ConsentOwed, TrustOwed, AwsOwed
  <1>6. SessionStep /\ OwedStep /\ ClearsStep
    BY <1>1, <1>2, <1>5
    DEF SessionStep, SessionEnds, OwedStep, ClearsStep, engineVars
  <1>7. TypeOK'
    <2>1. CoreTypeOK'
      BY <1>0, <1>2, CoreTypeStep, TypeParts
    <2> QED
      BY <1>0, <1>1, <1>3, <2>1
      DEF TypeOK, engineVars, challengeVars, awsVars
  <1>8. \A c \in Classes : cache'[c] = NoEntry \/ EntryKept(c)
    BY <1>1 DEF engineVars, EntryKept
  <1>9. /\ UNCHANGED <<local, challenger, pending>>
        /\ trustRoots' = trustRoots /\ awsProofs' = awsProofs
        /\ awsCache' = awsCache /\ overtaken' = overtaken
    BY <1>1 DEF engineVars, challengeVars, awsVars
  <1> QED
    BY <1>2, <1>6, <1>7, <1>8, <1>9, CalmInv

\* It clears consent, then trust, then the AWS cache, and passes on what is
\* left to clear.
LEMMA TimerClearsInv ==
  ASSUME IInv, TimerClearsConsent \/ TimerClearsTrust \/ TimerClearsAws
  PROVE  IInv' /\ [CoreNext]_coreVars
  <1>0. /\ TypeOK /\ tails \in [TailStages -> Nat]
        /\ TailStages = {"consent", "trust", "aws"}
        /\ EngineTypeOK /\ DataTypeOK
    BY TypeParts DEF IInv, TypeOK, TailStages
  <1>1. UNCHANGED <<coreVars, local, challengeVars, lockParked, collected>>
        /\ pending' = pending /\ session' = session
    BY DEF TimerClearsConsent, TimerClearsTrust, TimerClearsAws, EngineClear,
           engineVars
  <1>2. [CoreNext]_coreVars /\ mek' = mek /\ opened' = opened
    BY <1>1 DEF coreVars
  <1>3. SessionStep
    BY <1>1, <1>2 DEF SessionStep, SessionKept
  <1>4. CASE TimerClearsConsent
    <2>1. /\ EngineClear /\ tails["consent"] > 0
          /\ tails' = [tails EXCEPT !["consent"] = tails["consent"] - 1,
                                    !["trust"] = tails["trust"] + 1]
          /\ UNCHANGED <<trustRoots, awsVars>>
      BY <1>4 DEF TimerClearsConsent
    <2>2. /\ tails' \in [TailStages -> Nat] /\ tails'["trust"] > 0
      BY <1>0, <2>1
    <2>3. EngineTypeOK' /\ Cleared /\ \A c \in Classes : cache'[c] = NoEntry
      BY <1>0, <2>1, ClearedEngine
    <2>4. TrustOwed' /\ AwsOwed'
      BY <2>2 DEF TrustOwed, AwsOwed
    <2>5. OwedStep /\ ClearsStep
      BY <1>1, <2>3, <2>4 DEF OwedStep, ClearsStep
    <2>6. TypeOK'
      BY <1>0, <1>1, <2>1, <2>2, <2>3
      DEF TypeOK, CoreTypeOK, coreVars, challengeVars, awsVars, EngineTypeOK,
          Entry0, Pause
    <2>7. UNCHANGED <<local, challenger, pending, overtaken, trustRoots,
                      awsProofs, awsCache>>
      BY <1>1, <2>1 DEF challengeVars, awsVars
    <2> QED
      BY <1>2, <1>3, <2>3, <2>5, <2>6, <2>7, CalmInv
  <1>5. CASE TimerClearsTrust
    <2>1. /\ trustRoots' = {} /\ tails["trust"] > 0
          /\ tails' = [tails EXCEPT !["trust"] = tails["trust"] - 1,
                                    !["aws"] = tails["aws"] + 1]
          /\ UNCHANGED <<engineVars, awsVars>>
      BY <1>5 DEF TimerClearsTrust
    <2>2. /\ tails' \in [TailStages -> Nat] /\ tails'["aws"] > 0
          /\ tails'["consent"] = tails["consent"]
      BY <1>0, <2>1
    <2>4. AwsOwed' /\ (ConsentOwed => ConsentOwed')
      BY <1>1, <2>2 DEF AwsOwed, ConsentOwed
    <2>5. OwedStep /\ ClearsStep
      BY <1>1, <2>1, <2>4 DEF OwedStep, ClearsStep, engineVars
    <2>6. TypeOK'
      BY <1>0, <1>1, <2>1, <2>2
      DEF TypeOK, CoreTypeOK, coreVars, challengeVars, awsVars, engineVars
    <2>7. UNCHANGED <<local, challenger, pending, overtaken, cache, awsProofs, awsCache>>
      BY <1>1, <2>1 DEF challengeVars, awsVars, engineVars
    <2>8. \A c \in Classes : EntryKept(c)
      BY <2>7 DEF EntryKept
    <2> QED
      BY <1>2, <1>3, <2>1, <2>5, <2>6, <2>7, <2>8, CalmInv
  <1>6. CASE TimerClearsAws
    <2>1. /\ WipeAws /\ tails["aws"] > 0
          /\ tails' = [tails EXCEPT !["aws"] = tails["aws"] - 1]
          /\ UNCHANGED <<engineVars, trustRoots>>
      BY <1>6 DEF TimerClearsAws
    <2>2. /\ tails' \in [TailStages -> Nat]
          /\ tails'["consent"] = tails["consent"]
          /\ tails'["trust"] = tails["trust"]
      BY <1>0, <2>1
    <2>3. DataTypeOK' /\ Wiped /\ overtaken' = overtaken
      BY <1>0, <2>1, WipedType
    <2>4. /\ ConsentOwed => ConsentOwed'
          /\ TrustOwed => TrustOwed'
      BY <1>1, <2>2 DEF ConsentOwed, TrustOwed
    <2>5. OwedStep /\ ClearsStep
      BY <1>1, <2>1, <2>3, <2>4 DEF OwedStep, ClearsStep, engineVars
    <2>6. TypeOK'
      BY <1>0, <1>1, <2>1, <2>2, <2>3
      DEF TypeOK, CoreTypeOK, coreVars, challengeVars, engineVars, DataTypeOK
    <2>7. UNCHANGED <<local, challenger, pending, cache, trustRoots>>
      BY <1>1, <2>1 DEF challengeVars, engineVars
    <2>8. \A c \in Classes : EntryKept(c)
      BY <2>7 DEF EntryKept
    <2>9. awsProofs' = {} /\ awsCache' = NoCredentials
      BY <2>3 DEF Wiped
    <2> QED
      BY <1>2, <1>3, <2>3, <2>5, <2>6, <2>7, <2>8, <2>9, CalmInv
  <1> QED
    BY <1>4, <1>5, <1>6

\* Time passes, a timer goes off or finds itself stopped, or nothing happens.
LEMMA IdleInv ==
  ASSUME IInv, TimerFires \/ TimerNeutralized \/ Tick \/ UNCHANGED coreVars,
         UNCHANGED <<local, engineVars, challengeVars, lockVars, trustRoots,
                     awsVars>>
  PROVE  IInv' /\ [CoreNext]_coreVars
  <1>0. TypeOK
    BY DEF IInv
  <1>1. [CoreNext]_coreVars /\ mek' = mek /\ opened' = opened
    BY DEF CoreNext, TimerFires, TimerNeutralized, Tick, coreVars
  <1>2. /\ local' = local /\ lockParked' = lockParked /\ tails' = tails
        /\ collected' = collected /\ session' = session
        /\ clears' = clears /\ cache' = cache /\ trustRoots' = trustRoots
        /\ awsCache' = awsCache /\ awsProofs' = awsProofs
        /\ overtaken' = overtaken
        /\ challenger' = challenger /\ pending' = pending
    BY DEF engineVars, challengeVars, lockVars, awsVars
  <1>3. SessionStep
    BY <1>1, <1>2 DEF SessionStep, SessionKept
  <1>4. OwedStep
    BY <1>2 DEF OwedStep, ConsentOwed, TrustOwed, AwsOwed
  <1>5. ClearsStep /\ \A c \in Classes : EntryKept(c)
    BY <1>2 DEF ClearsStep, EntryKept
  <1>6. TypeOK'
    <2>1. CoreTypeOK'
      BY <1>0, <1>1, CoreTypeStep, TypeParts
    <2> QED
      BY <1>0, <2>1 DEF TypeOK, engineVars, challengeVars, lockVars, awsVars
  <1> QED
    BY <1>1, <1>2, <1>3, <1>4, <1>5, <1>6, CalmInv

\* A call comes in.
LEMMA AskInv ==
  ASSUME IInv, NEW r \in Requests, Ask(r)
  PROVE  IInv' /\ [CoreNext]_coreVars
  <1>0. /\ TypeOK /\ SessionOk /\ FlightOk /\ CacheOk /\ TrustOk
        /\ AwsOk
        /\ \A q \in Requests : /\ PathOk(q) /\ HolderOk(q)
                               /\ ApprovalOk(q) /\ FillOk(q)
    BY DEF IInv, Parts
  <1>1. PICK o \in OpsOf[r] :
           local' = [local EXCEPT ![r].pc = Entry(o), ![r].op = o]
    BY DEF Ask
  <1>2. /\ local[r].pc = "idle"
        /\ UNCHANGED <<coreVars, engineVars, challengeVars, lockVars,
                       trustRoots, awsVars>>
    BY DEF Ask, At
  <1>3. o \in AllOps
    BY GateOpsAssumption
  <1> DEFINE e == Entry(o)
  <1>4. /\ e \in Places
        /\ e \in {"gate", "touch", "dqueue", "lock", "look", "awsclear"}
        /\ e = "dqueue" => o = "trust"
        /\ o = "lock" => e = "lock"
    BY <1>3 DEF AllOps, Entry, Places
  <1>5. ASSUME NEW u, ~u, NEW rt, rt \notin Draining
        PROVE  PathAt(o, Entry(o), rt, u)
    BY <1>3, <1>5 DEF AllOps, Entry, PathAt, Onto, Draining, GatePlaces, KeyPlaces
  <1> HIDE DEF e
  <1> DEFINE l == [local[r] EXCEPT !.pc = e, !.op = o]
  <1>6. /\ l \in Local /\ l.pc = e /\ l.op = o /\ l.ret = local[r].ret
        /\ l.unlocking = local[r].unlocking /\ l.clears = local[r].clears
    <2>1. local[r] \in Local /\ e \in Places /\ o \in AllOps \cup {"none"}
      BY <1>0, <1>3, <1>4 DEF TypeOK
    <2> QED
      BY <2>1 DEF Local
  <1>7. local' = [local EXCEPT ![r] = l]
    BY <1>1, Zenon DEF e
  <1> HIDE DEF l
  <1>8. /\ local' \in [Requests -> Local] /\ local'[r] = l
        /\ \A q \in Requests : q # r => local'[q] = local[q]
    BY <1>0, <1>6, <1>7 DEF TypeOK
  <1>9. local[r].ret \notin Draining /\ ~local[r].unlocking
    <2>1. local[r].ret \notin Draining
      BY <1>0 DEF PathOk, PathAt
    <2>2. local[r].op = "none"
      BY <1>0, <1>2 DEF PathOk, PathAt, Onto, Draining
    <2> QED
      BY <1>0, <2>1, <2>2 DEF PathOk, PathAt
  <1>10. Where(r) = "idle" /\ Where(r)' = e
    BY <1>2, <1>4, <1>6, <1>8 DEF Where, Onto, Draining
  <1>11. /\ mek' = mek /\ opened' = opened /\ session' = session
         /\ lockParked' = lockParked /\ tails' = tails
         /\ collected' = collected /\ clears' = clears /\ cache' = cache
         /\ trustRoots' = trustRoots /\ awsCache' = awsCache
         /\ awsProofs' = awsProofs /\ overtaken' = overtaken
         /\ challenger' = challenger
         /\ pending' = pending /\ UNCHANGED coreVars
    BY <1>2 DEF coreVars, engineVars, challengeVars, lockVars, awsVars
  <1>12. SessionStep
    BY <1>11 DEF SessionStep, SessionKept
  <1>13. OwedStep
    <2>1. \A q \in Requests :
            /\ local[q].pc = "drainConsent" => local'[q].pc = "drainConsent"
            /\ local[q].pc = "drainTrust" => local'[q].pc = "drainTrust"
            /\ local[q].op = "lock" /\ local[q].pc \in {"drainConsent", "drainTrust", "awsclear"}
               => local'[q].op = "lock" /\ local'[q].pc = local[q].pc
      BY <1>2, <1>8
    <2> QED
      BY <1>11, <2>1 DEF OwedStep, ConsentOwed, TrustOwed, AwsOwed
  <1>14. ClearsStep /\ \A c \in Classes : EntryKept(c)
    BY <1>11 DEF ClearsStep, EntryKept
  <1>15. TypeOK'
    BY <1>0, <1>2, <1>8
    DEF TypeOK, CoreTypeOK, coreVars, engineVars, challengeVars, lockVars, awsVars
  <1>16. SessionOk'
    BY <1>0, <1>12, Numbers
  <1>17. TrustOk'
    <2>1. TrustStep
      BY <1>11 DEF TrustStep
    <2> QED
      BY <1>0, <1>12, <1>13, <2>1, KeepsTrust
  <1>18. CacheOk'
    BY <1>0, <1>12, <1>13, <1>14, KeepsCache
  <1>19. ASSUME NEW q \in Requests PROVE ApprovalOk(q)'
    <2>1. ApprovalStep(r)
      BY <1>4, <1>6, <1>8, <1>10 DEF ApprovalStep, Approving
    <2>2. local'[q] = local[q] \/ ApprovalStep(q)
      BY <1>8, <2>1
    <2> QED
      BY <1>0, <1>12, <1>13, <1>14, <1>15, <2>2, KeepsApproval
  <1>20. AwsOk'
    BY <1>0, <1>11, <1>12, <1>13, KeepsAws
  <1>21. ASSUME NEW q \in Requests PROVE FillOk(q)'
    <2>1. FillStep(r)
      BY <1>4, <1>10 DEF FillStep
    <2>2. local'[q] = local[q] \/ FillStep(q)
      BY <1>8, <2>1
    <2>3. /\ overtaken \subseteq overtaken'
          /\ \A p \in awsProofs' :
                p \in awsProofs \/ \E s \in Requests : Notes(p, s)
      BY <1>11
    <2> QED
      BY <1>0, <1>12, <1>13, <2>2, <2>3, KeepsFill
  <1>22. ASSUME NEW q \in Requests PROVE HolderOk(q)'
    <2>1. CASE q = r
      <3>1. /\ HeldAt(Where(r)) <=> FALSE
            /\ HeldAt(Where(r)') <=> FALSE
            /\ ~CountsOnLocked(r)'
        BY <1>4, <1>10 DEF HeldAt, HeldPlaces, CountsOnLocked, CountsAt
      <3>2. challenger' # r
        BY <1>0, <1>11, <3>1 DEF HolderOk
      <3> QED
        BY <2>1, <3>1, <3>2 DEF HolderOk, HeldAt
    <2>2. CASE q # r
      <3>1. local'[q] = local[q]
        BY <1>8, <2>2
      <3> QED
        BY <1>0, <1>11, <3>1 DEF HolderOk, CountsOnLocked, CountsAt, HeldAt, Where, Locked
    <2> QED
      BY <2>1, <2>2
  <1>23. FlightOk'
    <2>1. ~Leads(r) /\ ~Leads(r)'
      <3>1. ~Leads(r)
        BY <1>10 DEF Leads, LeadsAt, FlightPlaces
      <3>2. ~Leads(r)'
        BY <1>4, <1>6, <1>8, <1>10 DEF Leads, LeadsAt, FlightPlaces
      <3> QED
        BY <3>1, <3>2
    <2>2. \A q \in Requests : Leads(q)' <=> Leads(q)
      BY <1>8, <2>1 DEF Leads, Where
    <2> QED
      BY <1>0, <1>11, <2>2 DEF FlightOk, Class
  <1>24. ASSUME NEW q \in Requests PROVE PathOk(q)'
    <2>1. CASE q = r
      <3>1. PathAt(o, e, local[r].ret, local[r].unlocking)
        BY <1>5, <1>9 DEF e
      <3> QED
        BY <1>6, <1>8, <2>1, <3>1 DEF PathOk
    <2>2. CASE q # r
      BY <1>0, <1>8, <2>2 DEF PathOk
    <2> QED
      BY <2>1, <2>2
  <1>25. Parts'
    BY <1>16, <1>17, <1>18, <1>19, <1>20, <1>21, <1>22, <1>23, <1>24
    DEF Parts
  <1> QED
    BY <1>11, <1>15, <1>25 DEF IInv

-----------------------------------------------------------------------------
(* The theorems.                                                           *)

LEMMA InitInv == Init => IInv
  <1> SUFFICES ASSUME Init PROVE IInv
    OBVIOUS
  <1>1. CoreTypeOK /\ mek = Locked /\ opened = 0
    BY CoreInitInv DEF Init, CoreInit, CoreInv
  <1> DEFINE l == [pc |-> "idle", ret |-> "idle", op |-> "none", got |-> Locked,
                   verdict |-> "none", unlocking |-> FALSE, leader |-> NoOne,
                   clears |-> 0, given |-> Locked,
                   held |-> NoCredentials, data |-> "none"]
  <1>2. l \in Local
    BY DEF Local, Places, Locked, NoCredentials, Credentials
  <1>3. local = [r \in Requests |-> l]
    BY DEF Init
  <1>4. /\ l.pc = "idle" /\ l.ret = "idle" /\ l.op = "none" /\ l.got = Locked
        /\ l.verdict = "none" /\ l.unlocking = FALSE /\ l.clears = 0
    OBVIOUS
  <1> HIDE DEF l
  <1>5. local \in [Requests -> Local] /\ \A r \in Requests : local[r] = l
    BY <1>2, <1>3
  <1>6. /\ cache = [c \in Classes |-> NoEntry] /\ trustRoots = {}
        /\ awsCache = NoCredentials /\ awsProofs = {} /\ clears = 0
        /\ session = 0 /\ pending = [c \in Classes |-> NoOne]
        /\ challenger = NoOne
    BY DEF Init
  <1>7. TypeOK
    <2>1. EngineTypeOK
      BY <1>6 DEF EngineTypeOK, Init, NoEntry, NoRefusal, Entry0, Pause
    <2>2. ChallengeTypeOK
      BY DEF ChallengeTypeOK, Init, NoRefusal, Pause
    <2>3. LockTypeOK
      BY DEF LockTypeOK, Init
    <2>4. DataTypeOK
      BY DEF DataTypeOK, Init, NoCredentials, Credentials
    <2> QED
      BY <1>1, <1>5, <2>1, <2>2, <2>3, <2>4, TypeParts
  <1>8. \A r \in Requests : Where(r) = "idle" /\ local[r].pc = "idle"
    BY <1>4, <1>5 DEF Where, Onto, Draining
  <1>9. SessionOk /\ CacheOk /\ TrustOk /\ AwsOk
    BY <1>1, <1>6, <1>8
    DEF SessionOk, CacheOk, TrustOk, AwsOk, NoEntry,
        NoCredentials, Ended, Locked
  <1>10. FlightOk
    BY <1>6, <1>8, GateNoOneAssumption, GateClassesAssumption
    DEF FlightOk, Leads, LeadsAt, FlightPlaces, Class
  <1>11. ASSUME NEW r \in Requests
         PROVE  PathOk(r) /\ HolderOk(r) /\ ApprovalOk(r) /\ FillOk(r)
    <2>1. PathOk(r)
      BY <1>4, <1>5 DEF PathOk, PathAt, Onto, Draining
    <2>2. HolderOk(r)
      BY <1>6, <1>8, GateNoOneAssumption
      DEF HolderOk, HeldAt, HeldPlaces, CountsOnLocked, CountsAt
    <2>3. ApprovalOk(r)
      BY <1>4, <1>5, <1>6, <1>8 DEF ApprovalOk, Approving
    <2>4. FillOk(r)
      BY <1>8 DEF FillOk
    <2> QED
      BY <2>1, <2>2, <2>3, <2>4
  <1> QED
    BY <1>7, <1>9, <1>10, <1>11 DEF IInv, Parts

LEMMA NextInv == IInv /\ [Next]_vars => IInv' /\ [CoreNext]_coreVars
  <1> SUFFICES ASSUME IInv, [Next]_vars PROVE IInv' /\ [CoreNext]_coreVars
    OBVIOUS
  <1>1. ASSUME NEW r \in Requests, Ask(r) \/ Step(r)
        PROVE  IInv' /\ [CoreNext]_coreVars
    BY <1>1, AskInv, StepInv
  <1>2. CASE TimerStep
    <2>1. CASE /\ TimerFires \/ TimerNeutralized
               /\ UNCHANGED <<local, engineVars, challengeVars, lockVars,
                              trustRoots, awsVars>>
      BY <2>1, IdleInv
    <2>2. CASE TimerLocks
      BY <2>2, TimerLocksInv
    <2>3. CASE TimerClearsConsent \/ TimerClearsTrust \/ TimerClearsAws
      BY <2>3, TimerClearsInv
    <2> QED
      BY <1>2, <2>1, <2>2, <2>3 DEF TimerStep
  <1>3. CASE Clock
    BY <1>3, IdleInv DEF Clock
  <1>4. CASE UNCHANGED vars
    BY <1>4, IdleInv DEF vars
  <1> QED
    BY <1>1, <1>2, <1>3, <1>4 DEF Next, Finished

LEMMA GateInvariant == Spec => []IInv
  BY InitInv, NextInv, PTL DEF Spec

\* The consent gate, with the prompts, trust and the AWS cache around it, runs
\* the session only through the steps the session's specification has, and
\* installs a key only where none is resident (installSessionLocked's
\* contract, held by challengeMu).
THEOREM GateImplementsCore == Spec => CoreSpec
  <1>1. Init => CoreInit
    BY DEF Init
  <1> QED
    BY <1>1, NextInv, GateInvariant, PTL DEF Spec, CoreSpec

\* A key in memory is always watched, also under every interleaving of the
\* gate, the prompts and the lock goroutines.
THEOREM GateKeyIsWatched == Spec => []KeyIsWatched
  BY GateImplementsCore, CoreKeyIsWatched, PTL

\* What a human allowed in a session ends with it: once the end of a session
\* has been dealt with, no approval and no trust of it is left to answer
\* (Engine.remember against Engine.Clear; lockIfGen, notifyPendingLock).
THEOREM GateAllowedInItsSession == Spec => []AllowedInItsSession
  <1>1. IInv => AllowedInItsSession
    <2> SUFFICES ASSUME IInv PROVE AllowedInItsSession
      OBVIOUS
    <2>1. TypeOK /\ SessionOk /\ CacheOk /\ TrustOk
      BY DEF IInv, Parts
    <2>2. Settled => ~ConsentOwed /\ ~TrustOwed
      <3>1. TailStages = {"consent", "trust", "aws"}
        BY DEF TailStages
      <3>2. \A s \in TailStages : tails[s] = 0 => ~(tails[s] > 0)
        BY <2>1 DEF TypeOK
      <3> QED
        BY <3>1, <3>2 DEF Settled, ConsentOwed, TrustOwed
    <2>3. ApprovalsEndWithTheirSession
      <3> SUFFICES ASSUME Settled, NEW c \in Classes, Servable(c)
                   PROVE  /\ cache[c].given \in {Locked, mek}
                          /\ cache[c].cachedIn = mek
        BY DEF ApprovalsEndWithTheirSession
      <3>1. cache[c].session = opened
        BY <2>1 DEF Servable, SessionOk
      <3> QED
        BY <2>1, <2>2, <3>1 DEF CacheOk, Ended
    <2>4. TrustEndsWithItsSession
      BY <2>1, <2>2 DEF TrustEndsWithItsSession, TrustOk, Ended
    <2> QED
      BY <2>1, <2>3, <2>4 DEF AllowedInItsSession
  <1> QED
    BY <1>1, GateInvariant, PTL

\* One flight per class: whoever was let through joinFlight as leader is the
\* one pending, and a class with a leader has one that will finish.
THEOREM GateOneLeaderPerClass == Spec => []OneLeaderPerClass
  <1>1. IInv => OneLeaderPerClass
    <2> SUFFICES ASSUME IInv PROVE OneLeaderPerClass
      OBVIOUS
    <2>1. /\ TypeOK /\ FlightOk /\ \A r \in Requests : PathOk(r)
      BY DEF IInv, Parts
    <2>2. ASSUME NEW r \in Requests, InFlight(r) PROVE pending[Class(r)] = r
      <3>1. /\ local[r].op \in {"unwrap", "awsget"}
            /\ local[r].pc \in FlightPlaces
        BY <2>2 DEF InFlight, FlightPlaces
      <3>2. local[r].pc \notin Draining
        BY <3>1 DEF FlightPlaces, Draining
      <3>3. Leads(r)
        BY <3>1, <3>2 DEF Leads, LeadsAt, Where, Onto
      <3> QED
        BY <2>1, <3>3 DEF FlightOk
    <2>3. ASSUME NEW c \in Classes, pending[c] # NoOne
          PROVE  /\ Class(pending[c]) = c
                 /\ \/ InFlight(pending[c])
                    \/ local[pending[c]].pc \in {"drain", "drainConsent", "drainTrust"}
      <3> DEFINE r == pending[c]
      <3>1. r \in Requests /\ Class(r) = c
        BY <2>1, <2>3 DEF TypeOK, FlightOk
      <3>2. Leads(r)
        BY <2>1, <3>1 DEF FlightOk
      <3>3. /\ local[r].op \in {"unwrap", "awsget"}
            /\ local[r].pc \in Draining \/ local[r].pc \in FlightPlaces
        BY <3>2 DEF Leads, LeadsAt, Where, Onto
      <3> QED
        BY <3>1, <3>3 DEF InFlight, FlightPlaces, Draining
    <2> QED
      BY <2>2, <2>3 DEF OneLeaderPerClass
  <1> QED
    BY <1>1, GateInvariant, PTL

\* AWS credentials of a session that was locked are gone once its lock is
\* through, and none are put back after (awsCachePut's proof, clearAWSCache),
\* unless their process had another unwrap noted while the put was under way
\* (transport.go serves two connections of one process at once).
THEOREM GateAwsDroppedAtLocks == Spec => []AwsDroppedAtLocks
  <1>1. IInv => AwsDroppedAtLocks
    <2> SUFFICES ASSUME IInv, Settled, awsCache.id # 0, ~awsCache.overtaken
                 PROVE  awsCache.filled = mek \/ awsCache.filled \in collected
      BY DEF AwsDroppedAtLocks
    <2>1. TypeOK /\ AwsOk /\ TailStages = {"consent", "trust", "aws"}
      BY DEF IInv, Parts, TailStages
    <2>2. \A s \in TailStages : ~(tails[s] > 0)
      BY <2>1 DEF Settled, TypeOK
    <2>3. ~AwsOwed
      BY <2>1, <2>2 DEF Settled, AwsOwed
    <2> QED
      BY <2>1, <2>3 DEF AwsOk, Stale, Ended
  <1> QED
    BY <1>1, GateInvariant, PTL

\* The gate's state keeps its types.
THEOREM GateTyped == Spec => []TypeOK
  <1>1. IInv => TypeOK
    BY DEF IInv
  <1> QED
    BY <1>1, GateInvariant, PTL

==============================================================================
