------------------------------ MODULE MountsProofs ------------------------------
(***************************************************************************)
(* For every set of handlers, of runs and of Serve goroutines, and every   *)
(* bound of Mounts: real content ends with its session, no Serve goroutine *)
(* is left that nothing stops, a swapped file stays while a run needs it,  *)
(* and nobody waits for the swap lock it holds.  None of them is inductive.*)
(* What they need besides is what a handler holds at each of its steps (the *)
(* swap lock, a run of its own, the server it resolves for or waits for),  *)
(* that a generation captured before a lock is behind the one after it,    *)
(* and that nothing serves the path from the moment a swap has stopped the *)
(* Serve goroutine.                                                        *)
(***************************************************************************)
EXTENDS Mounts, TLAPS

\* The places of a handler that has the swap lock, or waits to be given it.
ScanPlaces == {"ensure", "claim", "capture", "decrypt", "install"}
SwapPlaces == {"await", "swap file", "register"}
RevealPlaces == {"reveal"} \union SwapPlaces

\* What a handler holds where: the run it attaches, the server it resolves
\* for or waits for, and the swap lock for as long as it needs it.
HandlerOk(h) ==
    /\ swapMu = h => at[h] \in ScanPlaces \union SwapPlaces
    /\ at[h] \in {"await", "swap file"} => swapMu = h /\ mem[h].mode = "swap"
    /\ at[h] \in RevealPlaces \union {"arm"} => mem[h].proc \in Procs /\ mem[h].mode \in Modes
    /\ at[h] = "register" => (mem[h].mode = "swap" <=> swapMu = h)
    /\ at[h] \in {"await", "unmount await", "decrypt", "install"} => mem[h].sm \in Servers
    /\ mem[h].sm # None => at[h] \in {"await", "unmount await", "decrypt", "install"}

\* A run is attached by one handler, and only when it is through.
OneHandlerPerRun ==
    \A h \in Handlers : at[h] \in RevealPlaces =>
        /\ runs[mem[h].proc] = None
        /\ \A g \in Handlers \ {h} : mem[g].proc # mem[h].proc

\* What stopped servers and a stopped service leave behind.
StoppedOk ==
    /\ \A i \in Servers : servers[i].cancelled => i # served
    /\ ~up => /\ \A h \in Handlers : at[h] \in {"idle", "unmount write", "unmount forget"}
              /\ \A i \in Servers : servers[i].at = "done"
              /\ served = None /\ swapMu = None /\ ~open
              /\ \A p \in Procs : runs[p] = None

\* A resolve under way may arm what it decrypted only in its own session, or
\* where a lock is about to disarm it: else the generation moved on.
ResolveOk ==
    \A h \in Handlers : at[h] \in {"decrypt", "install"} /\ mem[h].sm = served =>
        /\ mem[h].gen <= servers[served].gen
        /\ at[h] = "install" /\ mem[h].gen = servers[served].gen =>
              \/ open /\ mem[h].val = session
              \/ \E g \in Handlers : at[g] = "stop"

NothingServes == \A i \in Servers : servers[i].at = "done"

\* While a run has the file swapped, or is about to, nothing writes to the path.
SwapOk ==
    /\ \A h \in Handlers :
         swapMu = h /\ at[h] \in ScanPlaces \union {"await", "swap file"} => ~HeldByAny
    /\ ~crossed =>
         /\ HeldByAny => disk # "pipe" /\ NothingServes
         /\ \A h \in Handlers : swapMu = h =>
              /\ at[h] = "register" => disk # "pipe" /\ NothingServes
              /\ at[h] = "swap file" => NothingServes
              /\ at[h] = "await" =>
                   served = None /\ \A i \in Servers : servers[i].at # "done" => i = mem[h].sm

PointerOk ==
    up /\ registered /\ disk = "pointer" =>
        \/ HeldByAny
        \/ \E h \in Handlers :
             at[h] = "restore" \/ (at[h] = "register" /\ mem[h].mode = "swap")

IInv ==
    /\ TypeOK
    /\ \A h \in Handlers : HandlerOk(h)
    /\ OneHandlerPerRun /\ StoppedOk /\ ResolveOk /\ SwapOk /\ PointerOk
    /\ RealIsOfTheSession /\ NoStrayServer

USE NoneIsNobody, BoundsAreNaturals DEF rest, serveVars, sessionVars, runVars

\* What an action leaves alone, said one handler or server at a time.
Others(h) == \A g \in Handlers \ {h} : at'[g] = at[g] /\ mem'[g] = mem[g]
AtTyped == at' \in [Handlers -> Places] /\ mem' \in [Handlers -> Memory]
SameRun(h) == mem'[h].proc = mem[h].proc /\ mem'[h].mode = mem[h].mode
Resolves(h) ==
  \/ at'[h] = "capture" /\ mem'[h] = mem[h] /\ swapMu' = swapMu
  \/ at'[h] = "idle" /\ mem'[h] = Blank /\ swapMu = h /\ swapMu' = None /\ ~open

LEMMA BlankTyped ==
  /\ Blank \in Memory
  /\ Blank.sm = None /\ Blank.gen = 0 /\ Blank.val = 0 /\ Blank.proc = None /\ Blank.mode = None
  BY DEF Blank, Memory

Fresh == [Ended EXCEPT !.at = "loop"]

LEMMA EndedTyped ==
  /\ Ended \in ServedMount
  /\ Ended.at = "done" /\ ~Ended.cancelled /\ Ended.real = 0 /\ Ended.gen = 0
  BY DEF Ended, ServedMount, ServePlaces

LEMMA FreshTyped ==
  /\ Fresh \in ServedMount
  /\ Fresh.at = "loop" /\ ~Fresh.cancelled /\ Fresh.real = 0 /\ Fresh.gen = 0
  BY EndedTyped DEF Fresh, ServedMount, ServePlaces

LEMMA CaptureTyped ==
  ASSUME NEW m \in Memory, NEW s \in Servers, NEW g \in Nat
  PROVE  LET n == [m EXCEPT !.sm = s, !.gen = g]
         IN  /\ n \in Memory /\ n.sm = s /\ n.gen = g
             /\ n.val = m.val /\ n.proc = m.proc /\ n.mode = m.mode
  BY DEF Memory

LEMMA ServerTyped ==
  ASSUME NEW m \in Memory, NEW s \in Servers \union {None}
  PROVE  LET n == [m EXCEPT !.sm = s]
         IN  /\ n \in Memory /\ n.sm = s /\ n.gen = m.gen
             /\ n.val = m.val /\ n.proc = m.proc /\ n.mode = m.mode
  BY DEF Memory

LEMMA ValTyped ==
  ASSUME NEW m \in Memory, NEW v \in 0 .. MaxSessions
  PROVE  LET n == [m EXCEPT !.val = v]
         IN  /\ n \in Memory /\ n.sm = m.sm /\ n.gen = m.gen
             /\ n.val = v /\ n.proc = m.proc /\ n.mode = m.mode
  BY DEF Memory

\* What the actions do to a server: nothing but the named field changes.
SameServer(i) == servers'[i] = servers[i]
SameLife(s, t) == s.at = t.at /\ s.cancelled = t.cancelled /\ s.gen = t.gen /\ s.real = t.real

LEMMA ArmArms ==
  ASSUME TypeOK, NEW i \in Servers, NEW v \in 0 .. MaxSessions, Arm(i, v)
  PROVE  /\ servers' \in [Servers -> ServedMount]
         /\ servers'[i].real = v /\ servers'[i].gen = servers[i].gen
         /\ servers'[i].at = servers[i].at /\ servers'[i].cancelled = servers[i].cancelled
         /\ \A j \in Servers \ {i} : SameServer(j)
  <1> DEFINE s == [servers[i] EXCEPT !.real = v]
  <1>1. /\ servers[i] \in ServedMount /\ servers \in [Servers -> ServedMount]
    BY DEF TypeOK
  <1>2. /\ s \in ServedMount
        /\ s.real = v /\ s.gen = servers[i].gen
        /\ s.at = servers[i].at /\ s.cancelled = servers[i].cancelled
    BY <1>1 DEF ServedMount
  <1>3. servers' = [servers EXCEPT ![i] = s]
    BY DEF Arm
  <1>4. servers'[i] = s
    BY <1>1, <1>3
  <1>5. servers' \in [Servers -> ServedMount] /\ \A j \in Servers \ {i} : servers'[j] = servers[j]
    BY <1>1, <1>2, <1>3
  <1> QED BY <1>2, <1>4, <1>5 DEF SameServer

LEMMA CancelCancels ==
  ASSUME TypeOK, NEW i \in Servers, servers' = [servers EXCEPT ![i].cancelled = TRUE]
  PROVE  /\ servers' \in [Servers -> ServedMount]
         /\ servers'[i].real = servers[i].real /\ servers'[i].gen = servers[i].gen
         /\ servers'[i].at = servers[i].at /\ servers'[i].cancelled
         /\ \A j \in Servers \ {i} : SameServer(j)
  <1> DEFINE s == [servers[i] EXCEPT !.cancelled = TRUE]
  <1>1. /\ servers[i] \in ServedMount /\ servers \in [Servers -> ServedMount]
    BY DEF TypeOK
  <1>2. /\ s \in ServedMount
        /\ s.real = servers[i].real /\ s.gen = servers[i].gen
        /\ s.at = servers[i].at /\ s.cancelled
    BY <1>1 DEF ServedMount
  <1>3. servers' = [servers EXCEPT ![i] = s]
    OBVIOUS
  <1>4. servers'[i] = s
    BY <1>1, <1>3
  <1>5. servers' \in [Servers -> ServedMount] /\ \A j \in Servers \ {i} : servers'[j] = servers[j]
    BY <1>1, <1>2, <1>3
  <1> QED BY <1>2, <1>4, <1>5 DEF SameServer

LEMMA InvalidateDisarms ==
  ASSUME TypeOK, NEW i \in Servers,
         servers' = [servers EXCEPT ![i] = [servers[i] EXCEPT !.gen = @ + 1, !.real = 0]]
  PROVE  /\ servers' \in [Servers -> ServedMount]
         /\ servers'[i].real = 0 /\ servers'[i].gen = servers[i].gen + 1
         /\ servers'[i].at = servers[i].at /\ servers'[i].cancelled = servers[i].cancelled
         /\ \A j \in Servers \ {i} : SameServer(j)
  <1> DEFINE s == [servers[i] EXCEPT !.gen = @ + 1, !.real = 0]
  <1>1. /\ servers[i] \in ServedMount /\ servers \in [Servers -> ServedMount]
    BY DEF TypeOK
  <1>2. /\ s \in ServedMount
        /\ s.real = 0 /\ s.gen = servers[i].gen + 1
        /\ s.at = servers[i].at /\ s.cancelled = servers[i].cancelled
    <2>1. servers[i].gen + 1 \in Nat /\ 0 \in 0 .. MaxSessions
      BY <1>1 DEF ServedMount
    <2> QED BY <1>1, <2>1 DEF ServedMount
  <1>3. servers' = [servers EXCEPT ![i] = s]
    OBVIOUS
  <1>4. servers'[i] = s
    BY <1>1, <1>3
  <1>5. servers' \in [Servers -> ServedMount] /\ \A j \in Servers \ {i} : servers'[j] = servers[j]
    BY <1>1, <1>2, <1>3
  <1> QED BY <1>2, <1>4, <1>5 DEF SameServer

LEMMA OffPathOrphans ==
  ASSUME TypeOK
  PROVE  /\ OffPath(servers) \in [Servers -> ServedMount]
         /\ \A i \in Servers : SameLife(OffPath(servers)[i], servers[i])
  <1>1. \A i \in Servers : LET s == [servers[i] EXCEPT !.onPath = FALSE]
                           IN  s \in ServedMount /\ SameLife(s, servers[i])
    <2> SUFFICES ASSUME NEW i \in Servers
                 PROVE  LET s == [servers[i] EXCEPT !.onPath = FALSE]
                        IN  s \in ServedMount /\ SameLife(s, servers[i])
      OBVIOUS
    <2>1. servers[i] \in ServedMount
      BY DEF TypeOK
    <2> QED BY <2>1 DEF ServedMount, SameLife
  <1> QED BY <1>1 DEF OffPath

LEMMA StepSteps ==
  ASSUME TypeOK, NEW i \in Servers, NEW from, NEW s \in ServedMount, Step(i, from, s)
  PROVE  /\ servers[i].at = from
         /\ servers' \in [Servers -> ServedMount] /\ servers'[i] = s
         /\ \A j \in Servers \ {i} : SameServer(j)
  BY DEF TypeOK, Step, SameServer

\* When a part of the invariant is kept, whoever moved: the conditions most
\* actions meet.
SameHandler(g) == at'[g] = at[g] /\ mem'[g] = mem[g]
ServersOnlyEnd == \A i \in Servers : servers'[i].at # "done" => servers[i].at # "done"
RunsOnlyEnd == \A p \in Procs : runs'[p] \in {runs[p], None}

LEMMA NoStrayKept ==
  ASSUME NoStrayServer, served' = served, ServersOnlyEnd,
         \A g \in Handlers : at[g] \in {"await", "unmount await"} =>
            SameHandler(g) \/ servers'[mem[g].sm].at = "done"
  PROVE  NoStrayServer'
  BY DEF NoStrayServer, ServersOnlyEnd, SameHandler

LEMMA OneRunKept ==
  ASSUME OneHandlerPerRun, \A g \in Handlers : HandlerOk(g), RunsOnlyEnd,
         \A g \in Handlers :
            /\ mem'[g].proc \in {mem[g].proc, None}
            /\ at'[g] \in RevealPlaces => at[g] \in RevealPlaces /\ mem'[g].proc = mem[g].proc
  PROVE  OneHandlerPerRun'
  <1> SUFFICES ASSUME NEW g \in Handlers, at'[g] \in RevealPlaces
               PROVE  /\ runs'[mem'[g].proc] = None
                      /\ \A f \in Handlers \ {g} : mem'[f].proc # mem'[g].proc
    BY DEF OneHandlerPerRun
  <1>1. at[g] \in RevealPlaces /\ mem'[g].proc = mem[g].proc /\ mem[g].proc \in Procs
    BY DEF HandlerOk
  <1>2. runs[mem[g].proc] = None /\ \A f \in Handlers \ {g} : mem[f].proc # mem[g].proc
    BY <1>1 DEF OneHandlerPerRun
  <1> QED BY <1>1, <1>2 DEF RunsOnlyEnd

LEMMA ResolveKept ==
  ASSUME ResolveOk, \A g \in Handlers : HandlerOk(g),
         \A g \in Handlers : at'[g] \in {"decrypt", "install"} =>
            \/ SameHandler(g)
            \/ mem'[g].sm = served' =>
                  /\ mem'[g].gen <= servers'[served'].gen
                  /\ at'[g] = "install" => open' /\ mem'[g].val = session',
         \/ served' = served /\ (served \in Servers => servers'[served].gen = servers[served].gen)
         \/ \A g \in Handlers : at[g] \in {"decrypt", "install"} => mem[g].sm # served',
         \/ \E g \in Handlers : at'[g] = "stop"
         \/ /\ open => open' /\ session' = session
            /\ ~\E g \in Handlers : at[g] = "stop"
  PROVE  ResolveOk'
  <1> SUFFICES ASSUME NEW g \in Handlers, at'[g] \in {"decrypt", "install"}, mem'[g].sm = served'
               PROVE  /\ mem'[g].gen <= servers'[served'].gen
                      /\ at'[g] = "install" /\ mem'[g].gen = servers'[served'].gen =>
                            \/ open' /\ mem'[g].val = session'
                            \/ \E f \in Handlers : at'[f] = "stop"
    BY DEF ResolveOk
  <1>1. CASE SameHandler(g)
    <2>1. at'[g] = at[g] /\ mem'[g] = mem[g]
      BY <1>1 DEF SameHandler
    <2>2. served' = served /\ served \in Servers
      BY <2>1 DEF HandlerOk
    <2> QED BY <2>1, <2>2, NoneIsNobody DEF ResolveOk
  <1>2. CASE ~SameHandler(g)
    BY <1>2
  <1> QED BY <1>1, <1>2

LEMMA SwapKept ==
  ASSUME SwapOk, HeldByAny' => HeldByAny, crossed => crossed', disk # "pipe" => disk' # "pipe",
         served' \in {served, None}, ServersOnlyEnd,
         \A g \in Handlers : swapMu' = g =>
            /\ swapMu = g
            /\ SameHandler(g) \/ (at[g] \in ScanPlaces \union {"await", "swap file"} /\ at'[g] \in ScanPlaces)
  PROVE  SwapOk'
  <1>1. \A g \in Handlers : swapMu' = g /\ at'[g] \in ScanPlaces \union {"await", "swap file"} => ~HeldByAny'
    BY DEF SwapOk, SameHandler
  <1> SUFFICES ASSUME ~crossed'
               PROVE  /\ HeldByAny' => disk' # "pipe" /\ NothingServes'
                      /\ \A g \in Handlers : swapMu' = g =>
                          /\ at'[g] = "register" => disk' # "pipe" /\ NothingServes'
                          /\ at'[g] = "swap file" => NothingServes'
                          /\ at'[g] = "await" =>
                                served' = None /\ \A i \in Servers : servers'[i].at # "done" => i = mem'[g].sm
    BY <1>1 DEF SwapOk
  <1>2. NothingServes => NothingServes'
    BY DEF NothingServes, ServersOnlyEnd
  <1>3. ~crossed /\ (HeldByAny' => disk' # "pipe" /\ NothingServes')
    BY <1>2 DEF SwapOk
  <1> SUFFICES ASSUME NEW g \in Handlers, swapMu' = g
               PROVE  /\ at'[g] = "register" => disk' # "pipe" /\ NothingServes'
                      /\ at'[g] = "swap file" => NothingServes'
                      /\ at'[g] = "await" =>
                            served' = None /\ \A i \in Servers : servers'[i].at # "done" => i = mem'[g].sm
    BY <1>3
  <1>4. CASE SameHandler(g)
    BY <1>2, <1>3, <1>4 DEF SwapOk, SameHandler, ServersOnlyEnd
  <1>5. CASE at'[g] \in ScanPlaces
    BY <1>5 DEF ScanPlaces
  <1> QED BY <1>4, <1>5

LEMMA RealKept ==
  ASSUME TypeOK, RealIsOfTheSession, served' \in {served, None},
         served' \in Servers => servers'[served'].real = servers[served'].real,
         \/ \E g \in Handlers : at'[g] = "stop"
         \/ /\ open => open' /\ session' = session
            /\ ~\E g \in Handlers : at[g] = "stop"
  PROVE  RealIsOfTheSession'
  BY DEF TypeOK, RealIsOfTheSession

LEMMA HandlersKept ==
  ASSUME \A g \in Handlers : HandlerOk(g), NEW h \in Handlers, Others(h), HandlerOk(h)',
         \A g \in Handlers \ {h} : swapMu' = g <=> swapMu = g
  PROVE  (\A g \in Handlers : HandlerOk(g))'
  <1> SUFFICES ASSUME NEW g \in Handlers \ {h}
               PROVE  HandlerOk(g)'
    OBVIOUS
  <1>1. at'[g] = at[g] /\ mem'[g] = mem[g] /\ (swapMu' = g <=> swapMu = g) /\ HandlerOk(g)
    BY DEF Others
  <1> QED BY <1>1 DEF HandlerOk

LEMMA PointerKept ==
  ASSUME PointerOk, HeldByAny => HeldByAny', up' => up, registered' => registered,
         disk' = "pointer" => disk = "pointer",
         \A g \in Handlers : at[g] \in {"restore", "register"} =>
            at'[g] = at[g] /\ mem'[g].mode = mem[g].mode
  PROVE  PointerOk'
  BY DEF PointerOk

LEMMA AwaitedForgets ==
  ASSUME TypeOK, NEW h \in Handlers, NEW from, NEW to \in Places, Awaited(h, from, to)
  PROVE  /\ servers[mem[h].sm].at = "done" /\ mem[h].sm \in Servers
         /\ at[h] = from /\ at'[h] = to
         /\ mem'[h] \in Memory /\ SameRun(h) /\ mem'[h].sm = None
         /\ Others(h) /\ AtTyped
  <1> DEFINE m == [mem[h] EXCEPT !.sm = None]
  <1>1. mem[h] \in Memory /\ mem[h].sm \in Servers
    BY DEF TypeOK, Memory, Awaited
  <1>2. m \in Memory /\ m.sm = None /\ m.proc = mem[h].proc /\ m.mode = mem[h].mode
    BY <1>1, ServerTyped
  <1>3. mem' = [mem EXCEPT ![h] = m] /\ Go(h, from, to) /\ servers[mem[h].sm].at = "done"
    BY DEF Awaited, Remember
  <1> HIDE DEF m
  <1> QED BY <1>1, <1>2, <1>3 DEF TypeOK, Go, Others, SameRun, AtTyped

\* A run that ends leaves the others alone, and asks for a restore if it was
\* the last that had the file swapped.
RunsEnd(h) ==
  /\ runs' \in [Procs -> Modes \union {None}] /\ RunsOnlyEnd
  /\ HeldByAny' => HeldByAny
  /\ HeldByAny /\ ~HeldByAny' => at'[h] = "restore"

LEMMA RunEndsEnds ==
  ASSUME TypeOK, NEW h \in Handlers, NEW from, NEW p \in Procs, RunEnds(h, from, p)
  PROVE  /\ at[h] = from /\ mem'[h] = Blank /\ at'[h] \in {"idle", "restore"}
         /\ RunsEnd(h) /\ Others(h) /\ AtTyped
  <1>1. /\ runs' \in [Procs -> Modes \union {None}]
        /\ runs'[p] = None /\ \A q \in Procs \ {p} : runs'[q] = runs[q]
    BY DEF TypeOK, RunEnds
  <1>2. /\ HeldByAny' => HeldByAny
        /\ HeldByAny /\ ~HeldByAny' => runs[p] = "swap" /\ ~HeldByOther(p)
    BY <1>1 DEF HeldByAny, HeldByOther, Modes
  <1>3. /\ at[h] = from /\ mem'[h] = Blank
        /\ at'[h] = IF runs[p] = "swap" /\ ~HeldByOther(p) THEN "restore" ELSE "idle"
        /\ Others(h) /\ AtTyped
    BY BlankTyped DEF TypeOK, RunEnds, Go, Remember, Others, AtTyped, Places
  <1> QED BY <1>1, <1>2, <1>3 DEF RunsEnd, RunsOnlyEnd

\* stopMount: nothing is served from here on, and the handler waits for the
\* Serve goroutine if there was one.
Stops(h, await, then) ==
  /\ served' = None
  /\ \/ served = None /\ UNCHANGED servers /\ at'[h] = then /\ mem'[h].sm = None
     \/ /\ served \in Servers /\ at'[h] = await /\ mem'[h].sm = served
        /\ servers' \in [Servers -> ServedMount]
        /\ servers'[served].real = servers[served].real /\ servers'[served].gen = servers[served].gen
        /\ servers'[served].at = servers[served].at /\ servers'[served].cancelled
        /\ \A j \in Servers \ {served} : SameServer(j)

LEMMA StopServingStops ==
  ASSUME TypeOK, NEW h \in Handlers, NEW from, NEW await \in Places, NEW then \in Places,
         NEW m \in Memory, StopServing(h, from, await, then, m)
  PROVE  /\ at[h] = from /\ Stops(h, await, then)
         /\ mem'[h].proc = m.proc /\ mem'[h].mode = m.mode
         /\ Others(h) /\ AtTyped
  <1> DEFINE n == [m EXCEPT !.sm = served]
  <1>1. n \in Memory /\ n.sm = served /\ n.proc = m.proc /\ n.mode = m.mode
    BY ServerTyped DEF TypeOK
  <1>2. /\ mem' = [mem EXCEPT ![h] = n] /\ served' = None
        /\ Go(h, from, IF served = None THEN then ELSE await)
        /\ servers' = IF served = None THEN servers ELSE [servers EXCEPT ![served].cancelled = TRUE]
    BY DEF StopServing, Remember
  <1> HIDE DEF n
  <1>3. /\ at[h] = from /\ Others(h) /\ AtTyped
        /\ at'[h] = IF served = None THEN then ELSE await
        /\ mem'[h] = n
    BY <1>1, <1>2 DEF TypeOK, Go, Others, AtTyped
  <1>4. CASE served = None
    BY <1>1, <1>2, <1>3, <1>4 DEF Stops
  <1>5. CASE served # None
    <2>1. served \in Servers
      BY <1>5 DEF TypeOK
    <2> QED BY <1>1, <1>2, <1>3, <1>5, <2>1, CancelCancels DEF Stops
  <1> QED BY <1>4, <1>5

LEMMA StopsNoStray ==
  ASSUME NoStrayServer, TypeOK, NEW h \in Handlers, Others(h),
         NEW await \in {"await", "unmount await"}, NEW then, Stops(h, await, then),
         at[h] \notin {"await", "unmount await"}
  PROVE  NoStrayServer'
  <1> SUFFICES ASSUME NEW i \in Servers, servers'[i].at # "done"
               PROVE  \E g \in Handlers : at'[g] \in {"await", "unmount await"} /\ mem'[g].sm = i
    BY DEF NoStrayServer
  <1>1. servers[i].at # "done"
    BY DEF Stops, SameServer
  <1>2. CASE i = served
    BY <1>2, NoneIsNobody DEF Stops
  <1>3. CASE i # served
    <2>1. PICK g \in Handlers : at[g] \in {"await", "unmount await"} /\ mem[g].sm = i
      BY <1>1, <1>3 DEF NoStrayServer
    <2> QED BY <2>1 DEF Others
  <1> QED BY <1>2, <1>3

\* A Serve goroutine goes a step on, or ends because it was stopped.
GoesOn(s, t) == s.cancelled = t.cancelled /\ s.gen = t.gen /\ s.real = t.real

StepsOn(i) ==
  /\ servers[i].at # "done" /\ servers' \in [Servers -> ServedMount]
  /\ \A j \in Servers \ {i} : SameServer(j)
  /\ \/ servers[i].cancelled /\ servers'[i] = Ended
     \/ servers'[i].at # "done" /\ GoesOn(servers'[i], servers[i])
  /\ disk' \in {disk, "spoiled"}
  /\ UNCHANGED <<rest, sessionVars, served, runVars, swapMu, at, mem, crossed>>

LEMMA EndsStep ==
  ASSUME TypeOK, NEW i \in Servers, NEW from, from # "done",
         Step(i, from, Ended), servers[i].cancelled,
         UNCHANGED <<rest, disk, sessionVars, served, runVars, swapMu, at, mem, crossed>>
  PROVE  StepsOn(i)
  BY StepSteps, EndedTyped DEF StepsOn

LEMMA GoesOnStep ==
  ASSUME TypeOK, NEW i \in Servers, NEW s \in ServedMount, s.at # "done", GoesOn(s, servers[i]),
         servers[i].at # "done", servers' = [servers EXCEPT ![i] = s], disk' \in {disk, "spoiled"},
         UNCHANGED <<rest, sessionVars, served, runVars, swapMu, at, mem, crossed>>
  PROVE  StepsOn(i)
  BY DEF TypeOK, StepsOn, SameServer

-----------------------------------------------------------------------------
(* Unlocks and scans: each step of a handler keeps the invariant.          *)

LEMMA UnlockKeeps ==
  ASSUME IInv, NEW h \in Handlers, Unlock(h)
  PROVE  IInv'
  <1>0. /\ TypeOK /\ \A g \in Handlers : HandlerOk(g)
        /\ OneHandlerPerRun /\ StoppedOk /\ ResolveOk /\ SwapOk /\ PointerOk
        /\ RealIsOfTheSession /\ NoStrayServer
    BY DEF IInv
  <1>1. /\ up /\ ~open /\ open' /\ session < MaxSessions /\ session' = session + 1
        /\ at[h] = "idle" /\ at'[h] \in {"idle", "ensure"} /\ mem'[h] \in {mem[h], Blank}
        /\ Others(h) /\ AtTyped
        /\ UNCHANGED <<rest, disk, serveVars, runVars, swapMu, crossed>>
    BY ZenonT(60), <1>0, BlankTyped DEF TypeOK, Unlock, Start, Go, Others, AtTyped, Places
  <1>2. TypeOK'
    BY <1>0, <1>1, BlankTyped DEF TypeOK, AtTyped, Others, Contents
  <1>3. (\A g \in Handlers : HandlerOk(g))'
    <2>1. HandlerOk(h)'
      BY <1>0, <1>1, BlankTyped DEF HandlerOk, ScanPlaces, SwapPlaces, RevealPlaces
    <2>2. \A g \in Handlers \ {h} : swapMu' = g <=> swapMu = g
      BY <1>0, <1>1
    <2> QED BY <1>0, <1>1, <2>1, <2>2, HandlersKept
  <1>4. OneHandlerPerRun'
    BY <1>0, <1>1, BlankTyped, OneRunKept DEF RunsOnlyEnd, SwapPlaces, RevealPlaces, Others
  <1>5. StoppedOk'
    BY <1>0, <1>1, BlankTyped
    DEF StoppedOk, HandlerOk, ScanPlaces, SwapPlaces, RevealPlaces, Others
  <1>6. ResolveOk'
    BY <1>0, <1>1, BlankTyped, ResolveKept DEF HandlerOk, SameHandler, Others
  <1>7. SwapOk'
    BY <1>0, <1>1, BlankTyped, SwapKept
    DEF ServersOnlyEnd, SameHandler, HeldByAny, HandlerOk, ScanPlaces, SwapPlaces, RevealPlaces,
        Others
  <1>8. PointerOk'
    BY <1>0, <1>1, BlankTyped, PointerKept DEF HeldByAny, Others
  <1>9. RealIsOfTheSession'
    BY <1>0, <1>1, BlankTyped, RealKept DEF Others
  <1>10. NoStrayServer'
    BY <1>0, <1>1, BlankTyped, NoStrayKept DEF ServersOnlyEnd, SameHandler, HandlerOk, Others
  <1> QED BY <1>2, <1>3, <1>4, <1>5, <1>6, <1>7, <1>8, <1>9, <1>10 DEF IInv

LEMMA RefreshKeeps ==
  ASSUME IInv, NEW h \in Handlers, Refresh(h)
  PROVE  IInv'
  <1>0. /\ TypeOK /\ \A g \in Handlers : HandlerOk(g)
        /\ OneHandlerPerRun /\ StoppedOk /\ ResolveOk /\ SwapOk /\ PointerOk
        /\ RealIsOfTheSession /\ NoStrayServer
    BY DEF IInv
  <1>1. /\ up /\ open /\ registered
        /\ at[h] = "idle" /\ at'[h] = "ensure" /\ mem'[h] = Blank
        /\ Others(h) /\ AtTyped
        /\ UNCHANGED <<rest, disk, sessionVars, serveVars, runVars, swapMu, crossed>>
    BY <1>0, BlankTyped DEF TypeOK, Refresh, Start, Go, Others, AtTyped, Places
  <1>2. TypeOK'
    BY <1>0, <1>1, BlankTyped DEF TypeOK, AtTyped, Others, Contents
  <1>3. (\A g \in Handlers : HandlerOk(g))'
    <2>1. HandlerOk(h)'
      BY <1>0, <1>1, BlankTyped DEF HandlerOk, ScanPlaces, SwapPlaces, RevealPlaces
    <2>2. \A g \in Handlers \ {h} : swapMu' = g <=> swapMu = g
      BY <1>0, <1>1
    <2> QED BY <1>0, <1>1, <2>1, <2>2, HandlersKept
  <1>4. OneHandlerPerRun'
    BY <1>0, <1>1, BlankTyped, OneRunKept DEF RunsOnlyEnd, SwapPlaces, RevealPlaces, Others
  <1>5. StoppedOk'
    BY <1>0, <1>1, BlankTyped
    DEF StoppedOk, HandlerOk, ScanPlaces, SwapPlaces, RevealPlaces, Others
  <1>6. ResolveOk'
    BY <1>0, <1>1, BlankTyped, ResolveKept DEF HandlerOk, SameHandler, Others
  <1>7. SwapOk'
    BY <1>0, <1>1, BlankTyped, SwapKept
    DEF ServersOnlyEnd, SameHandler, HeldByAny, HandlerOk, ScanPlaces, SwapPlaces, RevealPlaces,
        Others
  <1>8. PointerOk'
    BY <1>0, <1>1, BlankTyped, PointerKept DEF HeldByAny, Others
  <1>9. RealIsOfTheSession'
    BY <1>0, <1>1, BlankTyped, RealKept DEF Others
  <1>10. NoStrayServer'
    BY <1>0, <1>1, BlankTyped, NoStrayKept DEF ServersOnlyEnd, SameHandler, HandlerOk, Others
  <1> QED BY <1>2, <1>3, <1>4, <1>5, <1>6, <1>7, <1>8, <1>9, <1>10 DEF IInv

LEMMA EnsureServingKeeps ==
  ASSUME IInv, NEW h \in Handlers, EnsureServing(h)
  PROVE  IInv'
  <1>0. /\ TypeOK /\ \A g \in Handlers : HandlerOk(g)
        /\ OneHandlerPerRun /\ StoppedOk /\ ResolveOk /\ SwapOk /\ PointerOk
        /\ RealIsOfTheSession /\ NoStrayServer
    BY DEF IInv
  <1>1. /\ at[h] = "ensure"
        /\ \/ served = None /\ at'[h] = "claim" /\ mem'[h] = mem[h] /\ swapMu' = swapMu
           \/ Resolves(h)
        /\ Others(h) /\ AtTyped
        /\ UNCHANGED <<rest, disk, sessionVars, serveVars, runVars, crossed>>
    <2>1. CASE served = None
      BY <1>0, <2>1 DEF TypeOK, EnsureServing, Go, Others, AtTyped, Places
    <2>2. CASE served # None /\ (swapMu = h /\ ~open)
      BY ZenonT(60), <1>0, <2>2, BlankTyped
      DEF TypeOK, EnsureServing, ToResolve, Finish, Go, Remember, Resolves, Others, AtTyped, Places
    <2>3. CASE served # None /\ ~(swapMu = h /\ ~open)
      BY <1>0, <2>3 DEF TypeOK, EnsureServing, ToResolve, Go, Resolves, Others, AtTyped, Places
    <2> QED BY <2>1, <2>2, <2>3
  <1>2. TypeOK'
    BY <1>0, <1>1, BlankTyped DEF TypeOK, AtTyped, Others, Contents, Resolves
  <1>3. (\A g \in Handlers : HandlerOk(g))'
    <2>1. HandlerOk(h)'
      BY <1>0, <1>1, BlankTyped DEF HandlerOk, ScanPlaces, SwapPlaces, RevealPlaces, Resolves
    <2>2. \A g \in Handlers \ {h} : swapMu' = g <=> swapMu = g
      BY <1>0, <1>1 DEF Resolves
    <2> QED BY <1>0, <1>1, <2>1, <2>2, HandlersKept
  <1>4. OneHandlerPerRun'
    BY <1>0, <1>1, BlankTyped, OneRunKept
    DEF RunsOnlyEnd, SwapPlaces, RevealPlaces, Others, Resolves
  <1>5. StoppedOk'
    BY <1>0, <1>1, BlankTyped
    DEF StoppedOk, HandlerOk, ScanPlaces, SwapPlaces, RevealPlaces, Others, Resolves
  <1>6. ResolveOk'
    BY <1>0, <1>1, BlankTyped, ResolveKept DEF HandlerOk, SameHandler, Others, Resolves
  <1>7. SwapOk'
    BY <1>0, <1>1, BlankTyped, SwapKept
    DEF ServersOnlyEnd, SameHandler, HeldByAny, HandlerOk, ScanPlaces, SwapPlaces, RevealPlaces,
        Others, Resolves
  <1>8. PointerOk'
    BY <1>0, <1>1, BlankTyped, PointerKept DEF HeldByAny, Others, Resolves
  <1>9. RealIsOfTheSession'
    BY <1>0, <1>1, BlankTyped, RealKept DEF Others, Resolves
  <1>10. NoStrayServer'
    BY <1>0, <1>1, BlankTyped, NoStrayKept
    DEF ServersOnlyEnd, SameHandler, HandlerOk, Others, Resolves
  <1> QED BY <1>2, <1>3, <1>4, <1>5, <1>6, <1>7, <1>8, <1>9, <1>10 DEF IInv

LEMMA ClaimKeeps ==
  ASSUME IInv, NEW h \in Handlers, Claim(h)
  PROVE  IInv'
  <1>0. /\ TypeOK /\ \A g \in Handlers : HandlerOk(g)
        /\ OneHandlerPerRun /\ StoppedOk /\ ResolveOk /\ SwapOk /\ PointerOk
        /\ RealIsOfTheSession /\ NoStrayServer
    BY DEF IInv
  <1>1. /\ at[h] = "claim" /\ Resolves(h)
        /\ Others(h) /\ AtTyped
        /\ UNCHANGED <<rest, disk, sessionVars, runVars>>
    <2>1. CASE swapMu = h /\ ~open
      BY ZenonT(60), <1>0, <2>1, BlankTyped
      DEF TypeOK, Claim, ToResolve, Finish, Go, Remember, Resolves, Others, AtTyped, Places
    <2>2. CASE ~(swapMu = h /\ ~open)
      BY <1>0, <2>2 DEF TypeOK, Claim, ToResolve, Go, Resolves, Others, AtTyped, Places
    <2> QED BY <2>1, <2>2
  <1>2. \/ served # None /\ UNCHANGED <<serveVars, crossed>>
        \/ /\ served = None /\ served' \in Servers
           /\ servers[served'].at = "done" /\ \A g \in Handlers : mem[g].sm # served'
           /\ servers'[served'] = Fresh /\ \A j \in Servers \ {served'} : SameServer(j)
           /\ crossed' = (crossed \/ Away(h))
    BY <1>0 DEF TypeOK, Claim, Serve, Free, Fresh, SameServer
  <1>3. servers' \in [Servers -> ServedMount]
    BY <1>0, FreshTyped DEF TypeOK, Claim, Serve, Fresh
  <1>4. TypeOK'
    BY <1>0, <1>1, <1>2, <1>3, BlankTyped, FreshTyped
    DEF TypeOK, AtTyped, Others, Contents, SameServer, Resolves
  <1>5. (\A g \in Handlers : HandlerOk(g))'
    <2>1. HandlerOk(h)'
      BY <1>0, <1>1, <1>2, <1>3, BlankTyped, FreshTyped
      DEF HandlerOk, ScanPlaces, SwapPlaces, RevealPlaces, Resolves
    <2>2. \A g \in Handlers \ {h} : swapMu' = g <=> swapMu = g
      BY <1>0, <1>1, <1>2, <1>3 DEF Resolves
    <2> QED BY <1>0, <1>1, <2>1, <2>2, HandlersKept
  <1>6. OneHandlerPerRun'
    BY <1>0, <1>1, <1>2, <1>3, BlankTyped, FreshTyped, OneRunKept
    DEF RunsOnlyEnd, SwapPlaces, RevealPlaces, Others, SameServer, Resolves
  <1>7. StoppedOk'
    BY <1>0, <1>1, <1>2, <1>3, BlankTyped, FreshTyped
    DEF StoppedOk, HandlerOk, ScanPlaces, SwapPlaces, RevealPlaces, Others, SameServer, Resolves
  <1>8. ResolveOk'
    BY <1>0, <1>1, <1>2, <1>3, ResolveKept, NoneIsNobody
    DEF HandlerOk, Others, SameHandler, Resolves
  <1>9. SwapOk'
    <2>1. CASE served # None
      <3>1. HeldByAny' = HeldByAny /\ ServersOnlyEnd /\ served' = served /\ crossed' = crossed /\ disk' = disk
        BY <1>0, <1>1, <1>2, <2>1 DEF HeldByAny, ServersOnlyEnd
      <3>2. \A g \in Handlers : swapMu' = g => swapMu = g
        BY <1>1, NoneIsNobody DEF Resolves
      <3>3. \A g \in Handlers : swapMu' = g => SameHandler(g) \/ (g = h /\ at'[h] = "capture")
        BY <1>1, NoneIsNobody DEF Resolves, Others, SameHandler
      <3> QED BY <1>0, <1>1, <3>1, <3>2, <3>3, SwapKept DEF ScanPlaces
    <2>2. CASE served = None
      <3>1. /\ crossed' = (crossed \/ Away(h)) /\ disk' = disk /\ swapMu' \in {swapMu, None}
            /\ HeldByAny' = HeldByAny /\ at'[h] \in {"idle", "capture"}
        BY <1>0, <1>1, <1>2, <1>3, <2>2, BlankTyped DEF HeldByAny, Resolves
      <3>2. \A g \in Handlers : swapMu' = g => swapMu = g /\ (g = h \/ at'[g] = at[g])
        BY <1>1, <3>1, NoneIsNobody DEF Others
      <3>3. ASSUME ~crossed' PROVE ~crossed /\ disk = "pipe" /\ swapMu \in {None, h}
        BY <3>1, <3>3 DEF Away
      <3> QED BY <1>0, <1>1, <3>1, <3>2, <3>3, NoneIsNobody DEF SwapOk, ScanPlaces
    <2> QED BY <2>1, <2>2
  <1>10. PointerOk'
    BY <1>0, <1>1, <1>2, <1>3, BlankTyped, FreshTyped, PointerKept
    DEF HeldByAny, Others, SameServer, Resolves
  <1>11. RealIsOfTheSession'
    <2>1. CASE served # None
      BY <1>0, <1>1, <1>2, <2>1, RealKept DEF Others
    <2>2. CASE served = None
      BY <1>2, <2>2, FreshTyped DEF RealIsOfTheSession
    <2> QED BY <2>1, <2>2
  <1>12. NoStrayServer'
    <2>1. CASE served # None
      BY <1>0, <1>1, <1>2, <1>3, <2>1, NoStrayKept DEF ServersOnlyEnd, SameHandler, Others
    <2>2. CASE served = None
      <3> SUFFICES ASSUME NEW i \in Servers, i # served', servers'[i].at # "done"
                   PROVE  \E g \in Handlers : at'[g] \in {"await", "unmount await"} /\ mem'[g].sm = i
        BY DEF NoStrayServer
      <3>1. servers[i].at # "done" /\ i # served
        BY <1>2, <2>2, NoneIsNobody DEF SameServer
      <3>2. PICK g \in Handlers : at[g] \in {"await", "unmount await"} /\ mem[g].sm = i
        BY <1>0, <3>1 DEF NoStrayServer
      <3> QED BY <1>1, <3>2 DEF Others
    <2> QED BY <2>1, <2>2
  <1> QED BY <1>4, <1>5, <1>6, <1>7, <1>8, <1>9, <1>10, <1>11, <1>12 DEF IInv

LEMMA CaptureKeeps ==
  ASSUME IInv, NEW h \in Handlers, Capture(h)
  PROVE  IInv'
  <1>0. /\ TypeOK /\ \A g \in Handlers : HandlerOk(g)
        /\ OneHandlerPerRun /\ StoppedOk /\ ResolveOk /\ SwapOk /\ PointerOk
        /\ RealIsOfTheSession /\ NoStrayServer
    BY DEF IInv
  <1>1. /\ at[h] = "capture"
        /\ \/ /\ served = None /\ at'[h] = "idle" /\ mem'[h] = Blank
              /\ swapMu' = IF swapMu = h THEN None ELSE swapMu
           \/ /\ served # None /\ at'[h] = "decrypt" /\ swapMu' = swapMu /\ mem'[h] \in Memory
              /\ mem'[h].sm = served /\ mem'[h].gen = servers[served].gen
              /\ mem'[h].proc = mem[h].proc /\ mem'[h].mode = mem[h].mode
        /\ Others(h) /\ AtTyped
        /\ UNCHANGED <<rest, disk, sessionVars, serveVars, runVars, crossed>>
    <2>1. CASE served = None
      <3>1. Finish(h, "capture") /\ UNCHANGED <<rest, disk, sessionVars, serveVars, runVars, crossed>>
        BY <2>1 DEF Capture
      <3> QED BY <1>0, <2>1, <3>1, BlankTyped
      DEF TypeOK, Finish, Go, Remember, Others, AtTyped, Places
    <2>2. CASE served # None
      <3> DEFINE m == [mem[h] EXCEPT !.sm = served, !.gen = servers[served].gen]
      <3>1. served \in Servers /\ servers[served].gen \in Nat /\ mem[h] \in Memory
        BY <1>0, <2>2 DEF TypeOK, ServedMount
      <3>2. /\ m \in Memory /\ m.sm = served /\ m.gen = servers[served].gen
            /\ m.proc = mem[h].proc /\ m.mode = mem[h].mode
        BY <3>1 DEF Memory
      <3>3. /\ mem' = [mem EXCEPT ![h] = m] /\ Go(h, "capture", "decrypt") /\ UNCHANGED swapMu
            /\ UNCHANGED <<rest, disk, sessionVars, serveVars, runVars, crossed>>
        BY <2>2 DEF Capture, Remember
      <3> HIDE DEF m
      <3> QED
        BY <1>0, <2>2, <3>2, <3>3 DEF TypeOK, Go, Others, AtTyped, Places
    <2> QED BY <2>1, <2>2
  <1>2. TypeOK'
    BY <1>0, <1>1, BlankTyped DEF TypeOK, AtTyped, Others, Contents
  <1>3. (\A g \in Handlers : HandlerOk(g))'
    <2>1. CASE served = None
      <3>1. HandlerOk(h)' /\ \A g \in Handlers \ {h} : swapMu' = g <=> swapMu = g
        BY <1>0, <1>1, <2>1, BlankTyped, NoneIsNobody
        DEF HandlerOk, ScanPlaces, SwapPlaces, RevealPlaces
      <3> QED BY <1>0, <1>1, <3>1, HandlersKept
    <2>2. CASE served # None
      <3>1. HandlerOk(h)'
        BY <1>0, <1>1, <2>2 DEF HandlerOk, TypeOK, ScanPlaces, SwapPlaces, RevealPlaces
      <3> QED BY <1>0, <1>1, <2>2, <3>1, HandlersKept
    <2> QED BY <2>1, <2>2
  <1>4. OneHandlerPerRun'
    BY <1>0, <1>1, BlankTyped, OneRunKept DEF RunsOnlyEnd, SwapPlaces, RevealPlaces, Others
  <1>5. StoppedOk'
    BY <1>0, <1>1, BlankTyped
    DEF StoppedOk, HandlerOk, ScanPlaces, SwapPlaces, RevealPlaces, Others
  <1>6. ResolveOk'
    <2>1. at'[h] = "decrypt" /\ mem'[h].sm = served' =>
             mem'[h].gen <= servers'[served'].gen
      BY <1>0, <1>1, NoneIsNobody DEF ResolveOk, TypeOK, ServedMount
    <2> QED BY <1>0, <1>1, <2>1, BlankTyped, ResolveKept DEF SameHandler, Others
  <1>7. SwapOk'
    BY <1>0, <1>1, BlankTyped, SwapKept
    DEF ServersOnlyEnd, SameHandler, HeldByAny, HandlerOk, ScanPlaces, SwapPlaces, RevealPlaces,
        Others
  <1>8. PointerOk'
    BY <1>0, <1>1, BlankTyped, PointerKept DEF HeldByAny, Others
  <1>9. RealIsOfTheSession'
    BY <1>0, <1>1, BlankTyped, RealKept DEF Others
  <1>10. NoStrayServer'
    BY <1>0, <1>1, BlankTyped, NoStrayKept DEF ServersOnlyEnd, SameHandler, HandlerOk, Others
  <1> QED BY <1>2, <1>3, <1>4, <1>5, <1>6, <1>7, <1>8, <1>9, <1>10 DEF IInv

LEMMA DecryptKeeps ==
  ASSUME IInv, NEW h \in Handlers, Decrypt(h)
  PROVE  IInv'
  <1>0. /\ TypeOK /\ \A g \in Handlers : HandlerOk(g)
        /\ OneHandlerPerRun /\ StoppedOk /\ ResolveOk /\ SwapOk /\ PointerOk
        /\ RealIsOfTheSession /\ NoStrayServer
    BY DEF IInv
  <1>1. /\ open /\ at[h] = "decrypt" /\ at'[h] = "install"
        /\ mem'[h] \in Memory /\ SameRun(h) /\ mem'[h].sm = mem[h].sm /\ mem'[h].gen = mem[h].gen
        /\ mem'[h].val = session
        /\ Others(h) /\ AtTyped
        /\ UNCHANGED <<rest, disk, sessionVars, serveVars, runVars, swapMu, crossed>>
    <2> DEFINE m == [mem[h] EXCEPT !.val = session]
    <2>1. mem[h] \in Memory /\ session \in 0 .. MaxSessions
      BY <1>0 DEF TypeOK
    <2>2. /\ m \in Memory /\ m.sm = mem[h].sm /\ m.gen = mem[h].gen /\ m.val = session
          /\ m.proc = mem[h].proc /\ m.mode = mem[h].mode
      BY <2>1, ValTyped
    <2>3. mem' = [mem EXCEPT ![h] = m]
      BY DEF Decrypt, Remember
    <2> HIDE DEF m
    <2> QED BY <1>0, <2>2, <2>3 DEF TypeOK, Decrypt, Go, Others, SameRun, AtTyped, Places
  <1>2. TypeOK'
    BY <1>0, <1>1 DEF TypeOK, AtTyped, Others, Contents, SameRun
  <1>3. (\A g \in Handlers : HandlerOk(g))'
    <2>1. HandlerOk(h)'
      BY <1>0, <1>1 DEF HandlerOk, ScanPlaces, SwapPlaces, RevealPlaces, SameRun
    <2>2. \A g \in Handlers \ {h} : swapMu' = g <=> swapMu = g
      BY <1>0, <1>1
    <2> QED BY <1>0, <1>1, <2>1, <2>2, HandlersKept
  <1>4. OneHandlerPerRun'
    BY <1>0, <1>1, OneRunKept DEF RunsOnlyEnd, SwapPlaces, RevealPlaces, Others, SameRun
  <1>5. StoppedOk'
    BY <1>0, <1>1
    DEF StoppedOk, HandlerOk, ScanPlaces, SwapPlaces, RevealPlaces, Others, SameRun
  <1>6. ResolveOk'
    <2>1. at'[h] = "install" /\ mem'[h].sm = served' =>
             mem'[h].gen <= servers'[served'].gen /\ open' /\ mem'[h].val = session'
      BY <1>0, <1>1, NoneIsNobody DEF ResolveOk, TypeOK, ServedMount
    <2> QED BY <1>0, <1>1, <2>1, ResolveKept DEF SameHandler, Others
  <1>7. SwapOk'
    BY <1>0, <1>1, SwapKept
    DEF ServersOnlyEnd, SameHandler, HeldByAny, HandlerOk, ScanPlaces, SwapPlaces, RevealPlaces,
        Others, SameRun
  <1>8. PointerOk'
    BY <1>0, <1>1, PointerKept DEF HeldByAny, Others, SameRun
  <1>9. RealIsOfTheSession'
    BY <1>0, <1>1, RealKept DEF Others, SameRun
  <1>10. NoStrayServer'
    BY <1>0, <1>1, NoStrayKept DEF ServersOnlyEnd, SameHandler, HandlerOk, Others, SameRun
  <1> QED BY <1>2, <1>3, <1>4, <1>5, <1>6, <1>7, <1>8, <1>9, <1>10 DEF IInv

LEMMA DecryptPromptsKeeps ==
  ASSUME IInv, NEW h \in Handlers, DecryptPrompts(h)
  PROVE  IInv'
  <1>0. /\ TypeOK /\ \A g \in Handlers : HandlerOk(g)
        /\ OneHandlerPerRun /\ StoppedOk /\ ResolveOk /\ SwapOk /\ PointerOk
        /\ RealIsOfTheSession /\ NoStrayServer
    BY DEF IInv
  <1>1. /\ ~open /\ open' /\ session < MaxSessions /\ session' = session + 1
        /\ at[h] = "decrypt" /\ at'[h] = "install"
        /\ mem'[h] \in Memory /\ SameRun(h) /\ mem'[h].sm = mem[h].sm /\ mem'[h].gen = mem[h].gen
        /\ mem'[h].val = session'
        /\ Others(h) /\ AtTyped
        /\ UNCHANGED <<rest, disk, serveVars, runVars, swapMu, crossed>>
    <2> DEFINE m == [mem[h] EXCEPT !.val = session + 1]
    <2>1. mem[h] \in Memory /\ session + 1 \in 0 .. MaxSessions
      BY <1>0 DEF TypeOK, DecryptPrompts
    <2>2. /\ m \in Memory /\ m.sm = mem[h].sm /\ m.gen = mem[h].gen /\ m.val = session + 1
          /\ m.proc = mem[h].proc /\ m.mode = mem[h].mode
      BY <2>1, ValTyped
    <2>3. mem' = [mem EXCEPT ![h] = m] /\ session' = session + 1
      BY DEF DecryptPrompts, Remember
    <2> HIDE DEF m
    <2> QED BY <1>0, <2>2, <2>3 DEF TypeOK, DecryptPrompts, Go, Others, SameRun, AtTyped, Places
  <1>2. TypeOK'
    BY <1>0, <1>1 DEF TypeOK, AtTyped, Others, Contents, SameRun
  <1>3. (\A g \in Handlers : HandlerOk(g))'
    <2>1. HandlerOk(h)'
      BY <1>0, <1>1 DEF HandlerOk, ScanPlaces, SwapPlaces, RevealPlaces, SameRun
    <2>2. \A g \in Handlers \ {h} : swapMu' = g <=> swapMu = g
      BY <1>0, <1>1
    <2> QED BY <1>0, <1>1, <2>1, <2>2, HandlersKept
  <1>4. OneHandlerPerRun'
    BY <1>0, <1>1, OneRunKept DEF RunsOnlyEnd, SwapPlaces, RevealPlaces, Others, SameRun
  <1>5. StoppedOk'
    BY <1>0, <1>1
    DEF StoppedOk, HandlerOk, ScanPlaces, SwapPlaces, RevealPlaces, Others, SameRun
  <1>6. ResolveOk'
    <2>1. at'[h] = "install" /\ mem'[h].sm = served' =>
             mem'[h].gen <= servers'[served'].gen /\ open' /\ mem'[h].val = session'
      BY <1>0, <1>1, NoneIsNobody DEF ResolveOk, TypeOK, ServedMount
    <2> QED BY <1>0, <1>1, <2>1, ResolveKept DEF SameHandler, Others
  <1>7. SwapOk'
    BY <1>0, <1>1, SwapKept
    DEF ServersOnlyEnd, SameHandler, HeldByAny, HandlerOk, ScanPlaces, SwapPlaces, RevealPlaces,
        Others, SameRun
  <1>8. PointerOk'
    BY <1>0, <1>1, PointerKept DEF HeldByAny, Others, SameRun
  <1>9. RealIsOfTheSession'
    BY <1>0, <1>1, RealKept DEF Others, SameRun
  <1>10. NoStrayServer'
    BY <1>0, <1>1, NoStrayKept DEF ServersOnlyEnd, SameHandler, HandlerOk, Others, SameRun
  <1> QED BY <1>2, <1>3, <1>4, <1>5, <1>6, <1>7, <1>8, <1>9, <1>10 DEF IInv

LEMMA DecryptFailsKeeps ==
  ASSUME IInv, NEW h \in Handlers, DecryptFails(h)
  PROVE  IInv'
  <1>0. /\ TypeOK /\ \A g \in Handlers : HandlerOk(g)
        /\ OneHandlerPerRun /\ StoppedOk /\ ResolveOk /\ SwapOk /\ PointerOk
        /\ RealIsOfTheSession /\ NoStrayServer
    BY DEF IInv
  <1>1. /\ at[h] = "decrypt" /\ at'[h] = "idle" /\ mem'[h] = Blank
        /\ swapMu' = IF swapMu = h THEN None ELSE swapMu
        /\ Others(h) /\ AtTyped
        /\ UNCHANGED <<rest, disk, sessionVars, serveVars, runVars, crossed>>
    BY <1>0, BlankTyped DEF TypeOK, DecryptFails, Finish, Go, Remember, Others, AtTyped, Places
  <1>2. TypeOK'
    BY <1>0, <1>1, BlankTyped DEF TypeOK, AtTyped, Others, Contents
  <1>3. (\A g \in Handlers : HandlerOk(g))'
    <2>1. HandlerOk(h)'
      BY <1>0, <1>1, BlankTyped DEF HandlerOk, ScanPlaces, SwapPlaces, RevealPlaces
    <2>2. \A g \in Handlers \ {h} : swapMu' = g <=> swapMu = g
      BY <1>0, <1>1
    <2> QED BY <1>0, <1>1, <2>1, <2>2, HandlersKept
  <1>4. OneHandlerPerRun'
    BY <1>0, <1>1, BlankTyped, OneRunKept DEF RunsOnlyEnd, SwapPlaces, RevealPlaces, Others
  <1>5. StoppedOk'
    BY <1>0, <1>1, BlankTyped
    DEF StoppedOk, HandlerOk, ScanPlaces, SwapPlaces, RevealPlaces, Others
  <1>6. ResolveOk'
    BY <1>0, <1>1, BlankTyped, ResolveKept DEF HandlerOk, SameHandler, Others
  <1>7. SwapOk'
    BY <1>0, <1>1, BlankTyped, SwapKept
    DEF ServersOnlyEnd, SameHandler, HeldByAny, HandlerOk, ScanPlaces, SwapPlaces, RevealPlaces,
        Others
  <1>8. PointerOk'
    BY <1>0, <1>1, BlankTyped, PointerKept DEF HeldByAny, Others
  <1>9. RealIsOfTheSession'
    BY <1>0, <1>1, BlankTyped, RealKept DEF Others
  <1>10. NoStrayServer'
    BY <1>0, <1>1, BlankTyped, NoStrayKept DEF ServersOnlyEnd, SameHandler, HandlerOk, Others
  <1> QED BY <1>2, <1>3, <1>4, <1>5, <1>6, <1>7, <1>8, <1>9, <1>10 DEF IInv

LEMMA InstallKeeps ==
  ASSUME IInv, NEW h \in Handlers, Install(h)
  PROVE  IInv'
  <1>0. /\ TypeOK /\ \A g \in Handlers : HandlerOk(g)
        /\ OneHandlerPerRun /\ StoppedOk /\ ResolveOk /\ SwapOk /\ PointerOk
        /\ RealIsOfTheSession /\ NoStrayServer
    BY DEF IInv
  <1>1. /\ at[h] = "install" /\ at'[h] = "idle" /\ mem'[h] = Blank
        /\ swapMu' = IF swapMu = h THEN None ELSE swapMu
        /\ Others(h) /\ AtTyped
        /\ UNCHANGED <<rest, disk, sessionVars, served, runVars, crossed>>
    BY <1>0, BlankTyped DEF TypeOK, Install, Finish, Go, Remember, Others, AtTyped, Places
  <1>2. mem[h].sm \in Servers /\ mem[h].val \in 0 .. MaxSessions
    BY <1>0, <1>1 DEF TypeOK, HandlerOk, Memory
  <1>3. /\ servers' \in [Servers -> ServedMount]
        /\ \A i \in Servers : /\ servers'[i].gen = servers[i].gen /\ servers'[i].at = servers[i].at
                              /\ servers'[i].cancelled = servers[i].cancelled
        /\ \A i \in Servers : SameServer(i) \/ /\ i = mem[h].sm /\ servers'[i].real = mem[h].val
                                               /\ servers[i].gen = mem[h].gen
    <2>1. CASE servers[mem[h].sm].gen = mem[h].gen
      <3>1. Arm(mem[h].sm, mem[h].val)
        BY <2>1 DEF Install
      <3> QED BY <1>0, <1>2, <2>1, <3>1, ArmArms DEF SameServer
    <2>2. CASE servers[mem[h].sm].gen # mem[h].gen
      BY <1>0, <2>2 DEF Install, TypeOK, SameServer
    <2> QED BY <2>1, <2>2
  <1>4. TypeOK'
    BY <1>0, <1>1, <1>2, <1>3, BlankTyped DEF TypeOK, AtTyped, Others, Contents, SameServer
  <1>5. (\A g \in Handlers : HandlerOk(g))'
    <2>1. HandlerOk(h)'
      BY <1>0, <1>1, <1>2, <1>3, BlankTyped DEF HandlerOk, ScanPlaces, SwapPlaces, RevealPlaces
    <2>2. \A g \in Handlers \ {h} : swapMu' = g <=> swapMu = g
      BY <1>0, <1>1, <1>2, <1>3
    <2> QED BY <1>0, <1>1, <2>1, <2>2, HandlersKept
  <1>6. OneHandlerPerRun'
    BY <1>0, <1>1, <1>2, <1>3, BlankTyped, OneRunKept
    DEF RunsOnlyEnd, SwapPlaces, RevealPlaces, Others, SameServer
  <1>7. StoppedOk'
    BY <1>0, <1>1, <1>2, <1>3, BlankTyped
    DEF StoppedOk, HandlerOk, ScanPlaces, SwapPlaces, RevealPlaces, Others, SameServer
  <1>8. ResolveOk'
    BY ZenonT(60), <1>0, <1>1, <1>2, <1>3, BlankTyped, ResolveKept
    DEF HandlerOk, SameHandler, Others, SameServer
  <1>9. SwapOk'
    BY <1>0, <1>1, <1>2, <1>3, BlankTyped, SwapKept
    DEF ServersOnlyEnd, SameHandler, HeldByAny, HandlerOk, ScanPlaces, SwapPlaces, RevealPlaces,
        Others, SameServer
  <1>10. PointerOk'
    BY <1>0, <1>1, <1>2, <1>3, BlankTyped, PointerKept DEF HeldByAny, Others, SameServer
  <1>11. RealIsOfTheSession'
    <2> SUFFICES ASSUME served # None, servers'[served].real # 0
                 PROVE  \/ open /\ servers'[served].real = session
                        \/ \E g \in Handlers : at[g] = "stop"
      BY <1>1 DEF RealIsOfTheSession, Others
    <2>1. served \in Servers
      BY <1>0 DEF TypeOK
    <2>2. CASE SameServer(served)
      BY <1>0, <2>2 DEF SameServer, RealIsOfTheSession
    <2>3. CASE ~SameServer(served)
      BY <1>0, <1>1, <1>3, <2>1, <2>3 DEF ResolveOk
    <2> QED BY <2>2, <2>3
  <1>12. NoStrayServer'
    BY <1>0, <1>1, <1>2, <1>3, BlankTyped, NoStrayKept
    DEF ServersOnlyEnd, SameHandler, HandlerOk, Others, SameServer
  <1> QED BY <1>4, <1>5, <1>6, <1>7, <1>8, <1>9, <1>10, <1>11, <1>12 DEF IInv

-----------------------------------------------------------------------------
(* Locks.                                                                  *)

LEMMA LockKeeps ==
  ASSUME IInv, NEW h \in Handlers, Lock(h)
  PROVE  IInv'
  <1>0. /\ TypeOK /\ \A g \in Handlers : HandlerOk(g)
        /\ OneHandlerPerRun /\ StoppedOk /\ ResolveOk /\ SwapOk /\ PointerOk
        /\ RealIsOfTheSession /\ NoStrayServer
    BY DEF IInv
  <1>1. /\ up /\ open /\ ~open' /\ open' = FALSE
        /\ at[h] = "idle" /\ at'[h] = "stop" /\ mem'[h] = Blank
        /\ Others(h) /\ AtTyped
        /\ UNCHANGED <<rest, disk, session, serveVars, runVars, swapMu, crossed>>
    BY <1>0, BlankTyped DEF TypeOK, Lock, Start, Go, Others, AtTyped, Places
  <1>2. TypeOK'
    BY <1>0, <1>1, BlankTyped DEF TypeOK, AtTyped, Others, Contents
  <1>3. (\A g \in Handlers : HandlerOk(g))'
    <2>1. HandlerOk(h)'
      BY <1>0, <1>1, BlankTyped DEF HandlerOk, ScanPlaces, SwapPlaces, RevealPlaces
    <2>2. \A g \in Handlers \ {h} : swapMu' = g <=> swapMu = g
      BY <1>0, <1>1
    <2> QED BY <1>0, <1>1, <2>1, <2>2, HandlersKept
  <1>4. OneHandlerPerRun'
    BY <1>0, <1>1, BlankTyped, OneRunKept DEF RunsOnlyEnd, SwapPlaces, RevealPlaces, Others
  <1>5. StoppedOk'
    BY <1>0, <1>1, BlankTyped
    DEF StoppedOk, HandlerOk, ScanPlaces, SwapPlaces, RevealPlaces, Others
  <1>6. ResolveOk'
    BY <1>0, <1>1, BlankTyped, ResolveKept DEF HandlerOk, SameHandler, Others
  <1>7. SwapOk'
    BY <1>0, <1>1, BlankTyped, SwapKept
    DEF ServersOnlyEnd, SameHandler, HeldByAny, HandlerOk, ScanPlaces, SwapPlaces, RevealPlaces,
        Others
  <1>8. PointerOk'
    BY <1>0, <1>1, BlankTyped, PointerKept DEF HeldByAny, Others
  <1>9. RealIsOfTheSession'
    BY <1>0, <1>1, BlankTyped, RealKept DEF Others
  <1>10. NoStrayServer'
    BY <1>0, <1>1, BlankTyped, NoStrayKept DEF ServersOnlyEnd, SameHandler, HandlerOk, Others
  <1> QED BY <1>2, <1>3, <1>4, <1>5, <1>6, <1>7, <1>8, <1>9, <1>10 DEF IInv

LEMMA InvalidateKeeps ==
  ASSUME IInv, NEW h \in Handlers, Invalidate(h)
  PROVE  IInv'
  <1>0. /\ TypeOK /\ \A g \in Handlers : HandlerOk(g)
        /\ OneHandlerPerRun /\ StoppedOk /\ ResolveOk /\ SwapOk /\ PointerOk
        /\ RealIsOfTheSession /\ NoStrayServer
    BY DEF IInv
  <1>1. /\ at[h] = "stop" /\ at'[h] = "clear runs" /\ mem'[h] = mem[h]
        /\ Others(h) /\ AtTyped
        /\ UNCHANGED <<rest, disk, sessionVars, served, runVars, swapMu, crossed>>
    BY <1>0 DEF TypeOK, Invalidate, Go, Others, AtTyped, Places
  <1>2. /\ servers' \in [Servers -> ServedMount]
        /\ \A i \in Servers : /\ servers'[i].at = servers[i].at
                              /\ servers'[i].cancelled = servers[i].cancelled
        /\ \A i \in Servers \ {served} : SameServer(i)
        /\ served # None => servers'[served].real = 0 /\ servers'[served].gen = servers[served].gen + 1
    <2>1. CASE served = None
      BY <1>0, <2>1 DEF Invalidate, TypeOK, SameServer
    <2>2. CASE served # None
      <3>1. served \in Servers
        BY <1>0, <2>2 DEF TypeOK
      <3>2. servers' = [servers EXCEPT ![served] = [servers[served] EXCEPT !.gen = @ + 1, !.real = 0]]
        BY <2>2 DEF Invalidate
      <3> QED BY <1>0, <3>1, <3>2, InvalidateDisarms DEF SameServer
    <2> QED BY <2>1, <2>2
  <1>3. TypeOK'
    BY <1>0, <1>1, <1>2 DEF TypeOK, AtTyped, Others, Contents, SameServer
  <1>4. (\A g \in Handlers : HandlerOk(g))'
    <2>1. HandlerOk(h)'
      BY <1>0, <1>1, <1>2 DEF HandlerOk, ScanPlaces, SwapPlaces, RevealPlaces
    <2>2. \A g \in Handlers \ {h} : swapMu' = g <=> swapMu = g
      BY <1>0, <1>1, <1>2
    <2> QED BY <1>0, <1>1, <2>1, <2>2, HandlersKept
  <1>5. OneHandlerPerRun'
    BY <1>0, <1>1, <1>2, OneRunKept
    DEF RunsOnlyEnd, SwapPlaces, RevealPlaces, Others, SameServer
  <1>6. StoppedOk'
    BY <1>0, <1>1, <1>2
    DEF StoppedOk, HandlerOk, ScanPlaces, SwapPlaces, RevealPlaces, Others, SameServer
  <1>7. ResolveOk'
    <2> SUFFICES ASSUME NEW g \in Handlers, at'[g] \in {"decrypt", "install"}, mem'[g].sm = served
                 PROVE  /\ mem'[g].gen <= servers'[served].gen
                        /\ mem'[g].gen # servers'[served].gen
      BY <1>1 DEF ResolveOk
    <2>1. at[g] = at'[g] /\ mem'[g] = mem[g] /\ served \in Servers
      BY <1>0, <1>1 DEF Others, HandlerOk
    <2>2. mem[g].gen <= servers[served].gen
      BY <1>0, <2>1 DEF ResolveOk
    <2>3. mem[g].gen \in Nat /\ servers[served].gen \in Nat
      BY <1>0, <2>1 DEF TypeOK, Memory, ServedMount
    <2> QED BY <1>2, <2>1, <2>2, <2>3, NoneIsNobody
  <1>8. SwapOk'
    BY <1>0, <1>1, <1>2, SwapKept
    DEF ServersOnlyEnd, SameHandler, HeldByAny, HandlerOk, ScanPlaces, SwapPlaces, RevealPlaces,
        Others, SameServer
  <1>9. PointerOk'
    BY <1>0, <1>1, <1>2, PointerKept DEF HeldByAny, Others, SameServer
  <1>10. RealIsOfTheSession'
    BY <1>1, <1>2 DEF RealIsOfTheSession
  <1>11. NoStrayServer'
    BY <1>0, <1>1, <1>2, NoStrayKept
    DEF ServersOnlyEnd, SameHandler, HandlerOk, Others, SameServer
  <1> QED BY <1>3, <1>4, <1>5, <1>6, <1>7, <1>8, <1>9, <1>10, <1>11 DEF IInv

LEMMA ClearRunsKeeps ==
  ASSUME IInv, NEW h \in Handlers, ClearRuns(h)
  PROVE  IInv'
  <1>0. /\ TypeOK /\ \A g \in Handlers : HandlerOk(g)
        /\ OneHandlerPerRun /\ StoppedOk /\ ResolveOk /\ SwapOk /\ PointerOk
        /\ RealIsOfTheSession /\ NoStrayServer
    BY DEF IInv
  <1>1. /\ at[h] = "clear runs" /\ mem'[h] = mem[h]
        /\ at'[h] = IF HeldByAny THEN "restore" ELSE "idle"
        /\ runs' \in [Procs -> Modes \union {None}] /\ \A p \in Procs : runs'[p] = None
        /\ Others(h) /\ AtTyped
        /\ UNCHANGED <<rest, disk, sessionVars, serveVars, alive, swapMu, crossed>>
    BY <1>0 DEF TypeOK, ClearRuns, Go, Others, AtTyped, Places
  <1>2. TypeOK'
    BY <1>0, <1>1 DEF TypeOK, AtTyped, Others, Contents, HeldByAny
  <1>3. (\A g \in Handlers : HandlerOk(g))'
    <2>1. HandlerOk(h)'
      BY <1>0, <1>1 DEF HandlerOk, ScanPlaces, SwapPlaces, RevealPlaces, HeldByAny
    <2>2. \A g \in Handlers \ {h} : swapMu' = g <=> swapMu = g
      BY <1>0, <1>1
    <2> QED BY <1>0, <1>1, <2>1, <2>2, HandlersKept
  <1>4. OneHandlerPerRun'
    BY <1>0, <1>1, OneRunKept DEF RunsOnlyEnd, SwapPlaces, RevealPlaces, Others, HeldByAny
  <1>5. StoppedOk'
    BY <1>0, <1>1
    DEF StoppedOk, HandlerOk, ScanPlaces, SwapPlaces, RevealPlaces, Others, HeldByAny
  <1>6. ResolveOk'
    BY <1>0, <1>1, ResolveKept DEF HandlerOk, SameHandler, Others, HeldByAny
  <1>7. SwapOk'
    <2>1. ~HeldByAny'
      BY <1>1, NoneIsNobody DEF HeldByAny, Modes
    <2>2. \A g \in Handlers : swapMu' = g => g # h /\ SameHandler(g)
      BY <1>0, <1>1 DEF HandlerOk, ScanPlaces, SwapPlaces, SameHandler, Others
    <2> QED BY <1>0, <1>1, <2>1, <2>2, SwapKept DEF ServersOnlyEnd
  <1>8. PointerOk'
    <2>1. CASE HeldByAny
      BY <1>1, <2>1 DEF PointerOk
    <2>2. CASE ~HeldByAny
      BY <1>0, <1>1, <2>2 DEF PointerOk, Others
    <2> QED BY <2>1, <2>2
  <1>9. RealIsOfTheSession'
    BY <1>0, <1>1, RealKept DEF Others, HeldByAny
  <1>10. NoStrayServer'
    BY <1>0, <1>1, NoStrayKept DEF ServersOnlyEnd, SameHandler, HandlerOk, Others, HeldByAny
  <1> QED BY <1>2, <1>3, <1>4, <1>5, <1>6, <1>7, <1>8, <1>9, <1>10 DEF IInv

-----------------------------------------------------------------------------
(* Runs: attached, swapped in, ended.                                      *)

LEMMA RevealKeeps ==
  ASSUME IInv, NEW h \in Handlers, NEW p \in Procs, NEW m \in Modes, Reveal(h, p, m)
  PROVE  IInv'
  <1>0. /\ TypeOK /\ \A g \in Handlers : HandlerOk(g)
        /\ OneHandlerPerRun /\ StoppedOk /\ ResolveOk /\ SwapOk /\ PointerOk
        /\ RealIsOfTheSession /\ NoStrayServer
    BY DEF IInv
  <1>1. /\ up /\ open /\ runs[p] = None /\ \A g \in Handlers : mem[g].proc # p
        /\ at[h] = "idle" /\ at'[h] = "reveal"
        /\ mem'[h] \in Memory /\ mem'[h].sm = None /\ mem'[h].proc = p /\ mem'[h].mode = m
        /\ Others(h) /\ AtTyped
        /\ UNCHANGED <<rest, disk, sessionVars, serveVars, runVars, swapMu, crossed>>
    <2> DEFINE n == [Blank EXCEPT !.proc = p, !.mode = m]
    <2>1. n \in Memory /\ n.sm = None /\ n.proc = p /\ n.mode = m
      BY BlankTyped DEF Memory
    <2>2. /\ up /\ open /\ runs[p] = None /\ \A g \in Handlers : mem[g].proc # p
          /\ Go(h, "idle", "reveal") /\ mem' = [mem EXCEPT ![h] = n]
          /\ UNCHANGED <<rest, disk, sessionVars, serveVars, runVars, swapMu, crossed>>
      BY DEF Reveal, Start
    <2> HIDE DEF n
    <2> QED BY <1>0, <2>1, <2>2 DEF TypeOK, Go, Others, AtTyped, Places
  <1>2. TypeOK'
    BY <1>0, <1>1, BlankTyped DEF TypeOK, AtTyped, Others, Contents
  <1>3. (\A g \in Handlers : HandlerOk(g))'
    <2>1. HandlerOk(h)'
      BY <1>0, <1>1, BlankTyped DEF HandlerOk, ScanPlaces, SwapPlaces, RevealPlaces
    <2>2. \A g \in Handlers \ {h} : swapMu' = g <=> swapMu = g
      BY <1>0, <1>1
    <2> QED BY <1>0, <1>1, <2>1, <2>2, HandlersKept
  <1>4. OneHandlerPerRun'
    <2> SUFFICES ASSUME NEW g \in Handlers, at'[g] \in RevealPlaces
                 PROVE  /\ runs[mem'[g].proc] = None
                        /\ \A f \in Handlers \ {g} : mem'[f].proc # mem'[g].proc
      BY <1>1 DEF OneHandlerPerRun
    <2>1. CASE g = h
      BY <1>1, <2>1 DEF Others
    <2>2. CASE g # h
      BY <1>0, <1>1, <2>2 DEF OneHandlerPerRun, Others
    <2> QED BY <2>1, <2>2
  <1>5. StoppedOk'
    BY <1>0, <1>1, BlankTyped
    DEF StoppedOk, HandlerOk, ScanPlaces, SwapPlaces, RevealPlaces, Others
  <1>6. ResolveOk'
    BY <1>0, <1>1, BlankTyped, ResolveKept DEF HandlerOk, SameHandler, Others
  <1>7. SwapOk'
    BY <1>0, <1>1, BlankTyped, SwapKept
    DEF ServersOnlyEnd, SameHandler, HeldByAny, HandlerOk, ScanPlaces, SwapPlaces, RevealPlaces,
        Others
  <1>8. PointerOk'
    BY <1>0, <1>1, BlankTyped, PointerKept DEF HeldByAny, Others
  <1>9. RealIsOfTheSession'
    BY <1>0, <1>1, BlankTyped, RealKept DEF Others
  <1>10. NoStrayServer'
    BY <1>0, <1>1, BlankTyped, NoStrayKept DEF ServersOnlyEnd, SameHandler, HandlerOk, Others
  <1> QED BY <1>2, <1>3, <1>4, <1>5, <1>6, <1>7, <1>8, <1>9, <1>10 DEF IInv

LEMMA RevealGrantKeeps ==
  ASSUME IInv, NEW h \in Handlers, RevealGrant(h)
  PROVE  IInv'
  <1>0. /\ TypeOK /\ \A g \in Handlers : HandlerOk(g)
        /\ OneHandlerPerRun /\ StoppedOk /\ ResolveOk /\ SwapOk /\ PointerOk
        /\ RealIsOfTheSession /\ NoStrayServer
    BY DEF IInv
  <1>1. /\ mem[h].mode = "grant" /\ at[h] = "reveal"
        /\ \/ at'[h] = "register" /\ mem'[h] = mem[h]
           \/ at'[h] = "idle" /\ mem'[h] = Blank
        /\ Others(h) /\ AtTyped
        /\ UNCHANGED <<rest, disk, sessionVars, serveVars, runVars, swapMu, crossed>>
    BY ZenonT(60), <1>0, BlankTyped DEF TypeOK, RevealGrant, Go, Remember, Others, AtTyped, Places
  <1>2. TypeOK'
    BY <1>0, <1>1, BlankTyped DEF TypeOK, AtTyped, Others, Contents
  <1>3. (\A g \in Handlers : HandlerOk(g))'
    <2>1. HandlerOk(h)'
      BY <1>0, <1>1, BlankTyped DEF HandlerOk, ScanPlaces, SwapPlaces, RevealPlaces
    <2>2. \A g \in Handlers \ {h} : swapMu' = g <=> swapMu = g
      BY <1>0, <1>1
    <2> QED BY <1>0, <1>1, <2>1, <2>2, HandlersKept
  <1>4. OneHandlerPerRun'
    BY <1>0, <1>1, BlankTyped, OneRunKept DEF RunsOnlyEnd, SwapPlaces, RevealPlaces, Others
  <1>5. StoppedOk'
    BY <1>0, <1>1, BlankTyped
    DEF StoppedOk, HandlerOk, ScanPlaces, SwapPlaces, RevealPlaces, Others
  <1>6. ResolveOk'
    BY <1>0, <1>1, BlankTyped, ResolveKept DEF HandlerOk, SameHandler, Others
  <1>7. SwapOk'
    BY <1>0, <1>1, BlankTyped, SwapKept
    DEF ServersOnlyEnd, SameHandler, HeldByAny, HandlerOk, ScanPlaces, SwapPlaces, RevealPlaces,
        Others
  <1>8. PointerOk'
    BY <1>0, <1>1, BlankTyped, PointerKept DEF HeldByAny, Others
  <1>9. RealIsOfTheSession'
    BY <1>0, <1>1, BlankTyped, RealKept DEF Others
  <1>10. NoStrayServer'
    BY <1>0, <1>1, BlankTyped, NoStrayKept DEF ServersOnlyEnd, SameHandler, HandlerOk, Others
  <1> QED BY <1>2, <1>3, <1>4, <1>5, <1>6, <1>7, <1>8, <1>9, <1>10 DEF IInv

LEMMA AwaitKeeps ==
  ASSUME IInv, NEW h \in Handlers, Await(h)
  PROVE  IInv'
  <1>0. /\ TypeOK /\ \A g \in Handlers : HandlerOk(g)
        /\ OneHandlerPerRun /\ StoppedOk /\ ResolveOk /\ SwapOk /\ PointerOk
        /\ RealIsOfTheSession /\ NoStrayServer
    BY DEF IInv
  <1>1. /\ servers[mem[h].sm].at = "done" /\ mem[h].sm \in Servers
        /\ at[h] = "await" /\ at'[h] = "swap file"
        /\ mem'[h] \in Memory /\ SameRun(h) /\ mem'[h].sm = None
        /\ Others(h) /\ AtTyped
        /\ UNCHANGED <<rest, disk, sessionVars, serveVars, runVars, swapMu, crossed>>
    BY <1>0, AwaitedForgets, "swap file" \in Places DEF Await, Places
  <1>2. TypeOK'
    BY <1>0, <1>1 DEF TypeOK, AtTyped, Others, Contents, SameRun
  <1>3. (\A g \in Handlers : HandlerOk(g))'
    <2>1. HandlerOk(h)'
      BY <1>0, <1>1 DEF HandlerOk, ScanPlaces, SwapPlaces, RevealPlaces, SameRun
    <2>2. \A g \in Handlers \ {h} : swapMu' = g <=> swapMu = g
      BY <1>0, <1>1
    <2> QED BY <1>0, <1>1, <2>1, <2>2, HandlersKept
  <1>4. OneHandlerPerRun'
    BY <1>0, <1>1, OneRunKept DEF RunsOnlyEnd, SwapPlaces, RevealPlaces, Others, SameRun
  <1>5. StoppedOk'
    BY <1>0, <1>1
    DEF StoppedOk, HandlerOk, ScanPlaces, SwapPlaces, RevealPlaces, Others, SameRun
  <1>6. ResolveOk'
    BY <1>0, <1>1, ResolveKept DEF HandlerOk, SameHandler, Others, SameRun
  <1>7. SwapOk'
    <2>1. ~crossed => NothingServes
      BY <1>0, <1>1 DEF SwapOk, NothingServes, HandlerOk
    <2> QED BY <1>0, <1>1, <2>1
    DEF SwapOk, HandlerOk, ScanPlaces, NothingServes, HeldByAny, Others
  <1>8. PointerOk'
    BY <1>0, <1>1, PointerKept DEF HeldByAny, Others, SameRun
  <1>9. RealIsOfTheSession'
    BY <1>0, <1>1, RealKept DEF Others, SameRun
  <1>10. NoStrayServer'
    BY <1>0, <1>1, NoStrayKept DEF ServersOnlyEnd, SameHandler, HandlerOk, Others, SameRun
  <1> QED BY <1>2, <1>3, <1>4, <1>5, <1>6, <1>7, <1>8, <1>9, <1>10 DEF IInv

LEMMA SwapInKeeps ==
  ASSUME IInv, NEW h \in Handlers, SwapIn(h)
  PROVE  IInv'
  <1>0. /\ TypeOK /\ \A g \in Handlers : HandlerOk(g)
        /\ OneHandlerPerRun /\ StoppedOk /\ ResolveOk /\ SwapOk /\ PointerOk
        /\ RealIsOfTheSession /\ NoStrayServer
    BY DEF IInv
  <1>1. /\ at[h] = "swap file" /\ at'[h] = "register" /\ mem'[h] = mem[h]
        /\ disk' = IF disk = "pipe" THEN "pointer" ELSE disk
        /\ Others(h) /\ AtTyped
        /\ UNCHANGED <<rest, sessionVars, served, runVars, swapMu, crossed>>
    BY <1>0 DEF TypeOK, SwapIn, Place, Go, Others, AtTyped, Places
  <1>2. servers' \in [Servers -> ServedMount] /\ \A i \in Servers : SameLife(servers'[i], servers[i])
    BY <1>0, OffPathOrphans DEF SwapIn, Place, TypeOK, SameLife
  <1>3. TypeOK'
    BY <1>0, <1>1, <1>2 DEF TypeOK, AtTyped, Others, Contents, SameLife
  <1>4. (\A g \in Handlers : HandlerOk(g))'
    <2>1. HandlerOk(h)'
      BY <1>0, <1>1, <1>2 DEF HandlerOk, ScanPlaces, SwapPlaces, RevealPlaces
    <2>2. \A g \in Handlers \ {h} : swapMu' = g <=> swapMu = g
      BY <1>0, <1>1, <1>2
    <2> QED BY <1>0, <1>1, <2>1, <2>2, HandlersKept
  <1>5. OneHandlerPerRun'
    BY <1>0, <1>1, <1>2, OneRunKept DEF RunsOnlyEnd, SwapPlaces, RevealPlaces, Others, SameLife
  <1>6. StoppedOk'
    BY <1>0, <1>1, <1>2
    DEF StoppedOk, HandlerOk, ScanPlaces, SwapPlaces, RevealPlaces, Others, SameLife
  <1>7. ResolveOk'
    BY <1>0, <1>1, <1>2, ResolveKept DEF HandlerOk, SameHandler, Others, SameLife
  <1>8. SwapOk'
    <2>1. disk' # "pipe" /\ HeldByAny' = HeldByAny /\ (NothingServes => NothingServes')
      BY <1>0, <1>1, <1>2 DEF HeldByAny, NothingServes, SameLife
    <2>2. swapMu' = h /\ ~HeldByAny
      BY <1>0, <1>1 DEF HandlerOk, SwapOk
    <2>3. \A g \in Handlers : swapMu' = g => g = h
      BY <2>2
    <2> QED BY <1>0, <1>1, <2>1, <2>2, <2>3 DEF SwapOk, ScanPlaces
  <1>9. PointerOk'
    <2>1. mem'[h].mode = "swap"
      BY <1>0, <1>1 DEF HandlerOk
    <2> QED BY <1>1, <2>1 DEF PointerOk
  <1>10. RealIsOfTheSession'
    BY <1>0, <1>1, <1>2, RealKept DEF SameLife, Others
  <1>11. NoStrayServer'
    BY <1>0, <1>1, <1>2, NoStrayKept
    DEF ServersOnlyEnd, SameHandler, HandlerOk, Others, SameLife
  <1> QED BY <1>3, <1>4, <1>5, <1>6, <1>7, <1>8, <1>9, <1>10, <1>11 DEF IInv

LEMMA SwapInFailsKeeps ==
  ASSUME IInv, NEW h \in Handlers, SwapInFails(h)
  PROVE  IInv'
  <1>0. /\ TypeOK /\ \A g \in Handlers : HandlerOk(g)
        /\ OneHandlerPerRun /\ StoppedOk /\ ResolveOk /\ SwapOk /\ PointerOk
        /\ RealIsOfTheSession /\ NoStrayServer
    BY DEF IInv
  <1>1. /\ disk = "pipe" /\ at[h] = "swap file" /\ at'[h] = "ensure" /\ mem'[h] = Blank
        /\ Others(h) /\ AtTyped
        /\ UNCHANGED <<rest, disk, sessionVars, serveVars, runVars, swapMu, crossed>>
    BY <1>0, BlankTyped DEF TypeOK, SwapInFails, Go, Remember, Others, AtTyped, Places
  <1>2. TypeOK'
    BY <1>0, <1>1, BlankTyped DEF TypeOK, AtTyped, Others, Contents
  <1>3. (\A g \in Handlers : HandlerOk(g))'
    <2>1. HandlerOk(h)'
      BY <1>0, <1>1, BlankTyped DEF HandlerOk, ScanPlaces, SwapPlaces, RevealPlaces
    <2>2. \A g \in Handlers \ {h} : swapMu' = g <=> swapMu = g
      BY <1>0, <1>1
    <2> QED BY <1>0, <1>1, <2>1, <2>2, HandlersKept
  <1>4. OneHandlerPerRun'
    BY <1>0, <1>1, BlankTyped, OneRunKept DEF RunsOnlyEnd, SwapPlaces, RevealPlaces, Others
  <1>5. StoppedOk'
    BY <1>0, <1>1, BlankTyped
    DEF StoppedOk, HandlerOk, ScanPlaces, SwapPlaces, RevealPlaces, Others
  <1>6. ResolveOk'
    BY <1>0, <1>1, BlankTyped, ResolveKept DEF HandlerOk, SameHandler, Others
  <1>7. SwapOk'
    BY <1>0, <1>1, BlankTyped, SwapKept
    DEF ServersOnlyEnd, SameHandler, HeldByAny, HandlerOk, ScanPlaces, SwapPlaces, RevealPlaces,
        Others
  <1>8. PointerOk'
    BY <1>0, <1>1, BlankTyped, PointerKept DEF HeldByAny, Others
  <1>9. RealIsOfTheSession'
    BY <1>0, <1>1, BlankTyped, RealKept DEF Others
  <1>10. NoStrayServer'
    BY <1>0, <1>1, BlankTyped, NoStrayKept DEF ServersOnlyEnd, SameHandler, HandlerOk, Others
  <1> QED BY <1>2, <1>3, <1>4, <1>5, <1>6, <1>7, <1>8, <1>9, <1>10 DEF IInv

LEMMA RegisterKeeps ==
  ASSUME IInv, NEW h \in Handlers, Register(h)
  PROVE  IInv'
  <1>0. /\ TypeOK /\ \A g \in Handlers : HandlerOk(g)
        /\ OneHandlerPerRun /\ StoppedOk /\ ResolveOk /\ SwapOk /\ PointerOk
        /\ RealIsOfTheSession /\ NoStrayServer
    BY DEF IInv
  <1>1. /\ at[h] = "register" /\ at'[h] = "arm" /\ mem'[h] = mem[h]
        /\ mem[h].proc \in Procs /\ mem[h].mode \in Modes
        /\ swapMu = IF mem[h].mode = "swap" THEN h ELSE None
        /\ swapMu' = None
        /\ runs' \in [Procs -> Modes \union {None}]
        /\ runs'[mem[h].proc] = mem[h].mode /\ \A p \in Procs \ {mem[h].proc} : runs'[p] = runs[p]
        /\ Others(h) /\ AtTyped
        /\ UNCHANGED <<rest, disk, sessionVars, serveVars, alive, crossed>>
    BY <1>0
    DEF TypeOK, Register, HandlerOk, RevealPlaces, SwapPlaces, Go, Others, AtTyped, Places
  <1>2. TypeOK'
    BY <1>0, <1>1 DEF TypeOK, AtTyped, Others, Contents
  <1>3. (\A g \in Handlers : HandlerOk(g))'
    <2>1. HandlerOk(h)'
      BY <1>0, <1>1 DEF HandlerOk, ScanPlaces, SwapPlaces, RevealPlaces
    <2>2. \A g \in Handlers \ {h} : swapMu' = g <=> swapMu = g
      BY <1>0, <1>1
    <2> QED BY <1>0, <1>1, <2>1, <2>2, HandlersKept
  <1>4. OneHandlerPerRun'
    <2> SUFFICES ASSUME NEW g \in Handlers, at'[g] \in RevealPlaces
                 PROVE  /\ runs'[mem'[g].proc] = None
                        /\ \A f \in Handlers \ {g} : mem'[f].proc # mem'[g].proc
      BY DEF OneHandlerPerRun
    <2>1. g # h /\ at'[g] = at[g] /\ \A f \in Handlers : mem'[f] = mem[f]
      BY <1>1 DEF Others, RevealPlaces, SwapPlaces
    <2>2. mem[g].proc \in Procs /\ runs[mem[g].proc] = None
          /\ \A f \in Handlers \ {g} : mem[f].proc # mem[g].proc
      BY <1>0, <2>1 DEF HandlerOk, OneHandlerPerRun
    <2> QED BY <1>1, <2>1, <2>2
  <1>5. StoppedOk'
    BY <1>0, <1>1 DEF StoppedOk, HandlerOk, ScanPlaces, SwapPlaces, RevealPlaces, Others
  <1>6. ResolveOk'
    BY <1>0, <1>1, ResolveKept DEF HandlerOk, SameHandler, Others
  <1>7. SwapOk'
    <2>1. \A g \in Handlers : swapMu' # g
      BY <1>1, NoneIsNobody
    <2>2. HeldByAny' => HeldByAny \/ mem[h].mode = "swap"
      BY <1>1 DEF HeldByAny
    <2>3. ~crossed /\ mem[h].mode = "swap" => disk # "pipe" /\ NothingServes
      BY <1>0, <1>1 DEF SwapOk
    <2> QED BY <1>0, <1>1, <2>1, <2>2, <2>3 DEF SwapOk, NothingServes
  <1>8. PointerOk'
    <2>1. mem[h].mode = "swap" => HeldByAny'
      BY <1>1 DEF HeldByAny
    <2>2. runs[mem[h].proc] = None
      BY <1>0, <1>1 DEF OneHandlerPerRun, RevealPlaces, SwapPlaces
    <2>3. HeldByAny => HeldByAny'
      BY <1>1, <2>2, NoneIsNobody DEF HeldByAny, Modes
    <2> QED BY <1>0, <1>1, <2>1, <2>3 DEF PointerOk, Others
  <1>9. RealIsOfTheSession'
    BY <1>0, <1>1, RealKept DEF Others
  <1>10. NoStrayServer'
    BY <1>0, <1>1, NoStrayKept DEF ServersOnlyEnd, SameHandler, HandlerOk, Others
  <1> QED BY <1>2, <1>3, <1>4, <1>5, <1>6, <1>7, <1>8, <1>9, <1>10 DEF IInv

LEMMA WatchRunKeeps ==
  ASSUME IInv, NEW h \in Handlers, WatchRun(h)
  PROVE  IInv'
  <1>0. /\ TypeOK /\ \A g \in Handlers : HandlerOk(g)
        /\ OneHandlerPerRun /\ StoppedOk /\ ResolveOk /\ SwapOk /\ PointerOk
        /\ RealIsOfTheSession /\ NoStrayServer
    BY DEF IInv
  <1>1. /\ at[h] = "arm" /\ mem'[h] = Blank
        /\ at'[h] \in {"idle", "restore"} /\ RunsEnd(h)
        /\ Others(h) /\ AtTyped
        /\ UNCHANGED <<rest, disk, sessionVars, serveVars, alive, swapMu, crossed>>
    <2>1. mem[h].proc \in Procs
      BY <1>0 DEF WatchRun, HandlerOk
    <2>2. CASE mem[h].proc \in alive
      <3>1. /\ Go(h, "arm", "idle") /\ Remember(h, Blank) /\ UNCHANGED runs
            /\ UNCHANGED <<rest, disk, sessionVars, serveVars, alive, swapMu, crossed>>
        BY <2>2 DEF WatchRun
      <3>2. RunsEnd(h)
        BY <1>0, <3>1 DEF TypeOK, RunsEnd, RunsOnlyEnd, HeldByAny
      <3> QED BY <1>0, <3>1, <3>2, BlankTyped DEF TypeOK, Go, Remember, Others, AtTyped, Places
    <2>3. CASE mem[h].proc \notin alive
      <3>1. RunEnds(h, "arm", mem[h].proc)
        BY <2>3 DEF WatchRun
      <3>2. UNCHANGED <<rest, disk, sessionVars, serveVars, alive, swapMu, crossed>>
        BY DEF WatchRun
      <3> QED BY <1>0, <2>1, <3>1, <3>2, RunEndsEnds
    <2> QED BY <2>2, <2>3
  <1>2. TypeOK'
    BY <1>0, <1>1, BlankTyped DEF TypeOK, AtTyped, Others, Contents, RunsEnd, HeldByAny
  <1>3. (\A g \in Handlers : HandlerOk(g))'
    <2>1. HandlerOk(h)'
      BY <1>0, <1>1, BlankTyped
      DEF HandlerOk, ScanPlaces, SwapPlaces, RevealPlaces, RunsEnd, HeldByAny
    <2>2. \A g \in Handlers \ {h} : swapMu' = g <=> swapMu = g
      BY <1>0, <1>1
    <2> QED BY <1>0, <1>1, <2>1, <2>2, HandlersKept
  <1>4. OneHandlerPerRun'
    BY <1>0, <1>1, BlankTyped, OneRunKept
    DEF RunsOnlyEnd, SwapPlaces, RevealPlaces, Others, RunsEnd, HeldByAny
  <1>5. StoppedOk'
    BY <1>0, <1>1, BlankTyped
    DEF StoppedOk, HandlerOk, ScanPlaces, SwapPlaces, RevealPlaces, Others, RunsEnd, HeldByAny
  <1>6. ResolveOk'
    BY <1>0, <1>1, BlankTyped, ResolveKept
    DEF HandlerOk, SameHandler, Others, RunsEnd, HeldByAny
  <1>7. SwapOk'
    <2>1. \A g \in Handlers : swapMu' = g => g # h /\ SameHandler(g)
      BY <1>0, <1>1 DEF HandlerOk, ScanPlaces, SwapPlaces, SameHandler, Others
    <2> QED BY <1>0, <1>1, <2>1, SwapKept DEF RunsEnd, ServersOnlyEnd
  <1>8. PointerOk'
    <2>1. CASE at'[h] = "restore"
      BY <2>1 DEF PointerOk
    <2>2. CASE at'[h] # "restore"
      <3>1. HeldByAny => HeldByAny'
        BY <1>1, <2>2 DEF RunsEnd
      <3> QED BY <1>0, <1>1, <3>1, PointerKept DEF Others
    <2> QED BY <2>1, <2>2
  <1>9. RealIsOfTheSession'
    BY <1>0, <1>1, BlankTyped, RealKept DEF Others, RunsEnd, HeldByAny
  <1>10. NoStrayServer'
    BY <1>0, <1>1, BlankTyped, NoStrayKept
    DEF ServersOnlyEnd, SameHandler, HandlerOk, Others, RunsEnd, HeldByAny
  <1> QED BY <1>2, <1>3, <1>4, <1>5, <1>6, <1>7, <1>8, <1>9, <1>10 DEF IInv

LEMMA RunGoneKeeps ==
  ASSUME IInv, NEW h \in Handlers, NEW p \in Procs, RunGone(h, p)
  PROVE  IInv'
  <1>0. /\ TypeOK /\ \A g \in Handlers : HandlerOk(g)
        /\ OneHandlerPerRun /\ StoppedOk /\ ResolveOk /\ SwapOk /\ PointerOk
        /\ RealIsOfTheSession /\ NoStrayServer
    BY DEF IInv
  <1>1. /\ up /\ at[h] = "idle" /\ mem'[h] = Blank
        /\ at'[h] \in {"idle", "restore"} /\ RunsEnd(h)
        /\ Others(h) /\ AtTyped
        /\ UNCHANGED <<rest, disk, sessionVars, serveVars, alive, swapMu, crossed>>
    BY <1>0, RunEndsEnds DEF RunGone
  <1>2. TypeOK'
    BY <1>0, <1>1, BlankTyped DEF TypeOK, AtTyped, Others, Contents, RunsEnd
  <1>3. (\A g \in Handlers : HandlerOk(g))'
    <2>1. HandlerOk(h)'
      BY <1>0, <1>1, BlankTyped DEF HandlerOk, ScanPlaces, SwapPlaces, RevealPlaces, RunsEnd
    <2>2. \A g \in Handlers \ {h} : swapMu' = g <=> swapMu = g
      BY <1>0, <1>1
    <2> QED BY <1>0, <1>1, <2>1, <2>2, HandlersKept
  <1>4. OneHandlerPerRun'
    BY <1>0, <1>1, BlankTyped, OneRunKept
    DEF RunsOnlyEnd, SwapPlaces, RevealPlaces, Others, RunsEnd
  <1>5. StoppedOk'
    BY <1>0, <1>1, BlankTyped
    DEF StoppedOk, HandlerOk, ScanPlaces, SwapPlaces, RevealPlaces, Others, RunsEnd
  <1>6. ResolveOk'
    BY <1>0, <1>1, BlankTyped, ResolveKept DEF HandlerOk, SameHandler, Others, RunsEnd
  <1>7. SwapOk'
    <2>1. \A g \in Handlers : swapMu' = g => g # h /\ SameHandler(g)
      BY <1>0, <1>1 DEF HandlerOk, ScanPlaces, SwapPlaces, SameHandler, Others
    <2> QED BY <1>0, <1>1, <2>1, SwapKept DEF RunsEnd, ServersOnlyEnd
  <1>8. PointerOk'
    <2>1. CASE at'[h] = "restore"
      BY <2>1 DEF PointerOk
    <2>2. CASE at'[h] # "restore"
      <3>1. HeldByAny => HeldByAny'
        BY <1>1, <2>2 DEF RunsEnd
      <3> QED BY <1>0, <1>1, <3>1, PointerKept DEF Others
    <2> QED BY <2>1, <2>2
  <1>9. RealIsOfTheSession'
    BY <1>0, <1>1, BlankTyped, RealKept DEF Others, RunsEnd
  <1>10. NoStrayServer'
    BY <1>0, <1>1, BlankTyped, NoStrayKept
    DEF ServersOnlyEnd, SameHandler, HandlerOk, Others, RunsEnd
  <1> QED BY <1>2, <1>3, <1>4, <1>5, <1>6, <1>7, <1>8, <1>9, <1>10 DEF IInv

LEMMA RestoreKeeps ==
  ASSUME IInv, NEW h \in Handlers, Restore(h)
  PROVE  IInv'
  <1>0. /\ TypeOK /\ \A g \in Handlers : HandlerOk(g)
        /\ OneHandlerPerRun /\ StoppedOk /\ ResolveOk /\ SwapOk /\ PointerOk
        /\ RealIsOfTheSession /\ NoStrayServer
    BY DEF IInv
  <1>1. /\ swapMu = None /\ at[h] = "restore" /\ mem'[h] = mem[h]
        /\ \/ at'[h] = "idle" /\ (HeldByAny \/ ~registered) /\ UNCHANGED <<disk, servers, swapMu>>
           \/ at'[h] = "ensure" /\ ~HeldByAny /\ registered /\ disk' = "pipe" /\ swapMu' = h
        /\ Others(h) /\ AtTyped
        /\ UNCHANGED <<rest, sessionVars, served, runVars, crossed>>
    <2>1. CASE HeldByAny \/ ~registered
      BY <1>0, <2>1 DEF TypeOK, Restore, Go, Others, AtTyped, Places
    <2>2. CASE ~(HeldByAny \/ ~registered)
      BY <1>0, <2>2 DEF TypeOK, Restore, PutBack, Place, Go, Others, AtTyped, Places
    <2> QED BY <2>1, <2>2
  <1>2. servers' \in [Servers -> ServedMount] /\ \A i \in Servers : SameLife(servers'[i], servers[i])
    BY <1>0, OffPathOrphans DEF Restore, PutBack, Place, TypeOK, SameLife
  <1>3. TypeOK'
    BY <1>0, <1>1, <1>2 DEF TypeOK, AtTyped, Others, Contents, SameLife, HeldByAny
  <1>4. (\A g \in Handlers : HandlerOk(g))'
    <2>1. HandlerOk(h)'
      BY <1>0, <1>1, <1>2 DEF HandlerOk, ScanPlaces, SwapPlaces, RevealPlaces, HeldByAny
    <2>2. \A g \in Handlers \ {h} : swapMu' = g <=> swapMu = g
      BY <1>0, <1>1, <1>2
    <2> QED BY <1>0, <1>1, <2>1, <2>2, HandlersKept
  <1>5. OneHandlerPerRun'
    BY <1>0, <1>1, <1>2, OneRunKept
    DEF RunsOnlyEnd, SwapPlaces, RevealPlaces, Others, SameLife, HeldByAny
  <1>6. StoppedOk'
    BY <1>0, <1>1, <1>2
    DEF StoppedOk, HandlerOk, ScanPlaces, SwapPlaces, RevealPlaces, Others, SameLife, HeldByAny
  <1>7. ResolveOk'
    BY <1>0, <1>1, <1>2, ResolveKept DEF HandlerOk, SameHandler, Others, SameLife, HeldByAny
  <1>8. SwapOk'
    <2>1. HeldByAny' = HeldByAny /\ ServersOnlyEnd
      BY <1>1, <1>2 DEF HeldByAny, ServersOnlyEnd, SameLife
    <2>2. CASE at'[h] = "idle"
      <3>1. \A g \in Handlers : swapMu' # g
        BY <1>1, <2>2, NoneIsNobody
      <3> QED BY <1>0, <1>1, <2>1, <2>2, <3>1, SwapKept
    <2>3. CASE at'[h] # "idle"
      <3>1. \A g \in Handlers : swapMu' = g => g = h
        BY <1>1, <2>3
      <3> QED BY <1>1, <2>1, <2>3, <3>1 DEF SwapOk, ScanPlaces
    <2> QED BY <2>2, <2>3
  <1>9. PointerOk'
    <2>1. HeldByAny' = HeldByAny
      BY <1>1 DEF HeldByAny
    <2> QED BY <1>0, <1>1, <2>1 DEF PointerOk, Others
  <1>10. RealIsOfTheSession'
    BY <1>0, <1>1, <1>2, RealKept DEF SameLife, Others
  <1>11. NoStrayServer'
    BY <1>0, <1>1, <1>2, NoStrayKept
    DEF ServersOnlyEnd, SameHandler, HandlerOk, Others, SameLife, HeldByAny
  <1> QED BY <1>3, <1>4, <1>5, <1>6, <1>7, <1>8, <1>9, <1>10, <1>11 DEF IInv

LEMMA RevealSwapKeeps ==
  ASSUME IInv, NEW h \in Handlers, RevealSwap(h)
  PROVE  IInv'
  <1>0. /\ TypeOK /\ \A g \in Handlers : HandlerOk(g)
        /\ OneHandlerPerRun /\ StoppedOk /\ ResolveOk /\ SwapOk /\ PointerOk
        /\ RealIsOfTheSession /\ NoStrayServer
    BY DEF IInv
  <1>1. /\ mem[h].mode = "swap" /\ swapMu = None /\ at[h] = "reveal"
        /\ Others(h) /\ AtTyped
        /\ crossed' = (crossed \/ \E g \in Handlers : at[g] = "unmount await")
        /\ UNCHANGED <<rest, disk, sessionVars, runVars>>
        /\ \/ ~registered /\ at'[h] = "idle" /\ mem'[h] = Blank /\ UNCHANGED <<swapMu, serveVars>>
           \/ /\ registered /\ HeldByOther(mem[h].proc)
              /\ at'[h] = "register" /\ mem'[h] = mem[h] /\ swapMu' = h /\ UNCHANGED serveVars
           \/ /\ registered /\ ~HeldByOther(mem[h].proc)
              /\ Stops(h, "await", "swap file") /\ SameRun(h) /\ swapMu' = h
    <2>1. /\ mem[h].mode = "swap" /\ swapMu = None /\ at[h] = "reveal" /\ mem[h] \in Memory
          /\ crossed' = (crossed \/ \E g \in Handlers : at[g] = "unmount await")
          /\ UNCHANGED <<rest, disk, sessionVars, runVars>>
      BY <1>0 DEF TypeOK, RevealSwap, StopServing, Go
    <2>2. CASE ~registered
      <3>1. Go(h, "reveal", "idle") /\ Remember(h, Blank) /\ UNCHANGED <<swapMu, serveVars>>
        BY <2>2 DEF RevealSwap
      <3> QED BY <1>0, <2>1, <2>2, <3>1, BlankTyped
      DEF TypeOK, Go, Remember, Others, AtTyped, Places
    <2>3. CASE registered /\ HeldByOther(mem[h].proc)
      <3>1. Go(h, "reveal", "register") /\ swapMu' = h /\ UNCHANGED <<mem, serveVars>>
        BY <2>3 DEF RevealSwap
      <3> QED BY <1>0, <2>1, <2>3, <3>1 DEF TypeOK, Go, Others, AtTyped, Places
    <2>4. CASE registered /\ ~HeldByOther(mem[h].proc)
      <3>1. StopServing(h, "reveal", "await", "swap file", mem[h]) /\ swapMu' = h
        BY <2>4 DEF RevealSwap
      <3>2. "await" \in Places /\ "swap file" \in Places
        BY DEF Places
      <3>3. Stops(h, "await", "swap file") /\ SameRun(h) /\ Others(h) /\ AtTyped
        <4>1. TypeOK
          BY <1>0
        <4>2. Stops(h, "await", "swap file") /\ Others(h) /\ AtTyped
          BY <2>1, <3>1, <3>2, <4>1, StopServingStops
        <4>3. mem'[h].proc = mem[h].proc
          BY ZenonT(60), <2>1, <3>1, <3>2, <4>1, StopServingStops
        <4>4. mem'[h].mode = mem[h].mode
          BY ZenonT(60), <2>1, <3>1, <3>2, <4>1, StopServingStops
        <4> QED BY <4>2, <4>3, <4>4 DEF SameRun
      <3> QED BY <2>1, <2>4, <3>1, <3>3
    <2> QED BY <2>2, <2>3, <2>4
  <1>2. /\ servers' \in [Servers -> ServedMount] /\ served' \in {served, None}
        /\ \A i \in Servers : /\ servers'[i].at = servers[i].at
                              /\ servers'[i].real = servers[i].real /\ servers'[i].gen = servers[i].gen
        /\ \A i \in Servers : SameServer(i) \/ i # served'
    BY <1>0, <1>1, NoneIsNobody DEF TypeOK, Stops, SameServer
  <1>3. TypeOK'
    BY <1>0, <1>1, <1>2, BlankTyped DEF TypeOK, AtTyped, Others, Contents, SameServer, SameRun
  <1>4. (\A g \in Handlers : HandlerOk(g))'
    <2>1. \A g \in Handlers \ {h} : swapMu' = g <=> swapMu = g
      BY <1>1, NoneIsNobody
    <2>2. HandlerOk(h)
      BY <1>0
    <2>3. CASE swapMu' = swapMu
      <3>1. at'[h] = "idle" /\ mem'[h] = Blank
        BY <1>1, <2>3, NoneIsNobody
      <3> QED BY <1>0, <1>1, <2>1, <2>3, <3>1, BlankTyped, NoneIsNobody, HandlersKept
          DEF HandlerOk, ScanPlaces, SwapPlaces, RevealPlaces
    <2>4. CASE at'[h] = "register" /\ mem'[h] = mem[h] /\ swapMu' = h
      <3>1. HandlerOk(h)'
        BY <1>1, <2>2, <2>4 DEF HandlerOk, ScanPlaces, SwapPlaces, RevealPlaces
      <3> QED BY <1>0, <1>1, <2>1, <3>1, HandlersKept
    <2>5. CASE Stops(h, "await", "swap file") /\ SameRun(h) /\ swapMu' = h
      <3>1. HandlerOk(h)'
        BY <1>1, <2>2, <2>5 DEF Stops, SameRun, HandlerOk, ScanPlaces, SwapPlaces, RevealPlaces
      <3> QED BY <1>0, <1>1, <2>1, <3>1, HandlersKept
    <2> QED BY <1>1, <2>3, <2>4, <2>5
  <1>5. OneHandlerPerRun'
    BY <1>0, <1>1, <1>2, BlankTyped, OneRunKept
    DEF RunsOnlyEnd, SwapPlaces, RevealPlaces, Others, SameServer, SameRun
  <1>6. StoppedOk'
    <2>1. up' /\ up
      BY <1>0, <1>1 DEF StoppedOk
    <2>2. \A i \in Servers : servers'[i].cancelled => i # served'
      BY <1>0, <1>2, NoneIsNobody DEF StoppedOk, SameServer
    <2> QED BY <2>1, <2>2 DEF StoppedOk
  <1>7. ResolveOk'
    <2>1. \A g \in Handlers : at'[g] \in {"decrypt", "install"} => SameHandler(g)
      BY <1>1 DEF Stops, Others, SameHandler
    <2>2. served' = served \/ \A g \in Handlers : at[g] \in {"decrypt", "install"} => mem[g].sm # served'
      BY ZenonT(60), <1>0, <1>2, NoneIsNobody DEF HandlerOk
    <2>3. (\E g \in Handlers : at[g] = "stop") => \E g \in Handlers : at'[g] = "stop"
      BY <1>1 DEF Others
    <2> QED BY <1>0, <1>1, <1>2, <2>1, <2>2, <2>3, ResolveKept
  <1>8. SwapOk'
    <2>1. HeldByAny' = HeldByAny /\ ServersOnlyEnd /\ disk' = disk
      BY <1>1, <1>2 DEF HeldByAny, ServersOnlyEnd
    <2>2. CASE swapMu' = swapMu
      <3>1. \A g \in Handlers : swapMu' # g
        BY <1>1, <2>2, NoneIsNobody
      <3> QED BY <1>0, <1>1, <1>2, <2>1, <3>1, SwapKept
    <2>3. CASE swapMu' = h
      <3>1. \A g \in Handlers : swapMu' = g => g = h
        BY <2>3
      <3>2. CASE HeldByOther(mem[h].proc)
        <4>1. HeldByAny /\ at'[h] = "register"
          BY <1>1, <2>3, <3>2 DEF HeldByOther, HeldByAny
        <4> QED BY <1>0, <1>1, <2>1, <3>1, <4>1
        DEF SwapOk, NothingServes, ServersOnlyEnd, ScanPlaces
      <3>3. CASE ~HeldByOther(mem[h].proc)
        <4>1. runs[mem[h].proc] = None
          BY <1>0, <1>1 DEF OneHandlerPerRun, RevealPlaces
        <4>2. ~HeldByAny
          BY <3>3, <4>1, NoneIsNobody DEF HeldByAny, HeldByOther, Modes
        <4>3. Stops(h, "await", "swap file")
          BY <1>1, <2>3, <3>3, NoneIsNobody
        <4>4. ASSUME ~crossed', NEW i \in Servers, servers[i].at # "done" PROVE i = served
          BY ZenonT(60), <1>0, <1>1, <4>4, NoneIsNobody DEF NoStrayServer, HandlerOk
        <4>5. ~crossed' => /\ at'[h] = "swap file" => NothingServes'
                           /\ at'[h] = "await" =>
                                served' = None /\ \A i \in Servers : servers'[i].at # "done" => i = mem'[h].sm
          BY <1>2, <4>3, <4>4, NoneIsNobody DEF Stops, NothingServes
        <4> QED BY <2>1, <3>1, <4>2, <4>3, <4>5 DEF SwapOk, Stops
      <3> QED BY <3>2, <3>3
    <2> QED BY <1>1, <2>2, <2>3
  <1>9. PointerOk'
    BY <1>0, <1>1, <1>2, BlankTyped, PointerKept DEF HeldByAny, Others, SameServer, SameRun
  <1>10. RealIsOfTheSession'
    BY <1>0, <1>1, <1>2, BlankTyped, RealKept DEF Others, SameServer, SameRun
  <1>11. NoStrayServer'
    <2>1. CASE Stops(h, "await", "swap file")
      BY <1>0, <1>1, <2>1, StopsNoStray
    <2>2. CASE UNCHANGED serveVars
      BY <1>0, <1>1, <2>2, NoStrayKept DEF ServersOnlyEnd, SameHandler, Others
    <2> QED BY <1>1, <2>1, <2>2

  <1> QED BY <1>3, <1>4, <1>5, <1>6, <1>7, <1>8, <1>9, <1>10, <1>11 DEF IInv

-----------------------------------------------------------------------------
(* jit unmount.                                                            *)

LEMMA UnmountKeeps ==
  ASSUME IInv, NEW h \in Handlers, Unmount(h)
  PROVE  IInv'
  <1>0. /\ TypeOK /\ \A g \in Handlers : HandlerOk(g)
        /\ OneHandlerPerRun /\ StoppedOk /\ ResolveOk /\ SwapOk /\ PointerOk
        /\ RealIsOfTheSession /\ NoStrayServer
    BY DEF IInv
  <1>1. /\ registered /\ at[h] = "idle"
        /\ Others(h) /\ AtTyped
        /\ UNCHANGED <<rest, disk, sessionVars, runVars, swapMu, crossed>>
        /\ mem'[h].proc = None
        /\ \/ up /\ Stops(h, "unmount await", "unmount write")
           \/ ~up /\ at'[h] = "unmount write" /\ mem'[h] = Blank /\ UNCHANGED serveVars
    <2>1. registered /\ UNCHANGED <<rest, disk, sessionVars, runVars, swapMu, crossed>>
      BY DEF Unmount
    <2>2. CASE ~up
      <3>1. Start(h, "unmount write", Blank) /\ UNCHANGED serveVars
        BY <2>2 DEF Unmount
      <3> QED BY <1>0, <2>1, <2>2, <3>1, BlankTyped
      DEF TypeOK, Start, Go, Others, AtTyped, Places
    <2>3. CASE up
      <3>1. StopServing(h, "idle", "unmount await", "unmount write", Blank)
        BY <2>3 DEF Unmount
      <3>2. "unmount await" \in Places /\ "unmount write" \in Places
        BY DEF Places
      <3>3. TypeOK
        BY <1>0
      <3>4. /\ at[h] = "idle" /\ Stops(h, "unmount await", "unmount write")
            /\ mem'[h].proc = None /\ Others(h) /\ AtTyped
        <4>1. PICK m \in Memory : m = Blank
          BY BlankTyped
        <4>2. StopServing(h, "idle", "unmount await", "unmount write", m)
          BY <3>1, <4>1
        <4>3. Stops(h, "unmount await", "unmount write") /\ Others(h) /\ AtTyped
          BY <3>2, <3>3, <4>2, StopServingStops
        <4>4. at[h] = "idle" /\ mem'[h].proc = m.proc
          BY <3>2, <3>3, <4>2, StopServingStops
        <4> QED BY <4>1, <4>3, <4>4, BlankTyped
      <3> QED BY <2>1, <2>3, <3>4
    <2> QED BY <2>2, <2>3
  <1>2. /\ servers' \in [Servers -> ServedMount] /\ served' \in {served, None}
        /\ \A i \in Servers : /\ servers'[i].at = servers[i].at
                              /\ servers'[i].real = servers[i].real /\ servers'[i].gen = servers[i].gen
        /\ \A i \in Servers : SameServer(i) \/ i # served'
    BY <1>0, <1>1, NoneIsNobody DEF TypeOK, Stops, SameServer
  <1>3. TypeOK'
    BY <1>0, <1>1, <1>2, BlankTyped DEF TypeOK, AtTyped, Others, Contents, SameServer
  <1>4. (\A g \in Handlers : HandlerOk(g))'
    <2>1. \A g \in Handlers \ {h} : swapMu' = g <=> swapMu = g
      BY <1>1
    <2>2. swapMu # h
      BY <1>0, <1>1 DEF HandlerOk, ScanPlaces, SwapPlaces
    <2>3. CASE Stops(h, "unmount await", "unmount write")
      <3>1. HandlerOk(h)'
        BY <1>1, <2>2, <2>3 DEF Stops, HandlerOk, ScanPlaces, SwapPlaces, RevealPlaces
      <3> QED BY <1>0, <1>1, <2>1, <3>1, HandlersKept
    <2>4. CASE at'[h] = "unmount write" /\ mem'[h] = Blank
      <3>1. HandlerOk(h)'
        BY <1>1, <2>2, <2>4, BlankTyped DEF HandlerOk, ScanPlaces, SwapPlaces, RevealPlaces
      <3> QED BY <1>0, <1>1, <2>1, <3>1, HandlersKept
    <2> QED BY <1>1, <2>3, <2>4
  <1>5. OneHandlerPerRun'
    <2>1. at'[h] \notin RevealPlaces
      BY <1>1 DEF Stops, RevealPlaces, SwapPlaces
    <2> QED BY <1>0, <1>1, <2>1, OneRunKept DEF RunsOnlyEnd, Others
  <1>6. StoppedOk'
    <2>1. \A i \in Servers : servers'[i].cancelled => i # served'
      BY <1>0, <1>2, NoneIsNobody DEF StoppedOk, SameServer
    <2>2. CASE up
      BY <1>1, <2>1, <2>2 DEF StoppedOk
    <2>3. CASE ~up
      <3>1. at'[h] = "unmount write" /\ UNCHANGED serveVars
        BY <1>1, <2>3
      <3> QED BY <1>0, <1>1, <2>1, <3>1 DEF StoppedOk, Others
    <2> QED BY <2>2, <2>3
  <1>7. ResolveOk'
    <2>1. \A g \in Handlers : at'[g] \in {"decrypt", "install"} => SameHandler(g)
      BY <1>1 DEF Stops, Others, SameHandler
    <2>2. served' = served \/ \A g \in Handlers : at[g] \in {"decrypt", "install"} => mem[g].sm # served'
      BY ZenonT(60), <1>0, <1>2, NoneIsNobody DEF HandlerOk
    <2>3. (\E g \in Handlers : at[g] = "stop") => \E g \in Handlers : at'[g] = "stop"
      BY <1>1 DEF Others
    <2> QED BY <1>0, <1>1, <1>2, <2>1, <2>2, <2>3, ResolveKept
  <1>8. SwapOk'
    BY <1>0, <1>1, <1>2, BlankTyped, SwapKept
    DEF ServersOnlyEnd, SameHandler, HeldByAny, HandlerOk, ScanPlaces, SwapPlaces, RevealPlaces,
        Others, SameServer
  <1>9. PointerOk'
    BY <1>0, <1>1, <1>2, BlankTyped, PointerKept DEF HeldByAny, Others, SameServer
  <1>10. RealIsOfTheSession'
    BY <1>0, <1>1, <1>2, BlankTyped, RealKept DEF Others, SameServer
  <1>11. NoStrayServer'
    <2>1. CASE Stops(h, "unmount await", "unmount write")
      BY <1>0, <1>1, <2>1, StopsNoStray
    <2>2. CASE UNCHANGED serveVars
      BY <1>0, <1>1, <2>2, NoStrayKept DEF ServersOnlyEnd, SameHandler, Others
    <2> QED BY <1>1, <2>1, <2>2

  <1> QED BY <1>3, <1>4, <1>5, <1>6, <1>7, <1>8, <1>9, <1>10, <1>11 DEF IInv

LEMMA UnmountAwaitKeeps ==
  ASSUME IInv, NEW h \in Handlers, UnmountAwait(h)
  PROVE  IInv'
  <1>0. /\ TypeOK /\ \A g \in Handlers : HandlerOk(g)
        /\ OneHandlerPerRun /\ StoppedOk /\ ResolveOk /\ SwapOk /\ PointerOk
        /\ RealIsOfTheSession /\ NoStrayServer
    BY DEF IInv
  <1>1. /\ servers[mem[h].sm].at = "done" /\ mem[h].sm \in Servers
        /\ at[h] = "unmount await" /\ at'[h] = "unmount write"
        /\ mem'[h] \in Memory /\ SameRun(h) /\ mem'[h].sm = None
        /\ Others(h) /\ AtTyped
        /\ UNCHANGED <<rest, disk, sessionVars, serveVars, runVars, swapMu, crossed>>
    BY <1>0, AwaitedForgets, "unmount write" \in Places DEF UnmountAwait, Places
  <1>2. TypeOK'
    BY <1>0, <1>1 DEF TypeOK, AtTyped, Others, Contents, SameRun
  <1>3. (\A g \in Handlers : HandlerOk(g))'
    <2>1. HandlerOk(h)'
      BY <1>0, <1>1 DEF HandlerOk, ScanPlaces, SwapPlaces, RevealPlaces, SameRun
    <2>2. \A g \in Handlers \ {h} : swapMu' = g <=> swapMu = g
      BY <1>0, <1>1
    <2> QED BY <1>0, <1>1, <2>1, <2>2, HandlersKept
  <1>4. OneHandlerPerRun'
    BY <1>0, <1>1, OneRunKept DEF RunsOnlyEnd, SwapPlaces, RevealPlaces, Others, SameRun
  <1>5. StoppedOk'
    BY <1>0, <1>1
    DEF StoppedOk, HandlerOk, ScanPlaces, SwapPlaces, RevealPlaces, Others, SameRun
  <1>6. ResolveOk'
    BY <1>0, <1>1, ResolveKept DEF HandlerOk, SameHandler, Others, SameRun
  <1>7. SwapOk'
    BY <1>0, <1>1, SwapKept
    DEF ServersOnlyEnd, SameHandler, HeldByAny, HandlerOk, ScanPlaces, SwapPlaces, RevealPlaces,
        Others, SameRun
  <1>8. PointerOk'
    BY <1>0, <1>1, PointerKept DEF HeldByAny, Others, SameRun
  <1>9. RealIsOfTheSession'
    BY <1>0, <1>1, RealKept DEF Others, SameRun
  <1>10. NoStrayServer'
    BY <1>0, <1>1, NoStrayKept DEF ServersOnlyEnd, SameHandler, HandlerOk, Others, SameRun
  <1> QED BY <1>2, <1>3, <1>4, <1>5, <1>6, <1>7, <1>8, <1>9, <1>10 DEF IInv

LEMMA UnmountRefusedKeeps ==
  ASSUME IInv, NEW h \in Handlers, UnmountRefused(h)
  PROVE  IInv'
  <1>0. /\ TypeOK /\ \A g \in Handlers : HandlerOk(g)
        /\ OneHandlerPerRun /\ StoppedOk /\ ResolveOk /\ SwapOk /\ PointerOk
        /\ RealIsOfTheSession /\ NoStrayServer
    BY DEF IInv
  <1>1. /\ at[h] = "unmount write" /\ at'[h] = "idle" /\ mem'[h] = Blank
        /\ Others(h) /\ AtTyped
        /\ UNCHANGED <<rest, disk, sessionVars, serveVars, runVars, swapMu, crossed>>
    BY <1>0, BlankTyped DEF TypeOK, UnmountRefused, Go, Remember, Others, AtTyped, Places
  <1>2. TypeOK'
    BY <1>0, <1>1, BlankTyped DEF TypeOK, AtTyped, Others, Contents
  <1>3. (\A g \in Handlers : HandlerOk(g))'
    <2>1. HandlerOk(h)'
      BY <1>0, <1>1, BlankTyped DEF HandlerOk, ScanPlaces, SwapPlaces, RevealPlaces
    <2>2. \A g \in Handlers \ {h} : swapMu' = g <=> swapMu = g
      BY <1>0, <1>1
    <2> QED BY <1>0, <1>1, <2>1, <2>2, HandlersKept
  <1>4. OneHandlerPerRun'
    BY <1>0, <1>1, BlankTyped, OneRunKept DEF RunsOnlyEnd, SwapPlaces, RevealPlaces, Others
  <1>5. StoppedOk'
    BY <1>0, <1>1, BlankTyped
    DEF StoppedOk, HandlerOk, ScanPlaces, SwapPlaces, RevealPlaces, Others
  <1>6. ResolveOk'
    BY <1>0, <1>1, BlankTyped, ResolveKept DEF HandlerOk, SameHandler, Others
  <1>7. SwapOk'
    BY <1>0, <1>1, BlankTyped, SwapKept
    DEF ServersOnlyEnd, SameHandler, HeldByAny, HandlerOk, ScanPlaces, SwapPlaces, RevealPlaces,
        Others
  <1>8. PointerOk'
    BY <1>0, <1>1, BlankTyped, PointerKept DEF HeldByAny, Others
  <1>9. RealIsOfTheSession'
    BY <1>0, <1>1, BlankTyped, RealKept DEF Others
  <1>10. NoStrayServer'
    BY <1>0, <1>1, BlankTyped, NoStrayKept DEF ServersOnlyEnd, SameHandler, HandlerOk, Others
  <1> QED BY <1>2, <1>3, <1>4, <1>5, <1>6, <1>7, <1>8, <1>9, <1>10 DEF IInv

LEMMA UnmountWriteKeeps ==
  ASSUME IInv, NEW h \in Handlers, UnmountWrite(h)
  PROVE  IInv'
  <1>0. /\ TypeOK /\ \A g \in Handlers : HandlerOk(g)
        /\ OneHandlerPerRun /\ StoppedOk /\ ResolveOk /\ SwapOk /\ PointerOk
        /\ RealIsOfTheSession /\ NoStrayServer
    BY DEF IInv
  <1>1. /\ at[h] = "unmount write" /\ at'[h] = "unmount forget" /\ mem'[h] = mem[h] /\ disk' = "plain"
        /\ Others(h) /\ AtTyped
        /\ UNCHANGED <<rest, sessionVars, served, runVars, swapMu, crossed>>
    BY <1>0 DEF TypeOK, UnmountWrite, Place, Go, Others, AtTyped, Places
  <1>2. servers' \in [Servers -> ServedMount] /\ \A i \in Servers : SameLife(servers'[i], servers[i])
    BY <1>0, OffPathOrphans DEF UnmountWrite, Place, TypeOK, SameLife
  <1>3. TypeOK'
    BY <1>0, <1>1, <1>2 DEF TypeOK, AtTyped, Others, Contents, SameLife
  <1>4. (\A g \in Handlers : HandlerOk(g))'
    <2>1. HandlerOk(h)'
      BY <1>0, <1>1, <1>2 DEF HandlerOk, ScanPlaces, SwapPlaces, RevealPlaces
    <2>2. \A g \in Handlers \ {h} : swapMu' = g <=> swapMu = g
      BY <1>0, <1>1, <1>2
    <2> QED BY <1>0, <1>1, <2>1, <2>2, HandlersKept
  <1>5. OneHandlerPerRun'
    BY <1>0, <1>1, <1>2, OneRunKept DEF RunsOnlyEnd, SwapPlaces, RevealPlaces, Others, SameLife
  <1>6. StoppedOk'
    BY <1>0, <1>1, <1>2
    DEF StoppedOk, HandlerOk, ScanPlaces, SwapPlaces, RevealPlaces, Others, SameLife
  <1>7. ResolveOk'
    BY <1>0, <1>1, <1>2, ResolveKept DEF HandlerOk, SameHandler, Others, SameLife
  <1>8. SwapOk'
    BY <1>0, <1>1, <1>2, SwapKept
    DEF ServersOnlyEnd, SameHandler, HeldByAny, HandlerOk, ScanPlaces, SwapPlaces, RevealPlaces,
        Others, SameLife
  <1>9. PointerOk'
    BY <1>0, <1>1, <1>2, PointerKept DEF HeldByAny, Others, SameLife
  <1>10. RealIsOfTheSession'
    BY <1>0, <1>1, <1>2, RealKept DEF SameLife, Others
  <1>11. NoStrayServer'
    BY <1>0, <1>1, <1>2, NoStrayKept
    DEF ServersOnlyEnd, SameHandler, HandlerOk, Others, SameLife
  <1> QED BY <1>3, <1>4, <1>5, <1>6, <1>7, <1>8, <1>9, <1>10, <1>11 DEF IInv

LEMMA UnmountForgetKeeps ==
  ASSUME IInv, NEW h \in Handlers, UnmountForget(h)
  PROVE  IInv'
  <1>0. /\ TypeOK /\ \A g \in Handlers : HandlerOk(g)
        /\ OneHandlerPerRun /\ StoppedOk /\ ResolveOk /\ SwapOk /\ PointerOk
        /\ RealIsOfTheSession /\ NoStrayServer
    BY DEF IInv
  <1>1. /\ at[h] = "unmount forget" /\ at'[h] = "idle" /\ mem'[h] = Blank /\ ~registered' /\ registered' = FALSE
        /\ Others(h) /\ AtTyped
        /\ UNCHANGED <<up, crashes, disk, sessionVars, serveVars, runVars, swapMu, crossed>>
    BY <1>0, BlankTyped DEF TypeOK, UnmountForget, Go, Remember, Others, AtTyped, Places
  <1>2. TypeOK'
    BY <1>0, <1>1, BlankTyped DEF TypeOK, AtTyped, Others, Contents
  <1>3. (\A g \in Handlers : HandlerOk(g))'
    <2>1. HandlerOk(h)'
      BY <1>0, <1>1, BlankTyped DEF HandlerOk, ScanPlaces, SwapPlaces, RevealPlaces
    <2>2. \A g \in Handlers \ {h} : swapMu' = g <=> swapMu = g
      BY <1>0, <1>1
    <2> QED BY <1>0, <1>1, <2>1, <2>2, HandlersKept
  <1>4. OneHandlerPerRun'
    BY <1>0, <1>1, BlankTyped, OneRunKept DEF RunsOnlyEnd, SwapPlaces, RevealPlaces, Others
  <1>5. StoppedOk'
    BY <1>0, <1>1, BlankTyped
    DEF StoppedOk, HandlerOk, ScanPlaces, SwapPlaces, RevealPlaces, Others
  <1>6. ResolveOk'
    BY <1>0, <1>1, BlankTyped, ResolveKept DEF HandlerOk, SameHandler, Others
  <1>7. SwapOk'
    BY <1>0, <1>1, BlankTyped, SwapKept
    DEF ServersOnlyEnd, SameHandler, HeldByAny, HandlerOk, ScanPlaces, SwapPlaces, RevealPlaces,
        Others
  <1>8. PointerOk'
    BY <1>0, <1>1, BlankTyped, PointerKept DEF HeldByAny, Others
  <1>9. RealIsOfTheSession'
    BY <1>0, <1>1, BlankTyped, RealKept DEF Others
  <1>10. NoStrayServer'
    BY <1>0, <1>1, BlankTyped, NoStrayKept DEF ServersOnlyEnd, SameHandler, HandlerOk, Others
  <1> QED BY <1>2, <1>3, <1>4, <1>5, <1>6, <1>7, <1>8, <1>9, <1>10 DEF IInv

-----------------------------------------------------------------------------
(* Processes and the Serve loop.                                           *)

LEMMA ProcExitKeeps ==
  ASSUME IInv, NEW p \in Procs, ProcExit(p)
  PROVE  IInv'
  <1>0. /\ TypeOK /\ \A g \in Handlers : HandlerOk(g)
        /\ OneHandlerPerRun /\ StoppedOk /\ ResolveOk /\ SwapOk /\ PointerOk
        /\ RealIsOfTheSession /\ NoStrayServer
    BY DEF IInv
  <1>1. /\ alive' \subseteq Procs
        /\ UNCHANGED <<rest, disk, sessionVars, serveVars, runs, swapMu, at, mem, crossed>>
    BY <1>0 DEF TypeOK, ProcExit
  <1>2. TypeOK'
    BY <1>0, <1>1 DEF TypeOK, Contents
  <1>3. (\A g \in Handlers : HandlerOk(g))'
    BY <1>0, <1>1 DEF HandlerOk
  <1>4. OneHandlerPerRun'
    BY <1>0, <1>1, OneRunKept DEF RunsOnlyEnd, SwapPlaces, RevealPlaces
  <1>5. StoppedOk'
    BY <1>0, <1>1 DEF StoppedOk, HandlerOk, ScanPlaces, SwapPlaces, RevealPlaces
  <1>6. ResolveOk'
    BY <1>0, <1>1, ResolveKept DEF HandlerOk, SameHandler
  <1>7. SwapOk'
    BY <1>0, <1>1, SwapKept
    DEF ServersOnlyEnd, SameHandler, HeldByAny, HandlerOk, ScanPlaces, SwapPlaces, RevealPlaces
  <1>8. PointerOk'
    BY <1>0, <1>1, PointerKept DEF HeldByAny
  <1>9. RealIsOfTheSession'
    BY <1>0, <1>1, RealKept
  <1>10. NoStrayServer'
    BY <1>0, <1>1, NoStrayKept DEF ServersOnlyEnd, SameHandler, HandlerOk
  <1> QED BY <1>2, <1>3, <1>4, <1>5, <1>6, <1>7, <1>8, <1>9, <1>10 DEF IInv

LEMMA StepsOnKeeps ==
  ASSUME IInv, NEW i \in Servers, StepsOn(i)
  PROVE  IInv'
  <1>0. /\ TypeOK /\ \A g \in Handlers : HandlerOk(g)
        /\ OneHandlerPerRun /\ StoppedOk /\ ResolveOk /\ SwapOk /\ PointerOk
        /\ RealIsOfTheSession /\ NoStrayServer
    BY DEF IInv
  <1>1. /\ disk' \in {disk, "spoiled"}
        /\ UNCHANGED <<rest, sessionVars, served, runVars, swapMu, at, mem, crossed>>
    BY DEF StepsOn
  <1>2. /\ servers' \in [Servers -> ServedMount]
        /\ ServersOnlyEnd /\ \A j \in Servers : servers'[j].cancelled => servers[j].cancelled
        /\ served \in Servers => servers'[served].at # "done" /\ GoesOn(servers'[served], servers[served])
    BY <1>0, EndedTyped DEF StepsOn, ServersOnlyEnd, SameServer, GoesOn, StoppedOk, TypeOK
  <1>3. TypeOK'
    BY <1>0, <1>1, <1>2, EndedTyped DEF TypeOK, Contents
  <1>4. (\A g \in Handlers : HandlerOk(g))'
    BY <1>0, <1>1, <1>2 DEF HandlerOk
  <1>5. OneHandlerPerRun'
    BY <1>0, <1>1, <1>2, EndedTyped, OneRunKept DEF RunsOnlyEnd, SwapPlaces, RevealPlaces
  <1>6. StoppedOk'
    <2>1. up
      BY <1>0 DEF StepsOn, StoppedOk
    <2> QED BY <1>0, <1>1, <1>2, <2>1 DEF StoppedOk
  <1>7. ResolveOk'
    <2>1. served \in Servers => servers'[served].gen = servers[served].gen
      BY <1>2 DEF GoesOn
    <2> QED BY <1>0, <1>1, <2>1, ResolveKept DEF SameHandler
  <1>8. SwapOk'
    BY <1>0, <1>1, <1>2, EndedTyped, SwapKept
    DEF ServersOnlyEnd, SameHandler, HeldByAny, HandlerOk, ScanPlaces, SwapPlaces, RevealPlaces
  <1>9. PointerOk'
    BY <1>0, <1>1, <1>2, EndedTyped, PointerKept DEF HeldByAny
  <1>10. RealIsOfTheSession'
    <2>1. served \in Servers => servers'[served].real = servers[served].real
      BY <1>2 DEF GoesOn
    <2> QED BY <1>0, <1>1, <2>1, RealKept
  <1>11. NoStrayServer'
    BY <1>0, <1>1, <1>2, EndedTyped, NoStrayKept DEF ServersOnlyEnd, SameHandler, HandlerOk
  <1> QED BY <1>3, <1>4, <1>5, <1>6, <1>7, <1>8, <1>9, <1>10, <1>11 DEF IInv

LEMMA ServeLoopKeeps ==
  ASSUME IInv, NEW i \in Servers, ServeLoop(i)
  PROVE  IInv'
  <1>1. TypeOK /\ servers[i] \in ServedMount /\ servers[i].at = "loop"
    BY DEF IInv, TypeOK, ServeLoop, Step
  <1>2. UNCHANGED <<rest, disk, sessionVars, served, runVars, swapMu, at, mem, crossed>>
    BY DEF ServeLoop
  <1>3. CASE servers[i].cancelled
    <2>1. Step(i, "loop", Ended)
      BY <1>3 DEF ServeLoop
    <2>2. StepsOn(i)
      BY <1>1, <1>2, <1>3, <2>1, EndsStep
    <2> QED BY <2>2, StepsOnKeeps
  <1>4. CASE ~servers[i].cancelled
    <2> DEFINE s == IF disk = "pipe" THEN [servers[i] EXCEPT !.at = "waiting", !.fd = "pipe", !.onPath = TRUE]
                    ELSE [servers[i] EXCEPT !.at = "serving", !.fd = "file", !.onPath = TRUE]
    <2>1. s \in ServedMount /\ s.at # "done" /\ GoesOn(s, servers[i])
      <3>1. CASE disk = "pipe"
        BY <1>1, <3>1 DEF ServedMount, ServePlaces, GoesOn
      <3>2. CASE disk # "pipe"
        BY <1>1, <3>2 DEF ServedMount, ServePlaces, GoesOn
      <3> QED BY <3>1, <3>2
    <2>2. servers' = [servers EXCEPT ![i] = s]
      BY <1>4 DEF ServeLoop, Step
    <2> HIDE DEF s
    <2>3. StepsOn(i)
      BY <1>1, <1>2, <2>1, <2>2, GoesOnStep
    <2> QED BY <2>3, StepsOnKeeps
  <1> QED BY <1>3, <1>4

LEMMA ServeCancelledKeeps ==
  ASSUME IInv, NEW i \in Servers, ServeCancelled(i)
  PROVE  IInv'
  <1>1. StepsOn(i)
    BY EndsStep DEF IInv, ServeCancelled
  <1> QED BY <1>1, StepsOnKeeps

LEMMA ServeReaderKeeps ==
  ASSUME IInv, NEW i \in Servers, ServeReader(i)
  PROVE  IInv'
  <1> DEFINE s == [servers[i] EXCEPT !.at = "serving"]
  <1>1. TypeOK /\ servers[i] \in ServedMount
    BY DEF IInv, TypeOK
  <1>2. s \in ServedMount /\ s.at # "done" /\ GoesOn(s, servers[i])
    BY <1>1 DEF ServedMount, ServePlaces, GoesOn
  <1>3. /\ servers[i].at = "waiting" /\ servers' = [servers EXCEPT ![i] = s] /\ disk' \in {disk, "spoiled"}
        /\ UNCHANGED <<rest, sessionVars, served, runVars, swapMu, at, mem, crossed>>
    BY DEF ServeReader, Step
  <1> HIDE DEF s
  <1>4. StepsOn(i)
    BY <1>1, <1>2, <1>3, GoesOnStep
  <1> QED BY <1>4, StepsOnKeeps

LEMMA ServeWriteKeeps ==
  ASSUME IInv, NEW i \in Servers, ServeWrite(i)
  PROVE  IInv'
  <1> DEFINE s == [servers[i] EXCEPT !.at = "written"]
  <1>1. TypeOK /\ servers[i] \in ServedMount
    BY DEF IInv, TypeOK
  <1>2. s \in ServedMount /\ s.at # "done" /\ GoesOn(s, servers[i])
    BY <1>1 DEF ServedMount, ServePlaces, GoesOn
  <1>3. /\ servers[i].at = "serving" /\ servers' = [servers EXCEPT ![i] = s] /\ disk' \in {disk, "spoiled"}
        /\ UNCHANGED <<rest, sessionVars, served, runVars, swapMu, at, mem, crossed>>
    BY DEF ServeWrite, Step
  <1> HIDE DEF s
  <1>4. StepsOn(i)
    BY <1>1, <1>2, <1>3, GoesOnStep
  <1> QED BY <1>4, StepsOnKeeps

LEMMA ServeReuseKeeps ==
  ASSUME IInv, NEW i \in Servers, ServeReuse(i)
  PROVE  IInv'
  <1> DEFINE s == [servers[i] EXCEPT !.at = "loop", !.fd = "pipe", !.onPath = FALSE]
  <1>1. TypeOK /\ servers[i] \in ServedMount
    BY DEF IInv, TypeOK
  <1>2. s \in ServedMount /\ s.at # "done" /\ GoesOn(s, servers[i])
    BY <1>1 DEF ServedMount, ServePlaces, GoesOn
  <1>3. /\ servers[i].at = "written" /\ servers' = [servers EXCEPT ![i] = s] /\ disk' \in {disk, "spoiled"}
        /\ UNCHANGED <<rest, sessionVars, served, runVars, swapMu, at, mem, crossed>>
    BY DEF ServeReuse, Step
  <1> HIDE DEF s
  <1>4. StepsOn(i)
    BY <1>1, <1>2, <1>3, GoesOnStep
  <1> QED BY <1>4, StepsOnKeeps

LEMMA ServeIsolateKeeps ==
  ASSUME IInv, NEW i \in Servers, ServeIsolate(i)
  PROVE  IInv'
  <1>0. /\ TypeOK /\ \A g \in Handlers : HandlerOk(g)
        /\ OneHandlerPerRun /\ StoppedOk /\ ResolveOk /\ SwapOk /\ PointerOk
        /\ RealIsOfTheSession /\ NoStrayServer
    BY DEF IInv
  <1>1. /\ disk' = "pipe"
        /\ UNCHANGED <<rest, sessionVars, served, runVars, swapMu, at, mem, crossed>>
    BY DEF ServeIsolate
  <1>2. /\ servers[i].at = "written" /\ servers' \in [Servers -> ServedMount]
        /\ \A j \in Servers : GoesOn(servers'[j], servers[j]) /\ (servers'[j].at = "done" <=> servers[j].at = "done")
    <2> DEFINE f == OffPath(servers)
               s == [f[i] EXCEPT !.at = "loop", !.fd = "pipe"]
    <2>1. f \in [Servers -> ServedMount] /\ \A j \in Servers : SameLife(f[j], servers[j])
      BY <1>0, OffPathOrphans
    <2>2. s \in ServedMount /\ s.at = "loop" /\ GoesOn(s, f[i])
      <3> HIDE DEF f
      <3> QED BY <2>1 DEF ServedMount, ServePlaces, GoesOn
    <2>3. servers[i].at = "written" /\ servers' = [f EXCEPT ![i] = s]
      BY DEF ServeIsolate
    <2> HIDE DEF f, s
    <2> QED BY <2>1, <2>2, <2>3 DEF SameLife, GoesOn
  <1>3. TypeOK'
    BY <1>0, <1>1, <1>2 DEF TypeOK, Contents
  <1>4. (\A g \in Handlers : HandlerOk(g))'
    BY <1>0, <1>1, <1>2 DEF HandlerOk
  <1>5. OneHandlerPerRun'
    BY <1>0, <1>1, <1>2, OneRunKept DEF RunsOnlyEnd, SwapPlaces, RevealPlaces
  <1>6. StoppedOk'
    <2>1. up
      BY <1>0, <1>2 DEF StoppedOk
    <2> QED BY <1>0, <1>1, <1>2, <2>1 DEF StoppedOk, GoesOn
  <1>7. ResolveOk'
    <2>1. served \in Servers => servers'[served].gen = servers[served].gen
      BY <1>2 DEF GoesOn
    <2> QED BY <1>0, <1>1, <2>1, ResolveKept DEF SameHandler
  <1>8. SwapOk'
    <2>1. ~NothingServes /\ HeldByAny' = HeldByAny
      BY <1>0, <1>1, <1>2 DEF NothingServes, HeldByAny
    <2>2. ASSUME ~crossed
          PROVE  /\ ~HeldByAny
                 /\ \A g \in Handlers : swapMu = g => at[g] \notin {"register", "swap file"}
      BY <1>0, <2>1, <2>2 DEF SwapOk
    <2> QED BY <1>0, <1>1, <1>2, <2>1, <2>2 DEF SwapOk
  <1>9. PointerOk'
    BY <1>0, <1>1, <1>2, PointerKept DEF HeldByAny
  <1>10. RealIsOfTheSession'
    <2>1. served \in Servers => servers'[served].real = servers[served].real
      BY <1>2 DEF GoesOn
    <2> QED BY <1>0, <1>1, <2>1, RealKept
  <1>11. NoStrayServer'
    BY <1>0, <1>1, <1>2, NoStrayKept DEF ServersOnlyEnd, SameHandler, HandlerOk
  <1> QED BY <1>3, <1>4, <1>5, <1>6, <1>7, <1>8, <1>9, <1>10, <1>11 DEF IInv

-----------------------------------------------------------------------------
(* The service dies and is started again.                                  *)

LEMMA CrashKeeps ==
  ASSUME IInv, Crash
  PROVE  IInv'
  <1>0. /\ TypeOK /\ \A g \in Handlers : HandlerOk(g)
        /\ OneHandlerPerRun /\ StoppedOk /\ ResolveOk /\ SwapOk /\ PointerOk
        /\ RealIsOfTheSession /\ NoStrayServer
    BY DEF IInv
  <1>1. /\ up' = FALSE /\ open' = FALSE /\ served' = None /\ swapMu' = None
        /\ servers' \in [Servers -> ServedMount] /\ \A i \in Servers : servers'[i] = Ended
        /\ runs' \in [Procs -> Modes \union {None}] /\ \A p \in Procs : runs'[p] = None
        /\ crashes' \in 0 .. MaxCrashes
        /\ UNCHANGED <<disk, registered, session, alive, crossed>>
    BY <1>0, EndedTyped DEF TypeOK, Crash
  <1>2. /\ AtTyped
        /\ \A g \in Handlers : \/ OfCommand(g) /\ SameHandler(g)
                               \/ at'[g] = "idle" /\ mem'[g] = Blank
    BY <1>0, BlankTyped DEF TypeOK, Crash, AtTyped, SameHandler, Places
  <1>3. \A g \in Handlers : /\ at'[g] \in {"idle", "unmount write", "unmount forget"}
                            /\ mem'[g].sm = None
    BY <1>0, <1>2, BlankTyped DEF OfCommand, SameHandler, HandlerOk
  <1>4. /\ \A g \in Handlers : swapMu' # g
        /\ ~HeldByAny' /\ NothingServes'
    BY <1>1, EndedTyped, NoneIsNobody DEF HeldByAny, NothingServes, Modes
  <1>5. TypeOK'
    BY <1>0, <1>1, <1>2, <1>3, <1>4, BlankTyped, EndedTyped
    DEF TypeOK, AtTyped, Contents, NothingServes, HeldByAny
  <1>6. (\A g \in Handlers : HandlerOk(g))'
    BY <1>3, <1>4 DEF HandlerOk, ScanPlaces, SwapPlaces, RevealPlaces
  <1>7. OneHandlerPerRun'
    BY <1>3 DEF OneHandlerPerRun, RevealPlaces, SwapPlaces
  <1>8. StoppedOk'
    BY <1>1, <1>3, EndedTyped DEF StoppedOk
  <1>9. ResolveOk'
    BY <1>3 DEF ResolveOk
  <1>10. SwapOk'
    BY <1>4 DEF SwapOk
  <1>11. PointerOk'
    BY <1>1 DEF PointerOk
  <1>12. RealIsOfTheSession'
    BY <1>1 DEF RealIsOfTheSession
  <1>13. NoStrayServer'
    BY <1>1, EndedTyped DEF NoStrayServer
  <1> QED BY <1>5, <1>6, <1>7, <1>8, <1>9, <1>10, <1>11, <1>12, <1>13 DEF IInv

LEMMA RestartKeeps ==
  ASSUME IInv, Restart
  PROVE  IInv'
  <1>0. /\ TypeOK /\ \A g \in Handlers : HandlerOk(g)
        /\ OneHandlerPerRun /\ StoppedOk /\ ResolveOk /\ SwapOk /\ PointerOk
        /\ RealIsOfTheSession /\ NoStrayServer
    BY DEF IInv
  <1>1. /\ ~up /\ up' /\ up' = TRUE
        /\ disk' = IF disk = "pointer" /\ registered THEN "pipe" ELSE disk
        /\ UNCHANGED <<registered, crashes, sessionVars, runVars, swapMu, at, mem>>
    BY DEF Restart
  <1>2. /\ \A g \in Handlers : /\ at[g] \in {"idle", "unmount write", "unmount forget"}
                               /\ swapMu # g /\ mem[g].sm = None
        /\ NothingServes /\ served = None /\ ~HeldByAny
    BY <1>0, <1>1, NoneIsNobody DEF StoppedOk, HandlerOk, NothingServes, HeldByAny, Modes
  <1>3. \/ UNCHANGED <<serveVars, crossed>>
        \/ /\ served' \in Servers /\ servers'[served'] = Fresh
           /\ \A j \in Servers \ {served'} : SameServer(j)
           /\ servers' \in [Servers -> ServedMount] /\ crossed' \in BOOLEAN
    BY <1>0, FreshTyped DEF TypeOK, Restart, Fresh, SameServer
  <1>4. TypeOK'
    BY <1>0, <1>1, <1>2, <1>3, FreshTyped
    DEF TypeOK, Contents, SameServer, NothingServes, HeldByAny
  <1>5. (\A g \in Handlers : HandlerOk(g))'
    BY <1>0, <1>1 DEF HandlerOk
  <1>6. OneHandlerPerRun'
    BY <1>0, <1>1 DEF OneHandlerPerRun
  <1>7. StoppedOk'
    BY <1>0, <1>1, <1>3, FreshTyped DEF StoppedOk, SameServer
  <1>8. ResolveOk'
    BY <1>1, <1>2 DEF ResolveOk
  <1>9. SwapOk'
    <2>1. ~HeldByAny' /\ \A g \in Handlers : swapMu' # g
      BY <1>1, <1>2 DEF HeldByAny
    <2> QED BY <2>1 DEF SwapOk
  <1>10. PointerOk'
    BY <1>1 DEF PointerOk
  <1>11. RealIsOfTheSession'
    BY <1>2, <1>3, FreshTyped DEF RealIsOfTheSession
  <1>12. NoStrayServer'
    BY <1>2, <1>3 DEF NoStrayServer, NothingServes, SameServer
  <1> QED BY <1>4, <1>5, <1>6, <1>7, <1>8, <1>9, <1>10, <1>11, <1>12 DEF IInv

-----------------------------------------------------------------------------
(* The invariant holds, and what the runs check follows from it.           *)

LEMMA InitIInv ==
  ASSUME Init
  PROVE  IInv
  <1>1. PICK i \in Servers :
          served = i /\ servers = [j \in Servers |-> IF j = i THEN Fresh ELSE Ended]
    BY DEF Init, Fresh
  <1>2. /\ served \in Servers /\ servers[served] = Fresh /\ servers \in [Servers -> ServedMount]
        /\ \A j \in Servers \ {served} : servers[j] = Ended
    BY <1>1, EndedTyped, FreshTyped
  <1>3. disk = "pipe" /\ ~HeldByAny
    BY NoneIsNobody DEF Init, HeldByAny, Modes
  <1>4. \A h \in Handlers : at[h] = "idle" /\ mem[h] = Blank /\ swapMu # h
    BY DEF Init
  <1>5. \A h \in Handlers : HandlerOk(h)
    BY <1>4, BlankTyped DEF HandlerOk, RevealPlaces, SwapPlaces
  <1>6. TypeOK
    <2>1. /\ at \in [Handlers -> Places] /\ mem \in [Handlers -> Memory]
          /\ runs \in [Procs -> Modes \union {None}]
      BY BlankTyped DEF Init, Places
    <2>2. session \in 0 .. MaxSessions /\ crashes \in 0 .. MaxCrashes
      BY BoundsAreNaturals DEF Init
    <2>3. /\ up \in BOOLEAN /\ registered \in BOOLEAN /\ open \in BOOLEAN /\ crossed \in BOOLEAN
          /\ disk \in Contents /\ alive \subseteq Procs /\ swapMu \in Handlers \union {None}
      BY DEF Init, Contents
    <2> QED BY <1>2, <2>1, <2>2, <2>3, FreshTyped DEF TypeOK
  <1>7. OneHandlerPerRun /\ ResolveOk
    BY <1>4 DEF OneHandlerPerRun, ResolveOk, RevealPlaces, SwapPlaces
  <1>8. StoppedOk
    BY <1>2, EndedTyped, FreshTyped DEF StoppedOk, Init
  <1>9. SwapOk /\ PointerOk
    BY <1>3, <1>4 DEF SwapOk, PointerOk
  <1>10. RealIsOfTheSession /\ NoStrayServer
    BY <1>2, EndedTyped, FreshTyped DEF RealIsOfTheSession, NoStrayServer
  <1> QED BY <1>5, <1>6, <1>7, <1>8, <1>9, <1>10 DEF IInv

LEMMA NothingKeeps ==
  ASSUME IInv, UNCHANGED vars
  PROVE  IInv'
  <1>1. TypeOK' /\ (\A h \in Handlers : HandlerOk(h))'
    BY DEF vars, IInv, TypeOK, HandlerOk
  <1>2. OneHandlerPerRun' /\ StoppedOk' /\ ResolveOk'
    BY DEF vars, IInv, OneHandlerPerRun, StoppedOk, ResolveOk
  <1>3. SwapOk'
    BY DEF vars, IInv, SwapOk, HeldByAny, NothingServes
  <1>4. PointerOk' /\ RealIsOfTheSession' /\ NoStrayServer'
    BY DEF vars, IInv, PointerOk, RealIsOfTheSession, NoStrayServer, HeldByAny
  <1> QED BY <1>1, <1>2, <1>3, <1>4 DEF IInv

LEMMA StepKeeps ==
  ASSUME IInv, [Next]_vars
  PROVE  IInv'
  <1>1. ASSUME NEW h \in Handlers, Scan(h) PROVE IInv'
    BY <1>1, EnsureServingKeeps, ClaimKeeps, CaptureKeeps, DecryptKeeps, DecryptPromptsKeeps,
       DecryptFailsKeeps, InstallKeeps DEF Scan
  <1>2. ASSUME NEW h \in Handlers, Stop(h) PROVE IInv'
    BY <1>2, InvalidateKeeps, ClearRunsKeeps, RestoreKeeps DEF Stop
  <1>3. ASSUME NEW h \in Handlers, RevealForPID(h) PROVE IInv'
    BY <1>3, RevealGrantKeeps, RevealSwapKeeps, AwaitKeeps, SwapInKeeps, SwapInFailsKeeps,
       RegisterKeeps, WatchRunKeeps DEF RevealForPID
  <1>4. ASSUME NEW h \in Handlers, Unmounting(h) PROVE IInv'
    BY <1>4, UnmountAwaitKeeps, UnmountRefusedKeeps, UnmountWriteKeeps, UnmountForgetKeeps
    DEF Unmounting
  <1>5. ASSUME NEW h \in Handlers, Come(h) PROVE IInv'
    BY <1>5, UnlockKeeps, RefreshKeeps, LockKeeps, UnmountKeeps, RunGoneKeeps, RevealKeeps
    DEF Come
  <1>6. ASSUME NEW i \in Servers, Serving(i) PROVE IInv'
    BY <1>6, ServeLoopKeeps, ServeCancelledKeeps, ServeReaderKeeps, ServeWriteKeeps,
       ServeReuseKeeps, ServeIsolateKeeps DEF Serving
  <1>7. CASE UNCHANGED vars
    BY <1>7, NothingKeeps
  <1>8. CASE Next
    BY <1>1, <1>2, <1>3, <1>4, <1>5, <1>6, <1>8, ProcExitKeeps, CrashKeeps, RestartKeeps
    DEF Next, Handle
  <1> QED BY <1>7, <1>8

LEMMA IInvAlways == Spec => []IInv
  BY InitIInv, StepKeeps, PTL DEF Spec

\* The mount, its servers and its handlers keep their types: what is served
\* is a servedMount whose goroutine has not ended.
THEOREM MountsTyped == Spec => []TypeOK
  BY IInvAlways, PTL DEF IInv

\* A resolve that decrypted under one session never arms its content after
\* the lock of that session came to the mount, although it holds no lock
\* while it decrypts (setRealIfGen, invalidateReal).
THEOREM MountsRealIsOfTheSession == Spec => []RealIsOfTheSession
  BY IInvAlways, PTL DEF IInv

\* Whoever takes a mount out of m.served waits for its goroutine, and only
\* one is started in its place, by whatever handler gets there first
\* (stopMount, ensureServing's second check).
THEOREM MountsNoStrayServer == Spec => []NoStrayServer
  BY IInvAlways, PTL DEF IInv

\* While a run has the file swapped nothing puts a pipe there, unless a scan
\* or an unmount crossed the swap, and no pointer file is left when the last
\* such run is gone (revealForPID, restoreSwappedMount, registerRun).
THEOREM MountsSwapFollowsRuns == Spec => []SwapFollowsRuns
  <1>1. IInv => SwapFollowsRuns
    BY DEF IInv, SwapFollowsRuns, SwapOk, PointerOk, SwapIsAFile, PointerIsOwned
  <1> QED BY <1>1, IInvAlways, PTL

\* No handler asks for the swap lock while it holds it: the exit watch of a
\* run is armed, and its restore asked for, after registerRun let it go.
THEOREM MountsNoSelfDeadlock == Spec => []NoSelfDeadlock
  <1>1. IInv => NoSelfDeadlock
    BY DEF IInv, NoSelfDeadlock, HandlerOk, ScanPlaces, SwapPlaces
  <1> QED BY <1>1, IInvAlways, PTL
===============================================================================
