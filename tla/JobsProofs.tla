------------------------------- MODULE JobsProofs -------------------------------
(***************************************************************************)
(* For every set of jobs, requests and values, and every bound of Jobs: a  *)
(* stored job is what its human approved, a caller has one try per         *)
(* approval and a stopped job stays stopped, and the keys in the store are *)
(* those of the jobs.  None of them is inductive: requests go on with      *)
(* copies of jobs that were stopped, replaced or removed meanwhile.  What  *)
(* they need besides is that every copy, wherever a request has it, is of  *)
(* one approval and one name and as it was shown; that an approval not     *)
(* stored yet is nobody else's; and that whoever was caught is about to    *)
(* stop the job, if it is not stopped.                                     *)
(***************************************************************************)
EXTENDS Jobs, TLAPS

\* Where a request has a copy of a stored job, or a job of its own that is
\* not stored yet.
CopyPlaces == {"run enter", "run secret", "run open", "run prompt", "run recheck", "run on", "run refuse",
               "carry open", "carry stop", "carry check", "carry store"}
PendingPlaces == {"allow prompt", "allow save"}

\* The jobs of a name that are stored or that some request has a copy of.
Known(n) ==
    ({jobs[n], disk[n]}
     \union {mem[r].job : r \in {q \in Requests : at[q] \in CopyPlaces /\ mem[q].name = n}}
     \union {mem[r].cands[n] : r \in Requests}) \ {None}

\* It is as its human was shown it, wherever its value is.
AsShown(j) ==
    LET shown == approved[j.approval]
    IN j.code = shown.code /\ j.secret = shown.value /\ j.carried \in {None, shown.value}

\* TypeOK, but for what is said of running.
Typed ==
    /\ folder \in Contents /\ vault \in Optional(Versions) /\ setting \in Optional(Versions)
    /\ jobs \in [Names -> Optional(Job)] /\ disk \in [Names -> Optional(Job)]
    /\ keys \subseteq Approvals /\ undeleted \subseteq Approvals
    /\ at \in [Requests -> Places] /\ mem \in [Requests -> Memory]
    /\ approved \in [Approvals -> Optional([code : Contents, value : Versions])]
    /\ swaps \in [Approvals -> Nat] /\ guesses \in [Approvals -> Nat]
    /\ given \in 0 .. MaxApprovals /\ faults \in 0 .. MaxFaults /\ restarts \in 0 .. MaxRestarts
    /\ changes \in 0 .. MaxChanges

RunningOk == running = {mem[r].name : r \in {q \in Requests : at[q] \in Held}}

\* What a request holds where.
MemOk(r) ==
    LET m == mem[r]
    IN /\ at[r] \in CopyPlaces => m.name \in Names /\ m.job \in Job
       /\ at[r] \in PendingPlaces =>
             m.name \in Names /\ m.job \in Job /\ m.job.stopped = None /\ m.job.carried = None
       /\ at[r] = "run refuse" => m.why \in Reasons
       /\ at[r] \in Carrying => m.value \in Versions
       /\ at[r] \in {"carry check", "carry store"} => m.value = m.job.secret

\* One run of a name at a time, and one carry.
OneAtATime ==
    \A q, r \in Requests :
        \/ q = r
        \/ /\ ~(at[q] \in Held /\ at[r] \in Held /\ mem[q].name = mem[r].name)
           /\ ~(at[q] \in Carrying /\ at[r] \in Carrying)

\* An approval is of one job, of one name, shown before it was stored.
KnownOk ==
    /\ \A n \in Names : \A j \in Known(n) : j.approval <= given /\ AsShown(j)
    /\ \A m, n \in Names : \A i \in Known(m), j \in Known(n) : i.approval = j.approval => m = n

\* One that waits to be stored is nobody else's.
Unused(a) ==
    /\ \A n \in Names : \A j \in Known(n) : j.approval # a
    /\ \A r \in Requests : at[r] = "delete key" => mem[r].key # a
    /\ swaps[a] = 0 /\ guesses[a] = 0

FreshOk == \A a \in Approvals : a > given => Unused(a) /\ a \notin keys

PendingIs(r) ==
    LET j == mem[r].job
    IN /\ j.approval <= given /\ Unused(j.approval)
       /\ at[r] = "allow prompt" => j.approval \notin keys
       /\ at[r] = "allow save" => AsShown(j) /\ (j.approval \in keys <=> j.never)

PendingOk ==
    /\ \A r \in Requests : at[r] \in PendingPlaces => PendingIs(r)
    /\ \A q, r \in Requests :
         at[q] \in PendingPlaces /\ at[r] \in PendingPlaces /\ mem[q].job.approval = mem[r].job.approval
            => q = r

\* A key about to be deleted is of no stored job.
DeletedOk ==
    \A r \in Requests : at[r] = "delete key" =>
        \A n \in Names : /\ jobs[n] # None => jobs[n].approval # mem[r].key
                         /\ disk[n] # None => disk[n].approval # mem[r].key

Caught(n, place) == \E r \in Requests : at[r] = place /\ mem[r].name = n /\ mem[r].job.approval = jobs[n].approval

\* Who was caught is about to stop the job, or has.
TriesOk ==
    /\ OneTryPerApproval
    /\ \A r \in Requests : /\ at[r] = "run on" => swaps[mem[r].job.approval] = 0
                           /\ at[r] = "carry open" => guesses[mem[r].job.approval] = 0
    /\ \A n \in Names : jobs[n] # None /\ jobs[n].stopped = None =>
         /\ swaps[jobs[n].approval] # 0 => Caught(n, "run refuse")
         /\ guesses[jobs[n].approval] # 0 => Caught(n, "carry stop")

IInv ==
    /\ Typed /\ RunningOk
    /\ \A r \in Requests : MemOk(r)
    /\ OneAtATime /\ KnownOk /\ FreshOk /\ PendingOk /\ DeletedOk /\ TriesOk
    /\ KeyOfAJobIsKept /\ NoStrayKey

USE NoneIsNothing, BoundsAreNaturals DEF world, kept, ghosts, bounds

\* What an action does to the requests: r gets to a place with a memory, and
\* the others stay as they are.
Others(r) == \A q \in Requests \ {r} : at'[q] = at[q] /\ mem'[q] = mem[q]
PlacesTyped == at' \in [Requests -> Places] /\ mem' \in [Requests -> Memory]
Moved(r, to, m) == Others(r) /\ PlacesTyped /\ at'[r] = to /\ mem'[r] = m

\* A stored job, and another version of it: a value carried into a setting,
\* or stopped, but never another approval and never started again.
Like(j, i) ==
    /\ j.approval = i.approval /\ j.code = i.code /\ j.secret = i.secret /\ j.never = i.never
    /\ j.carried \in {i.carried, i.secret}
    /\ i.stopped # None => j.stopped # None

StoredTyped == jobs' \in [Names -> Optional(Job)] /\ disk' \in [Names -> Optional(Job)]
JobsLike == \A n \in Names : /\ jobs[n] = None => jobs'[n] = None
                             /\ jobs[n] # None => jobs'[n] # None /\ Like(jobs'[n], jobs[n])
DiskLike == \A n \in Names : disk'[n] # None =>
    \/ disk[n] # None /\ Like(disk'[n], disk[n])
    \/ jobs[n] # None /\ Like(disk'[n], jobs[n])
StoredLike == StoredTyped /\ JobsLike /\ DiskLike

CopiesKnown(r) ==
    /\ at'[r] \in CopyPlaces => mem'[r].job \in Known(mem'[r].name)
    /\ \A n \in Names : mem'[r].cands[n] # None => mem'[r].cands[n] \in Known(n)

KeysSame == keys' = keys /\ undeleted' = undeleted /\ given' = given /\ approved' = approved

\* What a step of a run or of a carry does, seen by the jobs and their keys.
Quiet(r) ==
    /\ Others(r) /\ StoredLike /\ CopiesKnown(r) /\ KeysSame
    /\ at[r] \notin {"allow save", "delete key"}
    /\ at'[r] \notin PendingPlaces /\ at'[r] # "delete key"

CountsSame == swaps' = swaps /\ guesses' = guesses
CountsTyped == swaps' \in [Approvals -> Nat] /\ guesses' \in [Approvals -> Nat]
CountsKnown ==
    \A a \in Approvals : \/ swaps'[a] = swaps[a] /\ guesses'[a] = guesses[a]
                         \/ \E n \in Names : \E j \in Known(n) : j.approval = a

-------------------------------------------------------------------------------
(* What the operators yield                                                *)

LEMMA BlankTyped ==
  /\ Blank \in Memory
  /\ Blank.name = None /\ Blank.key = 0 /\ Blank.why = None
  /\ \A n \in Names : Blank.cands[n] = None
  BY DEF Blank, Memory, NoCands, Optional

LEMMA JobTyped ==
  ASSUME NEW j \in Job
  PROVE  /\ j.approval \in Approvals /\ j.code \in Contents /\ j.secret \in Versions
         /\ j.never \in BOOLEAN /\ j.carried \in Optional(Versions) /\ j.stopped \in Optional(Reasons)
         /\ j # None
  BY DEF Job, Flags

LEMMA MemoryTyped ==
  ASSUME NEW m \in Memory
  PROVE  /\ m.name \in Optional(Names) /\ m.job \in Optional(Job) /\ m.cands \in [Names -> Optional(Job)]
         /\ m.value \in Optional(Versions) /\ m.key \in 0 .. MaxApprovals /\ m.why \in Optional(Reasons)
  BY DEF Memory

\* Known, one job at a time.
LEMMA KnownIs ==
  ASSUME NEW n, NEW j
  PROVE  j \in Known(n) <=>
           /\ j # None
           /\ \/ j = jobs[n] \/ j = disk[n]
              \/ \E r \in Requests : at[r] \in CopyPlaces /\ mem[r].name = n /\ mem[r].job = j
              \/ \E r \in Requests : mem[r].cands[n] = j
  BY DEF Known

LEMMA KnownIsNext ==
  ASSUME NEW n, NEW j
  PROVE  j \in Known(n)' <=>
           /\ j # None
           /\ \/ j = jobs'[n] \/ j = disk'[n]
              \/ \E r \in Requests : at'[r] \in CopyPlaces /\ mem'[r].name = n /\ mem'[r].job = j
              \/ \E r \in Requests : mem'[r].cands[n] = j
  BY DEF Known

LEMMA KnownTyped ==
  ASSUME Typed, NEW n \in Names, NEW j \in Known(n)
  PROVE  j \in Job
  <1>1. jobs[n] \in Optional(Job) /\ disk[n] \in Optional(Job)
    BY DEF Typed
  <1>2. ASSUME NEW r \in Requests PROVE mem[r].job \in Optional(Job) /\ mem[r].cands[n] \in Optional(Job)
    BY MemoryTyped DEF Typed
  <1> QED BY <1>1, <1>2, KnownIs DEF Optional

LEMMA CopyIsKnown ==
  ASSUME NEW r \in Requests, at[r] \in CopyPlaces, MemOk(r)
  PROVE  mem[r].name \in Names /\ mem[r].job \in Job /\ mem[r].job \in Known(mem[r].name)
  <1>1. mem[r].name \in Names /\ mem[r].job \in Job /\ mem[r].job # None
    BY JobTyped DEF MemOk
  <1> QED BY <1>1, KnownIs

LEMMA StoredIsKnown ==
  ASSUME NEW n \in Names
  PROVE  /\ jobs[n] # None => jobs[n] \in Known(n)
         /\ disk[n] # None => disk[n] \in Known(n)
  BY KnownIs

LEMMA CandIsKnown ==
  ASSUME NEW r \in Requests, NEW n \in Names, mem[r].cands[n] # None
  PROVE  mem[r].cands[n] \in Known(n)
  BY KnownIs

LEMMA GotoMoves ==
  ASSUME NEW r \in Requests, Typed, NEW from, NEW to \in Places, NEW m \in Memory, Goto(r, from, to, m)
  PROVE  at[r] = from /\ Moved(r, to, m)
  BY DEF Typed, Goto, Go, Moved, Others, PlacesTyped

LEMMA GoMoves ==
  ASSUME NEW r \in Requests, Typed, NEW from, NEW to \in Places, Go(r, from, to), mem' = mem
  PROVE  at[r] = from /\ Moved(r, to, mem[r])
  BY DEF Typed, Go, Moved, Others, PlacesTyped

LEMMA EndMoves ==
  ASSUME NEW r \in Requests, Typed, NEW from, End(r, from)
  PROVE  at[r] = from /\ Moved(r, "idle", Blank)
  BY GotoMoves, BlankTyped DEF End, Places

LEMMA LikeItself ==
  ASSUME NEW j PROVE Like(j, j)
  BY DEF Like

LEMMA StoredSame ==
  ASSUME Typed, UNCHANGED kept
  PROVE  StoredLike
  BY LikeItself DEF StoredLike, StoredTyped, JobsLike, DiskLike, Typed

LEMMA StoppedTyped ==
  ASSUME NEW j \in Job, NEW why \in Reasons
  PROVE  /\ [j EXCEPT !.stopped = why] \in Job
         /\ [j EXCEPT !.stopped = why].stopped # None
         /\ Like([j EXCEPT !.stopped = why], j)
  BY DEF Job, Like, Optional

LEMMA CarriedTyped ==
  ASSUME NEW j \in Job, NEW v \in Versions, v = j.secret
  PROVE  /\ [j EXCEPT !.carried = v] \in Job
         /\ [j EXCEPT !.carried = v].stopped = j.stopped
         /\ Like([j EXCEPT !.carried = v], j)
  BY DEF Job, Like, Optional

-------------------------------------------------------------------------------
(* What the conjuncts of the invariant need of a step                      *)

\* Who holds names, and the carry, stays as it was.
LEMMA HoldsKept ==
  ASSUME NEW r \in Requests, RunningOk, OneAtATime, Others(r), running' = running,
         at'[r] \in Held <=> at[r] \in Held,
         at[r] \in Held => mem'[r].name = mem[r].name,
         at'[r] \in Carrying => at[r] \in Carrying
  PROVE  RunningOk' /\ OneAtATime'
  <1>1. \A q \in Requests : /\ at'[q] \in Held <=> at[q] \in Held
                            /\ at[q] \in Held => mem'[q].name = mem[q].name
                            /\ at'[q] \in Carrying => at[q] \in Carrying
    BY DEF Others
  <1>2. RunningOk'
    BY <1>1 DEF RunningOk
  <1>3. OneAtATime'
    BY <1>1 DEF OneAtATime
  <1> QED BY <1>2, <1>3

\* A run lets its name go.
LEMMA HoldsLeft ==
  ASSUME NEW r \in Requests, RunningOk, OneAtATime, Others(r),
         at[r] \in Held, running' = running \ {mem[r].name},
         at'[r] \notin Held, at'[r] \notin Carrying
  PROVE  RunningOk' /\ OneAtATime'
  <1>1. \A q \in Requests \ {r} : at'[q] = at[q] /\ mem'[q] = mem[q]
    BY DEF Others
  <1>2. \A q \in Requests \ {r} : at[q] \in Held => mem[q].name # mem[r].name
    BY DEF OneAtATime
  <1>3. ASSUME NEW n PROVE n \in running' <=> \E q \in Requests : at'[q] \in Held /\ mem'[q].name = n
    BY <1>1, <1>2 DEF RunningOk
  <1>4. RunningOk'
    BY <1>3 DEF RunningOk
  <1>5. OneAtATime'
    BY <1>1 DEF OneAtATime
  <1> QED BY <1>4, <1>5

\* A run takes a name nobody holds.
LEMMA HoldsTaken ==
  ASSUME NEW r \in Requests, RunningOk, OneAtATime, Others(r), mem[r].name \notin running,
         at[r] \notin Held, running' = running \union {mem[r].name},
         at'[r] \in Held, mem'[r].name = mem[r].name, at'[r] \notin Carrying
  PROVE  RunningOk' /\ OneAtATime'
  <1>1. \A q \in Requests \ {r} : at'[q] = at[q] /\ mem'[q] = mem[q]
    BY DEF Others
  <1>2. \A q \in Requests : at[q] \in Held => mem[q].name # mem[r].name
    BY DEF RunningOk
  <1>3. ASSUME NEW n PROVE n \in running' <=> \E q \in Requests : at'[q] \in Held /\ mem'[q].name = n
    BY <1>1 DEF RunningOk
  <1>4. RunningOk'
    BY <1>3 DEF RunningOk
  <1>5. OneAtATime'
    BY <1>1, <1>2 DEF OneAtATime
  <1> QED BY <1>4, <1>5

\* A carry starts when there is none.
LEMMA HoldsCarry ==
  ASSUME NEW r \in Requests, RunningOk, OneAtATime, Others(r), running' = running,
         at[r] \notin Held, at'[r] \notin Held, \A q \in Requests : at[q] \notin Carrying
  PROVE  RunningOk' /\ OneAtATime'
  <1>1. \A q \in Requests : /\ at'[q] \in Held <=> at[q] \in Held
                            /\ at[q] \in Held => mem'[q].name = mem[q].name
                            /\ q # r => at'[q] \notin Carrying
    BY DEF Others
  <1>2. RunningOk'
    BY <1>1 DEF RunningOk
  <1>3. OneAtATime'
    BY <1>1 DEF OneAtATime
  <1> QED BY <1>2, <1>3

LEMMA MemsKept ==
  ASSUME NEW r \in Requests, Others(r), \A q \in Requests : MemOk(q), MemOk(r)'
  PROVE  \A q \in Requests : MemOk(q)'
  <1>1. ASSUME NEW q \in Requests, q # r PROVE MemOk(q)'
    <2>1. at'[q] = at[q] /\ mem'[q] = mem[q] /\ MemOk(q)
      BY <1>1 DEF Others
    <2> QED BY <2>1 DEF MemOk
  <1> QED BY <1>1

\* A quiet step makes no job known but versions of those known before.
LEMMA QuietKnown ==
  ASSUME NEW r \in Requests, Quiet(r), NEW n \in Names, NEW j \in Known(n)'
  PROVE  \E i \in Known(n) : Like(j, i)
  <1>0. j # None
    BY KnownIsNext
  <1>1. CASE j = jobs'[n]
    <2>1. jobs[n] # None /\ Like(j, jobs[n])
      BY <1>0, <1>1 DEF Quiet, StoredLike, JobsLike
    <2> QED BY <2>1, StoredIsKnown
  <1>2. CASE j = disk'[n]
    <2>1. \/ disk[n] # None /\ Like(j, disk[n])
          \/ jobs[n] # None /\ Like(j, jobs[n])
      BY <1>0, <1>2 DEF Quiet, StoredLike, DiskLike
    <2> QED BY <2>1, StoredIsKnown
  <1>3. ASSUME NEW q \in Requests, at'[q] \in CopyPlaces, mem'[q].name = n, mem'[q].job = j
        PROVE  j \in Known(n)
    <2>1. CASE q = r
      BY <1>3, <2>1 DEF Quiet, CopiesKnown
    <2>2. CASE q # r
      BY <1>0, <1>3, <2>2, KnownIs DEF Quiet, Others
    <2> QED BY <2>1, <2>2
  <1>4. ASSUME NEW q \in Requests, mem'[q].cands[n] = j
        PROVE  j \in Known(n)
    <2>1. CASE q = r
      BY <1>0, <1>4, <2>1 DEF Quiet, CopiesKnown
    <2>2. CASE q # r
      BY <1>0, <1>4, <2>2, KnownIs DEF Quiet, Others
    <2> QED BY <2>1, <2>2
  <1> QED BY <1>1, <1>2, <1>3, <1>4, KnownIsNext, LikeItself

LEMMA LikeIsShown ==
  ASSUME NEW j, NEW i, Like(j, i), AsShown(i), approved' = approved
  PROVE  AsShown(j)'
  BY DEF Like, AsShown

\* What is known of a name's jobs, when all of them are versions of old ones.
LEMMA KnownKept ==
  ASSUME KnownOk, given' = given, approved' = approved,
         \A n \in Names : \A j \in Known(n)' : \E i \in Known(n) : Like(j, i)
  PROVE  KnownOk'
  <1>1. ASSUME NEW n \in Names, NEW j \in Known(n)' PROVE j.approval <= given' /\ AsShown(j)'
    <2>1. PICK i \in Known(n) : Like(j, i)
      OBVIOUS
    <2>2. i.approval <= given /\ AsShown(i)
      BY DEF KnownOk
    <2>3. AsShown(j)'
      BY <2>1, <2>2, LikeIsShown
    <2> QED BY <2>1, <2>2, <2>3 DEF Like
  <1>2. ASSUME NEW m \in Names, NEW n \in Names, NEW i \in Known(m)', NEW j \in Known(n)',
               i.approval = j.approval
        PROVE  m = n
    <2>1. PICK i0 \in Known(m) : Like(i, i0)
      OBVIOUS
    <2>2. PICK j0 \in Known(n) : Like(j, j0)
      OBVIOUS
    <2>3. i0.approval = j0.approval
      BY <1>2, <2>1, <2>2 DEF Like
    <2> QED BY <2>3 DEF KnownOk
  <1> QED BY <1>1, <1>2 DEF KnownOk

LEMMA UnusedKept ==
  ASSUME NEW r \in Requests, Quiet(r), NEW a \in Approvals, Unused(a), CountsKnown
  PROVE  Unused(a)'
  <1>1. ASSUME NEW n \in Names, NEW j \in Known(n)' PROVE j.approval # a
    <2>1. PICK i \in Known(n) : Like(j, i)
      BY QuietKnown
    <2> QED BY <2>1 DEF Unused, Like
  <1>2. ASSUME NEW q \in Requests, at'[q] = "delete key" PROVE mem'[q].key # a
    BY <1>2 DEF Quiet, Others, Unused
  <1>3. swaps'[a] = 0 /\ guesses'[a] = 0
    BY DEF CountsKnown, Unused
  <1> QED BY <1>1, <1>2, <1>3 DEF Unused

LEMMA QuietKeeps ==
  ASSUME NEW r \in Requests, IInv, Quiet(r), CountsKnown
  PROVE  KnownOk' /\ FreshOk' /\ PendingOk' /\ DeletedOk' /\ KeyOfAJobIsKept' /\ NoStrayKey'
  <1>1. KnownOk'
    <2>1. KnownOk /\ given' = given /\ approved' = approved
      BY DEF IInv, Quiet, KeysSame
    <2> QED BY <2>1, QuietKnown, KnownKept
  <1>2. FreshOk'
    <2>1. FreshOk /\ given' = given /\ keys' = keys
      BY DEF IInv, Quiet, KeysSame
    <2> QED BY <2>1, UnusedKept DEF FreshOk
  <1>3. ASSUME NEW q \in Requests, at'[q] \in PendingPlaces
        PROVE  at[q] = at'[q] /\ mem'[q] = mem[q]
    BY <1>3 DEF Quiet, Others
  <1>4. ASSUME NEW q \in Requests, at'[q] \in PendingPlaces
        PROVE  PendingIs(q)'
    <2>1. at[q] = at'[q] /\ mem'[q] = mem[q]
      BY <1>3, <1>4
    <2>2. PendingIs(q) /\ mem[q].job \in Job
      BY <1>4, <2>1 DEF IInv, PendingOk, MemOk
    <2>3. mem[q].job.approval \in Approvals
      BY <2>2, JobTyped
    <2>4. PICK a \in Approvals : a = mem[q].job.approval
      BY <2>3
    <2>5. Unused(a) /\ a <= given
      BY <2>2, <2>4 DEF PendingIs
    <2>6. Unused(a)'
      BY <2>5, UnusedKept
    <2>7. approved' = approved /\ keys' = keys /\ given' = given
      BY DEF Quiet, KeysSame
    <2>8. a = mem'[q].job.approval
      BY <2>1, <2>4
    <2>9. /\ at'[q] = "allow prompt" => a \notin keys'
          /\ at'[q] = "allow save" => AsShown(mem[q].job) /\ (a \in keys' <=> mem[q].job.never)
      BY <2>1, <2>2, <2>4, <2>7 DEF PendingIs
    <2>10. at'[q] = "allow save" => AsShown(mem[q].job)'
      BY <2>1, <2>7, <2>9 DEF AsShown
    <2> QED BY <2>1, <2>5, <2>6, <2>7, <2>8, <2>9, <2>10 DEF PendingIs
  <1>5. PendingOk'
    <2>1. PendingOk
      BY DEF IInv
    <2> QED BY <1>3, <1>4, <2>1 DEF PendingOk
  <1>6. DeletedOk'
    <2>1. ASSUME NEW q \in Requests, at'[q] = "delete key", NEW n \in Names
          PROVE  /\ jobs'[n] # None => jobs'[n].approval # mem'[q].key
                 /\ disk'[n] # None => disk'[n].approval # mem'[q].key
      <3>1. at[q] = "delete key" /\ mem'[q] = mem[q]
        BY <2>1 DEF Quiet, Others
      <3>2. /\ jobs[n] # None => jobs[n].approval # mem[q].key
            /\ disk[n] # None => disk[n].approval # mem[q].key
        BY <3>1 DEF IInv, DeletedOk
      <3> QED BY <3>1, <3>2 DEF Quiet, StoredLike, JobsLike, DiskLike, Like
    <2> QED BY <2>1 DEF DeletedOk
  <1>7. KeyOfAJobIsKept'
    <2>1. ASSUME NEW n \in Names
          PROVE  /\ jobs[n] # None /\ jobs[n].never => jobs[n].approval \in keys
                 /\ disk[n] # None /\ disk[n].never => disk[n].approval \in keys
      BY DEF IInv, KeyOfAJobIsKept
    <2>2. ASSUME NEW n \in Names
          PROVE  /\ jobs'[n] # None /\ jobs'[n].never => jobs'[n].approval \in keys
                 /\ disk'[n] # None /\ disk'[n].never => disk'[n].approval \in keys
      BY <2>1 DEF Quiet, StoredLike, JobsLike, DiskLike, Like
    <2>3. keys' = keys
      BY DEF Quiet, KeysSame
    <2> QED BY <2>2, <2>3 DEF KeyOfAJobIsKept
  <1>8. NoStrayKey'
    <2>1. ASSUME NEW k \in keys, Named(k, jobs) PROVE Named(k, jobs')
      BY <2>1 DEF Named, Quiet, StoredLike, JobsLike, Like
    <2>2. ASSUME NEW q \in Requests, at[q] \in {"allow save", "delete key"}
          PROVE  at'[q] = at[q] /\ mem'[q] = mem[q]
      BY <2>2 DEF Quiet, Others
    <2>3. NoStrayKey /\ keys' = keys /\ undeleted' = undeleted
      BY DEF IInv, Quiet, KeysSame
    <2>4. ASSUME NEW k \in keys, ~Named(k, jobs'), k \notin undeleted
          PROVE  \E q \in Requests : \/ at'[q] = "allow save" /\ mem'[q].job.approval = k
                                     \/ at'[q] = "delete key" /\ mem'[q].key = k
      <3>1. PICK q \in Requests : \/ at[q] = "allow save" /\ mem[q].job.approval = k
                                  \/ at[q] = "delete key" /\ mem[q].key = k
        BY <2>1, <2>3, <2>4 DEF NoStrayKey
      <3> QED BY <2>2, <3>1
    <2>5. ASSUME NEW k PROVE Named(k, jobs') <=> Named(k, jobs)'
      BY DEF Named
    <2> QED BY <2>3, <2>4, <2>5 DEF NoStrayKey
  <1> QED BY <1>1, <1>2, <1>5, <1>6, <1>7, <1>8

\* Nobody new is caught, and nobody who was leaves without the stop.
LEMMA TriesKept ==
  ASSUME NEW r \in Requests, Others(r), TriesOk, CountsSame, JobsLike,
         at'[r] = "run on" => swaps[mem'[r].job.approval] = 0,
         at'[r] = "carry open" => guesses[mem'[r].job.approval] = 0,
         \A n \in Names : jobs'[n] # None /\ jobs'[n].stopped = None =>
             ~(at[r] \in {"run refuse", "carry stop"} /\ mem[r].name = n
               /\ mem[r].job.approval = jobs[n].approval)
  PROVE  TriesOk'
  <1>1. OneTryPerApproval'
    BY DEF TriesOk, OneTryPerApproval, CountsSame
  <1>2. ASSUME NEW q \in Requests
        PROVE  /\ at'[q] = "run on" => swaps'[mem'[q].job.approval] = 0
               /\ at'[q] = "carry open" => guesses'[mem'[q].job.approval] = 0
    BY DEF TriesOk, CountsSame, Others
  <1>3. ASSUME NEW n \in Names, jobs'[n] # None, jobs'[n].stopped = None
        PROVE  /\ swaps'[jobs'[n].approval] # 0 => Caught(n, "run refuse")'
               /\ guesses'[jobs'[n].approval] # 0 => Caught(n, "carry stop")'
    <2>1. jobs[n] # None /\ jobs[n].stopped = None /\ jobs'[n].approval = jobs[n].approval
      BY <1>3 DEF JobsLike, Like
    <2>2. ASSUME NEW place \in {"run refuse", "carry stop"}, Caught(n, place)
          PROVE  Caught(n, place)'
      <3>1. PICK q \in Requests : at[q] = place /\ mem[q].name = n /\ mem[q].job.approval = jobs[n].approval
        BY <2>2 DEF Caught
      <3>2. q # r
        BY <1>3, <3>1
      <3>3. at'[q] = at[q] /\ mem'[q] = mem[q]
        BY <3>2 DEF Others
      <3> QED BY <2>1, <3>1, <3>3 DEF Caught
    <2>3. /\ swaps[jobs[n].approval] # 0 => Caught(n, "run refuse")
          /\ guesses[jobs[n].approval] # 0 => Caught(n, "carry stop")
      BY <2>1 DEF TriesOk
    <2> QED BY <2>1, <2>2, <2>3 DEF CountsSame
  <1> QED BY <1>1, <1>2, <1>3 DEF TriesOk

LEMMA FaultTyped ==
  ASSUME Typed, Fault
  PROVE  faults' \in 0 .. MaxFaults
  BY DEF Typed, Fault

LEMMA OneName ==
  ASSUME KnownOk, NEW m \in Names, NEW n \in Names, NEW i \in Known(m), NEW j \in Known(n),
         i.approval = j.approval
  PROVE  m = n
  BY DEF KnownOk

OneMore(f, g, a) == g = [f EXCEPT ![a] = @ + 1]

LEMMA Counted ==
  ASSUME NEW f \in [Approvals -> Nat], NEW a \in Approvals, f[a] = 0, NEW g, OneMore(f, g, a)
  PROVE  g \in [Approvals -> Nat] /\ g[a] = 1 /\ \A b \in Approvals \ {a} : g[b] = f[b]
  BY DEF OneMore

LEMMA QuietStepKeeps ==
  ASSUME NEW r \in Requests, IInv, Quiet(r), CountsKnown,
         Typed', RunningOk', OneAtATime', MemOk(r)', TriesOk'
  PROVE  IInv'
  <1>1. \A q \in Requests : MemOk(q)'
    BY MemsKept DEF Quiet, IInv
  <1> QED BY <1>1, QuietKeeps DEF IInv

\* A step that changes nothing but where a request is and what it holds.
LEMMA MoveKeeps ==
  ASSUME NEW r \in Requests, IInv, Others(r), PlacesTyped, CopiesKnown(r),
         UNCHANGED <<world, kept, keys, ghosts, bounds>>,
         RunningOk', OneAtATime', MemOk(r)',
         at[r] \notin {"allow save", "delete key", "run refuse", "carry stop"},
         at'[r] \notin PendingPlaces, at'[r] # "delete key",
         at'[r] = "run on" => swaps[mem'[r].job.approval] = 0,
         at'[r] = "carry open" => guesses[mem'[r].job.approval] = 0
  PROVE  IInv'
  <1>0. Typed /\ TriesOk
    BY DEF IInv
  <1>1. StoredLike
    BY <1>0, StoredSame
  <1>2. Quiet(r)
    BY <1>1 DEF Quiet, KeysSame
  <1>3. CountsKnown /\ CountsSame
    BY DEF CountsKnown, CountsSame
  <1>4. Typed'
    BY <1>0 DEF Typed, PlacesTyped
  <1>5. TriesOk'
    BY <1>0, <1>1, <1>3, TriesKept DEF StoredLike
  <1> QED BY <1>2, <1>3, <1>4, <1>5, QuietStepKeeps

LEMMA BlankHoldsNothing ==
  ASSUME NEW r \in Requests, at'[r] = "idle", mem'[r] = Blank
  PROVE  CopiesKnown(r) /\ MemOk(r)'
  BY BlankTyped DEF CopiesKnown, MemOk, CopyPlaces, PendingPlaces, Carrying

LEMMA IdleIsNowhere ==
  /\ "idle" \notin CopyPlaces /\ "idle" \notin PendingPlaces /\ "idle" \notin Held /\ "idle" \notin Carrying
  BY DEF CopyPlaces, PendingPlaces, Held, Carrying

\* A request that holds no name ends.
LEMMA EndsKeeps ==
  ASSUME NEW r \in Requests, IInv, NEW from, End(r, from),
         UNCHANGED <<world, kept, keys, running, ghosts, bounds>>,
         from \notin Held, from \notin {"allow save", "delete key", "carry stop"}
  PROVE  IInv'
  <1>0. Typed /\ RunningOk /\ OneAtATime
    BY DEF IInv
  <1>1. at[r] = from /\ Others(r) /\ PlacesTyped /\ at'[r] = "idle" /\ mem'[r] = Blank
    BY <1>0, EndMoves DEF Moved
  <1>2. RunningOk' /\ OneAtATime'
    BY <1>0, <1>1, IdleIsNowhere, HoldsKept
  <1>3. from # "run refuse"
    BY DEF Held
  <1> QED BY <1>1, <1>2, <1>3, BlankHoldsNothing, IdleIsNowhere, MoveKeeps

\* A run ends that was not caught, and changes nothing else.
LEMMA LeaveKeeps ==
  ASSUME NEW r \in Requests, IInv, NEW from \in Held, Leave(r, from), from # "run refuse",
         UNCHANGED <<world, kept, keys, ghosts, bounds>>
  PROVE  IInv'
  <1>0. Typed /\ RunningOk /\ OneAtATime
    BY DEF IInv
  <1>1. at[r] = from /\ Others(r) /\ PlacesTyped /\ at'[r] = "idle" /\ mem'[r] = Blank
    BY <1>0, EndMoves DEF Moved, Leave
  <1>2. RunningOk' /\ OneAtATime'
    <2>1. running' = running \ {mem[r].name}
      BY DEF Leave
    <2> QED BY <1>0, <1>1, <2>1, IdleIsNowhere, HoldsLeft
  <1>3. from \notin {"allow save", "delete key", "run refuse", "carry stop"}
    BY DEF Held
  <1> QED BY <1>1, <1>2, <1>3, BlankHoldsNothing, IdleIsNowhere, MoveKeeps

SameCopy(r) == mem'[r].name = mem[r].name /\ mem'[r].job = mem[r].job /\ mem'[r].cands = mem[r].cands

\* A copy stays a copy.
LEMMA SameCopyIsKnown ==
  ASSUME NEW r \in Requests, at[r] \in CopyPlaces, MemOk(r), SameCopy(r)
  PROVE  CopiesKnown(r)
  BY CopyIsKnown, CandIsKnown DEF CopiesKnown, SameCopy

LEMMA MemEdited ==
  ASSUME NEW m \in Memory, NEW v \in Optional(Versions), NEW w \in Optional(Reasons)
  PROVE  /\ [m EXCEPT !.value = v] \in Memory /\ [m EXCEPT !.why = w] \in Memory
         /\ [m EXCEPT !.value = v].value = v /\ [m EXCEPT !.why = w].why = w
         /\ [m EXCEPT !.value = v].name = m.name /\ [m EXCEPT !.value = v].job = m.job
         /\ [m EXCEPT !.value = v].cands = m.cands /\ [m EXCEPT !.value = v].why = m.why
         /\ [m EXCEPT !.why = w].name = m.name /\ [m EXCEPT !.why = w].job = m.job
         /\ [m EXCEPT !.why = w].cands = m.cands /\ [m EXCEPT !.why = w].value = m.value
  BY DEF Memory

\* A run goes on under its name, with its copy.
LEMMA RunGoesOn ==
  ASSUME NEW r \in Requests, IInv, Others(r), PlacesTyped, SameCopy(r),
         UNCHANGED <<world, kept, keys, running, ghosts, bounds>>,
         at[r] \in Held, at[r] # "run refuse", at'[r] \in Held,
         at'[r] = "run refuse" => mem'[r].why \in Reasons,
         at'[r] = "run on" => swaps[mem'[r].job.approval] = 0
  PROVE  IInv'
  <1>0. Typed /\ RunningOk /\ OneAtATime /\ MemOk(r)
    BY DEF IInv
  <1>1. RunningOk' /\ OneAtATime'
    <2>1. mem'[r].name = mem[r].name /\ at'[r] \notin Carrying
      BY DEF SameCopy, Held, Carrying
    <2> QED BY <1>0, <2>1, HoldsKept
  <1>2. CopiesKnown(r)
    <2>1. at[r] \in CopyPlaces
      BY DEF Held, CopyPlaces
    <2> QED BY <1>0, <2>1, SameCopyIsKnown
  <1>3. MemOk(r)'
    <2>1. mem'[r].name \in Names /\ mem'[r].job \in Job
      BY <1>0 DEF SameCopy, MemOk, Held, CopyPlaces
    <2> QED BY <2>1 DEF MemOk, Held, PendingPlaces, Carrying
  <1>4. /\ at[r] \notin {"allow save", "delete key", "run refuse", "carry stop"}
        /\ at'[r] \notin PendingPlaces /\ at'[r] # "delete key" /\ at'[r] # "carry open"
    BY DEF Held, PendingPlaces
  <1> QED BY <1>1, <1>2, <1>3, <1>4, MoveKeeps

-------------------------------------------------------------------------------
(* job_run                                                                 *)

LEMMA RunStartKeeps ==
  ASSUME IInv, NEW r \in Requests, NEW n \in Names, RunStart(r, n)
  PROVE  IInv'
  <1> DEFINE m == [Blank EXCEPT !.name = n, !.job = jobs[n]]
  <1>0. Typed /\ RunningOk /\ OneAtATime
    BY DEF IInv
  <1>1. jobs[n] \in Job /\ jobs[n] # None
    BY <1>0 DEF Typed, RunStart, Optional
  <1>2. m \in Memory /\ m.name = n /\ m.job = jobs[n] /\ \A x \in Names : m.cands[x] = None
    BY <1>1, BlankTyped DEF Memory, Blank, Optional, NoCands
  <1>3. Goto(r, "idle", "run enter", m)
    BY DEF RunStart
  <1> HIDE DEF m
  <1>4. at[r] = "idle" /\ Others(r) /\ PlacesTyped /\ at'[r] = "run enter" /\ mem'[r] = m
    <2>1. "run enter" \in Places
      BY DEF Places
    <2>2. at[r] = "idle" /\ Moved(r, "run enter", m)
      BY <1>0, <1>2, <1>3, <2>1, GotoMoves
    <2> QED BY <2>2 DEF Moved
  <1>5. RunningOk' /\ OneAtATime'
    <2>1. running' = running
      BY DEF RunStart
    <2> QED BY <1>0, <1>4, <2>1, HoldsKept DEF Held, Carrying
  <1>6. CopiesKnown(r)
    BY <1>1, <1>2, <1>4, StoredIsKnown DEF CopiesKnown
  <1>7. MemOk(r)'
    BY <1>1, <1>2, <1>4 DEF MemOk, CopyPlaces, PendingPlaces, Carrying
  <1>8. UNCHANGED <<world, kept, keys, ghosts, bounds>>
    BY DEF RunStart
  <1> QED BY <1>4, <1>5, <1>6, <1>7, <1>8, MoveKeeps DEF PendingPlaces

\* Taking the name, and the folder compared for the first time.
LEMMA CheckCopyKeeps ==
  ASSUME IInv, NEW r \in Requests, at[r] = "run enter", mem[r].name \notin running, CheckCopy(r),
         mem[r].job.stopped = None, UNCHANGED <<world, kept, keys, ghosts, bounds>>
  PROVE  IInv'
  <1>0. Typed /\ RunningOk /\ OneAtATime /\ MemOk(r) /\ mem[r] \in Memory
    BY DEF IInv, Typed
  <1>1. running' = running \union {mem[r].name}
    BY DEF CheckCopy
  <1>2. /\ Others(r) /\ PlacesTyped /\ SameCopy(r)
        /\ \/ at'[r] = "run secret"
           \/ at'[r] = "run refuse" /\ mem'[r].why \in Reasons
    <2>1. CASE Changed(mem[r].job)
      <3> DEFINE m == [mem[r] EXCEPT !.why = "not as approved"]
      <3>1. "not as approved" \in Reasons /\ "not as approved" \in Optional(Reasons)
            /\ "run refuse" \in Places /\ None \in Optional(Versions)
        BY DEF Reasons, Optional, Places
      <3>2. m \in Memory /\ m.why = "not as approved" /\ m.name = mem[r].name /\ m.job = mem[r].job
            /\ m.cands = mem[r].cands
        BY ZenonT(60), <1>0, <3>1, MemEdited
      <3>3. Goto(r, "run enter", "run refuse", m)
        BY <2>1 DEF CheckCopy, Refuse
      <3> HIDE DEF m
      <3>4. Moved(r, "run refuse", m)
        BY <1>0, <3>1, <3>2, <3>3, GotoMoves
      <3> QED BY <3>1, <3>2, <3>4 DEF Moved, SameCopy
    <2>2. CASE ~Changed(mem[r].job)
      <3>1. Go(r, "run enter", "run secret") /\ mem' = mem
        BY <2>2 DEF CheckCopy
      <3> QED BY <1>0, <3>1, GoMoves DEF Moved, SameCopy, Places
    <2> QED BY <2>1, <2>2
  <1>3. RunningOk' /\ OneAtATime'
    <2>1. at[r] \notin Held /\ at'[r] \in Held /\ at'[r] \notin Carrying /\ mem'[r].name = mem[r].name
      BY <1>2 DEF Held, Carrying, SameCopy
    <2> QED BY <1>0, <1>1, <1>2, <2>1, HoldsTaken
  <1>4. CopiesKnown(r)
    BY <1>0, <1>2, SameCopyIsKnown DEF CopyPlaces
  <1>5. MemOk(r)'
    BY <1>0, <1>2 DEF MemOk, SameCopy, CopyPlaces, PendingPlaces, Carrying
  <1> QED BY <1>2, <1>3, <1>4, <1>5, MoveKeeps DEF PendingPlaces

LEMMA RunEnterKeeps ==
  ASSUME IInv, NEW r \in Requests, RunEnter(r)
  PROVE  IInv'
  <1>1. UNCHANGED <<world, kept, keys, ghosts, bounds>> /\ at[r] = "run enter"
    BY DEF RunEnter
  <1>2. CASE mem[r].name \in running \/ mem[r].job.stopped # None
    <2>1. End(r, "run enter") /\ running' = running
      BY <1>2 DEF RunEnter, CheckCopy
    <2> QED BY <1>1, <2>1, EndsKeeps DEF Held
  <1>3. CASE ~(mem[r].name \in running \/ mem[r].job.stopped # None)
    <2>1. CheckCopy(r)
      BY <1>3 DEF RunEnter
    <2> QED BY <1>1, <1>3, <2>1, CheckCopyKeeps
  <1> QED BY <1>2, <1>3

LEMMA RefuseKeeps ==
  ASSUME IInv, NEW r \in Requests, NEW from \in Held, NEW why \in Reasons, from # "run refuse",
         Refuse(r, from, why), UNCHANGED <<world, kept, keys, running, ghosts, bounds>>
  PROVE  IInv'
  <1> DEFINE m == [mem[r] EXCEPT !.why = why]
  <1>0. Typed /\ mem[r] \in Memory /\ why \in Optional(Reasons) /\ None \in Optional(Versions)
    BY DEF IInv, Typed, Optional
  <1>1. m \in Memory /\ m.why = why /\ m.name = mem[r].name /\ m.job = mem[r].job /\ m.cands = mem[r].cands
    BY ZenonT(60), <1>0, MemEdited
  <1>2. Goto(r, from, "run refuse", m)
    BY DEF Refuse
  <1> HIDE DEF m
  <1>3. /\ at[r] = from /\ Others(r) /\ PlacesTyped /\ at'[r] = "run refuse" /\ mem'[r].why = why
        /\ SameCopy(r)
    <2>1. "run refuse" \in Places
      BY DEF Places
    <2>2. at[r] = from /\ Moved(r, "run refuse", m)
      BY <1>0, <1>1, <1>2, <2>1, GotoMoves
    <2> QED BY <1>1, <2>2 DEF Moved, SameCopy
  <1> QED BY <1>3, RunGoesOn DEF Held

\* A run that keeps its copy, whatever value it has.
LEMMA ValueKeeps ==
  ASSUME IInv, NEW r \in Requests, NEW from \in Held, from # "run refuse",
         NEW to \in {"run open", "run prompt", "run recheck"}, NEW v \in Optional(Versions),
         Goto(r, from, to, [mem[r] EXCEPT !.value = v]),
         UNCHANGED <<world, kept, keys, running, ghosts, bounds>>
  PROVE  IInv'
  <1> DEFINE m == [mem[r] EXCEPT !.value = v]
  <1>0. Typed /\ mem[r] \in Memory /\ None \in Optional(Reasons)
    BY DEF IInv, Typed, Optional
  <1>1. m \in Memory /\ m.name = mem[r].name /\ m.job = mem[r].job /\ m.cands = mem[r].cands
    BY <1>0, MemEdited
  <1>2. Goto(r, from, to, m)
    OBVIOUS
  <1> HIDE DEF m
  <1>3. at[r] = from /\ Others(r) /\ PlacesTyped /\ at'[r] = to /\ SameCopy(r)
    <2>1. to \in Places
      BY DEF Places
    <2>2. at[r] = from /\ Moved(r, to, m)
      BY <1>0, <1>1, <1>2, <2>1, GotoMoves
    <2> QED BY <1>1, <2>2 DEF Moved, SameCopy
  <1> QED BY <1>3, RunGoesOn DEF Held

LEMMA RunSecretKeeps ==
  ASSUME IInv, NEW r \in Requests, RunSecret(r)
  PROVE  IInv'
  <1>1. UNCHANGED <<world, kept, keys, running, ghosts, bounds>> /\ "run secret" \in Held
    BY DEF RunSecret, Held
  <1>2. \/ \E why \in Reasons : Refuse(r, "run secret", why)
        \/ \E v \in Optional(Versions), to \in {"run open", "run prompt"} :
              Goto(r, "run secret", to, [mem[r] EXCEPT !.value = v])
    BY DEF RunSecret, IInv, Typed, Reasons, Optional
  <1> QED BY <1>1, <1>2, RefuseKeeps, ValueKeeps

LEMMA RunOpenKeeps ==
  ASSUME IInv, NEW r \in Requests, RunOpen(r)
  PROVE  IInv'
  <1>1. UNCHANGED <<world, kept, keys, running, ghosts, bounds>> /\ "run open" \in Held
    BY DEF RunOpen, Held
  <1>2. None \in Optional(Versions) /\ "not as approved" \in Reasons
    BY DEF Optional, Reasons
  <1>3. \/ Refuse(r, "run open", "not as approved")
        \/ Goto(r, "run open", "run recheck", [mem[r] EXCEPT !.value = None])
    BY DEF RunOpen, Recheck
  <1> QED BY <1>1, <1>2, <1>3, RefuseKeeps, ValueKeeps

LEMMA RunPromptKeeps ==
  ASSUME IInv, NEW r \in Requests, RunPrompt(r)
  PROVE  IInv'
  <1>1. UNCHANGED <<world, kept, keys, ghosts, bounds>> /\ "run prompt" \in Held
    BY DEF RunPrompt, Held
  <1>2. CASE Recheck(r, "run prompt") /\ UNCHANGED running
    <2>1. None \in Optional(Versions)
      BY DEF Optional
    <2>2. Goto(r, "run prompt", "run recheck", [mem[r] EXCEPT !.value = None])
      BY <1>2 DEF Recheck
    <2> QED BY <1>1, <1>2, <2>1, <2>2, ValueKeeps
  <1>3. CASE Leave(r, "run prompt")
    BY <1>1, <1>3, LeaveKeeps
  <1> QED BY <1>2, <1>3 DEF RunPrompt

\* A program starts only while nobody of its approval was caught: who was
\* holds the name, or has stopped the job.
LEMMA RunLiveKeeps ==
  ASSUME IInv, NEW r \in Requests, RunLive(r)
  PROVE  IInv'
  <1>1. UNCHANGED <<world, kept, keys, ghosts, bounds>> /\ "run recheck" \in Held /\ at[r] = "run recheck"
    BY DEF RunLive, Held
  <1>2. CASE Changed(mem[r].job)
    <2>1. Refuse(r, "run recheck", "not as approved") /\ UNCHANGED running /\ "not as approved" \in Reasons
      BY <1>2 DEF RunLive, Reasons
    <2> QED BY <1>1, <2>1, RefuseKeeps
  <1>3. CASE ~Changed(mem[r].job) /\ Going(r)
    <2>1. Go(r, "run recheck", "run on") /\ mem' = mem /\ running' = running
      BY <1>3 DEF RunLive
    <2>2. Typed /\ MemOk(r)
      BY DEF IInv
    <2>3. Others(r) /\ PlacesTyped /\ at'[r] = "run on" /\ SameCopy(r)
      BY <2>1, <2>2, GoMoves DEF Moved, SameCopy, Places
    <2>4. mem[r].name \in Names
      BY <1>1, <2>2 DEF MemOk, CopyPlaces
    <2>5. PICK n \in Names : n = mem[r].name
      BY <2>4
    <2>6. ~Caught(n, "run refuse")
      BY <1>1, <2>5 DEF IInv, OneAtATime, Caught, Held
    <2>7. swaps[jobs[n].approval] = 0
      BY <1>3, <2>5, <2>6 DEF IInv, TriesOk, Going, Current
    <2>8. swaps[mem'[r].job.approval] = 0
      BY <1>3, <2>1, <2>5, <2>7 DEF Going, Current
    <2> QED BY <1>1, <2>1, <2>3, <2>8, RunGoesOn DEF Held
  <1>4. CASE ~Changed(mem[r].job) /\ ~Going(r)
    <2>1. Leave(r, "run recheck")
      BY <1>4 DEF RunLive
    <2> QED BY <1>1, <2>1, LeaveKeeps
  <1> QED BY <1>2, <1>3, <1>4

LEMMA RunnerFailsKeeps ==
  ASSUME IInv, NEW r \in Requests, RunnerFails(r)
  PROVE  IInv'
  <1>1. UNCHANGED <<world, kept, keys, ghosts, bounds>> /\ "run on" \in Held /\ Leave(r, "run on")
    BY DEF RunnerFails, Held
  <1> QED BY <1>1, LeaveKeeps

\* Either way of a save whose change stays in memory.
LEMMA SaveFaults ==
  ASSUME Typed, SaveOrNot
  PROVE  disk' \in {disk, jobs'} /\ faults' \in 0 .. MaxFaults
  BY DEF SaveOrNot, Fault, Typed

LEMMA StoredSaved ==
  ASSUME Typed, jobs' = jobs, disk' \in {disk, jobs}
  PROVE  StoredLike
  BY LikeItself DEF StoredLike, StoredTyped, JobsLike, DiskLike, Typed

\* One job of jobs becomes a version of itself.
LEMMA StoredChanged ==
  ASSUME Typed, NEW n \in Names, jobs[n] \in Job, NEW j \in Job, Like(j, jobs[n]),
         jobs' = [jobs EXCEPT ![n] = j], disk' \in {disk, jobs'}
  PROVE  StoredLike /\ jobs'[n] = j /\ \A x \in Names \ {n} : jobs'[x] = jobs[x]
  <1>1. jobs'[n] = j /\ \A x \in Names \ {n} : jobs'[x] = jobs[x]
    BY DEF Typed
  <1>2. StoredTyped
    BY DEF Typed, StoredTyped, Optional
  <1>3. j # None /\ jobs[n] # None
    BY JobTyped
  <1>4. JobsLike
    <2>1. ASSUME NEW x \in Names
          PROVE  /\ jobs[x] = None => jobs'[x] = None
                 /\ jobs[x] # None => jobs'[x] # None /\ Like(jobs'[x], jobs[x])
      BY <1>1, <1>3, LikeItself
    <2> QED BY <2>1 DEF JobsLike
  <1>5. DiskLike
    <2>1. CASE disk' = disk
      BY <2>1, LikeItself DEF DiskLike
    <2>2. CASE disk' = jobs'
      BY <1>4, <2>2 DEF DiskLike, JobsLike
    <2> QED BY <2>1, <2>2
  <1> QED BY <1>1, <1>2, <1>4, <1>5 DEF StoredLike

LEMMA StopStores ==
  ASSUME Typed, NEW r \in Requests, NEW n \in Names, n = mem[r].name, jobs[n] # None,
         NEW why \in Reasons, StopJob(r, why), SaveOrNot
  PROVE  /\ StoredLike /\ faults' \in 0 .. MaxFaults
         /\ jobs'[n].stopped # None /\ \A x \in Names \ {n} : jobs'[x] = jobs[x]
  <1> DEFINE j == [jobs[n] EXCEPT !.stopped = why]
  <1>1. jobs[n] \in Job
    BY DEF Typed, Optional
  <1>2. j \in Job /\ j.stopped # None /\ Like(j, jobs[n])
    BY <1>1, StoppedTyped
  <1>3. jobs' = [jobs EXCEPT ![n] = j]
    BY DEF StopJob
  <1> HIDE DEF j
  <1> QED BY ZenonT(60), <1>1, <1>2, <1>3, SaveFaults, StoredChanged

LEMMA CurrentIs ==
  ASSUME NEW r \in Requests, MemOk(r), at[r] \in CopyPlaces
  PROVE  /\ mem[r].name \in Names
         /\ Current(r) <=> jobs[mem[r].name] # None /\ jobs[mem[r].name].approval = mem[r].job.approval
         /\ Going(r) <=> Current(r) /\ jobs[mem[r].name].stopped = None
  BY DEF MemOk, Current, Going

-------------------------------------------------------------------------------

\* A run ends, and the list may be saved, or not.
LEMMA LeaveSavingKeeps ==
  ASSUME NEW r \in Requests, IInv, NEW from \in Held, Leave(r, from), from # "run refuse",
         disk' \in {disk, jobs}, faults' \in 0 .. MaxFaults,
         UNCHANGED <<world, jobs, keys, ghosts, given, restarts, changes>>
  PROVE  IInv'
  <1>0. Typed /\ RunningOk /\ OneAtATime /\ TriesOk
    BY DEF IInv
  <1>1. at[r] = from /\ Others(r) /\ PlacesTyped /\ at'[r] = "idle" /\ mem'[r] = Blank
    BY <1>0, EndMoves DEF Moved, Leave
  <1>2. RunningOk' /\ OneAtATime'
    <2>1. running' = running \ {mem[r].name}
      BY DEF Leave
    <2> QED BY <1>0, <1>1, <2>1, IdleIsNowhere, HoldsLeft
  <1>3. from \notin {"allow save", "delete key", "run refuse", "carry stop"}
    BY DEF Held
  <1>4. StoredLike
    BY <1>0, StoredSaved
  <1>5. Quiet(r)
    BY <1>1, <1>3, <1>4, BlankHoldsNothing, IdleIsNowhere DEF Quiet, KeysSame
  <1>6. CountsKnown /\ CountsSame
    BY DEF CountsKnown, CountsSame
  <1>7. TriesOk'
    BY <1>0, <1>1, <1>3, <1>4, <1>6, TriesKept DEF StoredLike
  <1>8. Typed'
    BY <1>0, <1>1, <1>4 DEF Typed, PlacesTyped, StoredLike, StoredTyped
  <1> QED BY <1>1, <1>2, <1>5, <1>6, <1>7, <1>8, BlankHoldsNothing, QuietStepKeeps

LEMMA RunSkipKeeps ==
  ASSUME IInv, NEW r \in Requests, RunSkip(r)
  PROVE  IInv'
  <1>1. Leave(r, "run open") /\ disk' \in {disk, jobs} /\ "run open" \in Held
    BY DEF RunSkip, Held
  <1>2. faults' \in 0 .. MaxFaults
    <2>1. Fault /\ Typed
      BY DEF RunSkip, IInv
    <2> QED BY <2>1, FaultTyped
  <1>3. UNCHANGED <<world, jobs, keys, ghosts, given, restarts, changes>>
    BY DEF RunSkip
  <1> QED BY <1>1, <1>2, <1>3, LeaveSavingKeeps

RunCaught(r) ==
    /\ at[r] = "run on" /\ Refuse(r, "run on", "not as approved")
    /\ OneMore(swaps, swaps', mem[r].job.approval)
    /\ UNCHANGED <<world, kept, keys, running, faults, approved, guesses, undeleted, given, restarts, changes>>

\* A run caught with other code is the only one of its approval that was on.
LEMMA RunCaughtKeeps ==
  ASSUME IInv, NEW r \in Requests, RunCaught(r)
  PROVE  IInv'
  <1> DEFINE m == [mem[r] EXCEPT !.why = "not as approved"]
  <1>0. Typed /\ RunningOk /\ OneAtATime /\ MemOk(r) /\ KnownOk /\ TriesOk /\ mem[r] \in Memory
    BY DEF IInv, Typed
  <1>1. /\ "not as approved" \in Reasons /\ "not as approved" \in Optional(Reasons)
        /\ "run refuse" \in Places /\ None \in Optional(Versions)
    BY DEF Reasons, Optional, Places
  <1>2. /\ m \in Memory /\ m.why = "not as approved" /\ m.name = mem[r].name /\ m.job = mem[r].job
        /\ m.cands = mem[r].cands
    BY <1>0, <1>1, MemEdited
  <1>3. Goto(r, "run on", "run refuse", m) /\ at[r] = "run on"
    BY DEF Refuse, RunCaught
  <1> HIDE DEF m
  <1>4. Moved(r, "run refuse", m)
    BY <1>0, <1>1, <1>2, <1>3, GotoMoves
  <1>5. /\ Others(r) /\ PlacesTyped /\ SameCopy(r) /\ at'[r] = "run refuse"
        /\ mem'[r].why \in Reasons
    BY <1>1, <1>2, <1>4 DEF Moved, SameCopy
  <1>6. mem[r].name \in Names /\ mem[r].job \in Job /\ mem[r].job \in Known(mem[r].name)
    BY <1>0, <1>3, CopyIsKnown DEF CopyPlaces
  <1>7. PICK a \in Approvals : a = mem[r].job.approval
    BY <1>6, JobTyped
  <1>8. /\ swaps' \in [Approvals -> Nat] /\ swaps[a] = 0 /\ swaps'[a] = 1
        /\ \A b \in Approvals \ {a} : swaps'[b] = swaps[b]
    <2>1. swaps \in [Approvals -> Nat] /\ swaps[a] = 0
      BY <1>0, <1>3, <1>7 DEF Typed, TriesOk
    <2>2. OneMore(swaps, swaps', a)
      BY <1>7 DEF RunCaught
    <2>3. swaps' \in [Approvals -> Nat]
      BY <2>1, <2>2, Counted
    <2>4. swaps'[a] = 1
      BY <2>1, <2>2, Counted
    <2>5. \A b \in Approvals \ {a} : swaps'[b] = swaps[b]
      BY <2>1, <2>2, Counted
    <2> QED BY <2>1, <2>3, <2>4, <2>5
  <1>9. RunningOk' /\ OneAtATime'
    <2>1. mem'[r].name = mem[r].name /\ at'[r] \in Held /\ at[r] \in Held /\ at'[r] \notin Carrying
          /\ running' = running
      BY <1>3, <1>5 DEF RunCaught, SameCopy, Held, Carrying
    <2> QED BY <1>0, <1>5, <2>1, HoldsKept
  <1>10. MemOk(r)'
    BY <1>0, <1>5, <1>6 DEF SameCopy, MemOk, PendingPlaces, Carrying
  <1>11. Quiet(r)
    <2>1. StoredLike
      BY <1>0, StoredSame DEF RunCaught
    <2>2. CopiesKnown(r)
      BY <1>0, <1>3, <1>5, SameCopyIsKnown DEF CopyPlaces
    <2> QED BY <1>3, <1>5, <2>1, <2>2 DEF Quiet, KeysSame, PendingPlaces, RunCaught
  <1>12. CountsKnown
    BY <1>6, <1>7, <1>8 DEF CountsKnown, RunCaught
  <1>13. Typed'
    BY <1>0, <1>5, <1>8 DEF Typed, PlacesTyped, RunCaught
  <1>14. TriesOk'
    <2>1. OneTryPerApproval'
      <3>1. ASSUME NEW b \in Approvals PROVE swaps'[b] <= 1 /\ guesses'[b] <= 1
        <4>1. swaps[b] <= 1 /\ guesses[b] <= 1 /\ guesses' = guesses
          BY <1>0 DEF TriesOk, OneTryPerApproval, RunCaught
        <4>2. CASE b = a
          <5>1. swaps'[b] = 1
            BY <1>8, <4>2
          <5>2. swaps'[b] <= 1
            BY <5>1
          <5> QED BY <4>1, <5>2
        <4>3. CASE b # a
          <5>1. swaps'[b] = swaps[b]
            BY <1>8, <4>3
          <5> QED BY <4>1, <5>1
        <4> QED BY <4>2, <4>3
      <3> QED BY <3>1 DEF OneTryPerApproval
    <2>2. ASSUME NEW q \in Requests
          PROVE  /\ at'[q] = "run on" => swaps'[mem'[q].job.approval] = 0
                 /\ at'[q] = "carry open" => guesses'[mem'[q].job.approval] = 0
      <3>1. CASE q = r
        BY <1>5, <3>1
      <3>2. CASE q # r
        <4>1. at'[q] = at[q] /\ mem'[q] = mem[q] /\ MemOk(q)
          BY <1>5, <3>2 DEF Others, IInv
        <4>2. ASSUME at[q] = "run on" PROVE swaps'[mem[q].job.approval] = 0
          <5>1. mem[q].name \in Names /\ mem[q].job \in Job /\ mem[q].job \in Known(mem[q].name)
            BY <4>1, <4>2, CopyIsKnown DEF CopyPlaces
          <5>2. mem[q].name # mem[r].name
            BY <1>0, <1>3, <3>2, <4>2 DEF OneAtATime, Held
          <5>3. mem[q].job.approval # a
            BY <1>0, <1>6, <1>7, <5>1, <5>2 DEF KnownOk
          <5>4. mem[q].job.approval \in Approvals /\ swaps[mem[q].job.approval] = 0
            BY <1>0, <4>2, <5>1, JobTyped DEF TriesOk
          <5> QED BY <1>8, <5>3, <5>4
        <4>3. at[q] = "carry open" => guesses[mem[q].job.approval] = 0
          BY <1>0 DEF TriesOk, RunCaught
        <4>4. guesses' = guesses
          BY DEF RunCaught
        <4> QED BY <4>1, <4>2, <4>3, <4>4
      <3> QED BY <3>1, <3>2
    <2>3. ASSUME NEW n \in Names, jobs'[n] # None, jobs'[n].stopped = None
          PROVE  /\ swaps'[jobs'[n].approval] # 0 => Caught(n, "run refuse")'
                 /\ guesses'[jobs'[n].approval] # 0 => Caught(n, "carry stop")'
      <3>1. jobs' = jobs /\ jobs[n] # None /\ jobs[n].stopped = None /\ guesses' = guesses
        BY <2>3 DEF RunCaught
      <3>2. jobs[n] \in Known(n) /\ jobs[n] \in Job /\ jobs[n].approval \in Approvals
        BY <1>0, <3>1, StoredIsKnown, KnownTyped, JobTyped
      <3>3. /\ swaps[jobs[n].approval] # 0 => Caught(n, "run refuse")
            /\ guesses[jobs[n].approval] # 0 => Caught(n, "carry stop")
        BY <1>0, <3>1 DEF TriesOk
      <3>4. ASSUME NEW place \in {"run refuse", "carry stop"}, Caught(n, place) PROVE Caught(n, place)'
        <4>1. PICK q \in Requests : at[q] = place /\ mem[q].name = n /\ mem[q].job.approval = jobs[n].approval
          BY <3>4 DEF Caught
        <4>2. at'[q] = at[q] /\ mem'[q] = mem[q]
          BY <1>3, <1>5, <4>1 DEF Others
        <4> QED BY <3>1, <4>1, <4>2 DEF Caught
      <3>5. CASE jobs[n].approval = a
        <4>1. n = mem[r].name
          <5>1. jobs[n].approval = mem[r].job.approval /\ KnownOk
            BY <1>0, <1>7, <3>5
          <5> QED BY <1>6, <3>2, <5>1, OneName
        <4>2. Caught(n, "run refuse")'
          BY <1>5, <1>7, <3>1, <3>5, <4>1 DEF Caught, SameCopy
        <4> QED BY <3>1, <3>3, <3>4, <4>2
      <3>6. CASE jobs[n].approval # a
        BY <1>8, <3>1, <3>2, <3>3, <3>4, <3>6
      <3> QED BY <3>5, <3>6
    <2> QED BY <2>1, <2>2, <2>3 DEF TriesOk
  <1> QED BY <1>9, <1>10, <1>11, <1>12, <1>13, <1>14, QuietStepKeeps

LEMMA RunEndKeeps ==
  ASSUME IInv, NEW r \in Requests, RunEnd(r)
  PROVE  IInv'
  <1>1. at[r] = "run on" /\ "run on" \in Held
    BY DEF RunEnd, Held
  <1>2. CASE Changed(mem[r].job)
    BY <1>1, <1>2, RunCaughtKeeps DEF RunEnd, RunCaught, OneMore
  <1>3. CASE ~Changed(mem[r].job)
    <2>1. Leave(r, "run on") /\ disk' \in {disk, jobs}
      BY <1>3 DEF RunEnd
    <2>2. faults' \in 0 .. MaxFaults
      <3>1. Typed /\ (Fault \/ faults' = faults)
        BY <1>3 DEF RunEnd, IInv
      <3>2. Typed /\ faults' = faults => faults' \in 0 .. MaxFaults
        BY DEF Typed
      <3> QED BY <3>1, <3>2, FaultTyped
    <2>3. UNCHANGED <<world, jobs, keys, ghosts, given, restarts, changes>>
      BY <1>3 DEF RunEnd
    <2> QED BY <1>1, <2>1, <2>2, <2>3, LeaveSavingKeeps
  <1> QED BY <1>2, <1>3

\* The caught run stops the job, if it is still the one it ran.
LEMMA RunRefuseKeeps ==
  ASSUME IInv, NEW r \in Requests, RunRefuse(r)
  PROVE  IInv' /\ StoredLike
  <1>0. Typed /\ RunningOk /\ OneAtATime /\ MemOk(r) /\ TriesOk
    BY DEF IInv
  <1>1. at[r] = "run refuse" /\ Others(r) /\ PlacesTyped /\ at'[r] = "idle" /\ mem'[r] = Blank
    BY <1>0, EndMoves DEF Moved, Leave, RunRefuse
  <1>2. RunningOk' /\ OneAtATime'
    <2>1. running' = running \ {mem[r].name} /\ at[r] \in Held
      BY <1>1 DEF Leave, RunRefuse, Held
    <2> QED BY <1>0, <1>1, <2>1, IdleIsNowhere, HoldsLeft
  <1>3. mem[r].why \in Reasons
    BY <1>0, <1>1 DEF MemOk
  <1>4. PICK n \in Names : n = mem[r].name
    BY <1>0, <1>1, CurrentIs DEF CopyPlaces
  <1>5. Current(r) <=> jobs[n] # None /\ jobs[n].approval = mem[r].job.approval
    BY <1>4 DEF Current
  <1>6. /\ StoredLike /\ faults' \in 0 .. MaxFaults
        /\ jobs[n] # None /\ jobs[n].approval = mem[r].job.approval => jobs'[n].stopped # None
    <2>1. CASE Current(r)
      <3>1. StopJob(r, mem[r].why) /\ SaveOrNot
        BY <2>1 DEF RunRefuse
      <3> QED BY <1>0, <1>3, <1>4, <1>5, <2>1, <3>1, StopStores
    <2>2. CASE ~Current(r)
      <3>1. UNCHANGED kept /\ faults' = faults
        BY <2>2 DEF RunRefuse
      <3>2. faults' \in 0 .. MaxFaults
        BY <1>0, <3>1 DEF Typed
      <3> QED BY <1>0, <1>5, <2>2, <3>1, <3>2, StoredSame
    <2> QED BY <2>1, <2>2
  <1>7. KeysSame /\ CountsSame /\ CountsKnown
    BY DEF RunRefuse, KeysSame, CountsSame, CountsKnown
  <1>8. Quiet(r)
    BY <1>1, <1>6, <1>7, BlankHoldsNothing, IdleIsNowhere DEF Quiet
  <1>9. TriesOk'
    <2>1. ASSUME NEW x \in Names, jobs'[x] # None, jobs'[x].stopped = None
          PROVE  ~(mem[r].name = x /\ mem[r].job.approval = jobs[x].approval)
      <3>1. jobs[x] # None
        BY <1>6, <2>1 DEF StoredLike, JobsLike
      <3> QED BY <1>4, <1>6, <2>1, <3>1
    <2> QED BY <1>0, <1>1, <1>6, <1>7, <2>1, TriesKept DEF StoredLike
  <1>10. Typed'
    <2>1. UNCHANGED <<world, keys, ghosts, given, restarts, changes>>
      BY DEF RunRefuse
    <2> QED BY <1>0, <1>1, <1>6, <2>1 DEF Typed, PlacesTyped, StoredLike, StoredTyped
  <1> QED BY <1>1, <1>2, <1>6, <1>7, <1>8, <1>9, <1>10, BlankHoldsNothing, QuietStepKeeps

-------------------------------------------------------------------------------
(* job_carry                                                               *)

LEMMA CarryHolds ==
  ASSUME NEW r \in Requests, RunningOk, OneAtATime, Others(r), running' = running,
         at[r] \in Carrying, at'[r] \in Carrying
  PROVE  RunningOk' /\ OneAtATime'
  <1>1. at[r] \notin Held /\ at'[r] \notin Held
    BY DEF Carrying, Held
  <1> QED BY <1>1, HoldsKept

\* A carry goes on, and nothing else changes.
LEMMA CarryGoesOn ==
  ASSUME NEW r \in Requests, IInv, Others(r), PlacesTyped, CopiesKnown(r), MemOk(r)',
         UNCHANGED <<world, kept, keys, running, ghosts, bounds>>,
         at[r] \in Carrying, at[r] # "carry stop", at'[r] \in Carrying,
         at'[r] = "carry open" => guesses[mem'[r].job.approval] = 0
  PROVE  IInv'
  <1>1. RunningOk' /\ OneAtATime'
    BY CarryHolds DEF IInv
  <1>2. /\ at[r] \notin {"allow save", "delete key", "run refuse", "carry stop"}
        /\ at'[r] \notin PendingPlaces /\ at'[r] # "delete key" /\ at'[r] # "run on"
    BY DEF Carrying, PendingPlaces
  <1> QED BY <1>1, <1>2, MoveKeeps

LEMMA CarryStartKeeps ==
  ASSUME IInv, NEW r \in Requests, CarryStart(r)
  PROVE  IInv'
  <1> DEFINE c == [n \in Names |-> IF jobs[n] # None /\ HasSecret(jobs[n]) THEN jobs[n] ELSE None]
             m == [Blank EXCEPT !.cands = c, !.value = setting]
  <1>0. Typed /\ RunningOk /\ OneAtATime /\ setting \in Versions
    BY DEF IInv, Typed, CarryStart, Optional
  <1>1. c \in [Names -> Optional(Job)] /\ \A n \in Names : c[n] # None => c[n] = jobs[n]
    BY <1>0 DEF Typed, Optional
  <1>2. Goto(r, "idle", "carry next", m)
    BY DEF CarryStart
  <1> HIDE DEF c
  <1>3. m \in Memory /\ m.cands = c /\ m.value = setting
    BY <1>0, <1>1, BlankTyped DEF Memory, Optional, Blank
  <1> HIDE DEF m
  <1>4. "carry next" \in Places
    BY DEF Places
  <1>5. at[r] = "idle" /\ Moved(r, "carry next", m)
    BY <1>0, <1>2, <1>3, <1>4, GotoMoves
  <1>6. Others(r) /\ PlacesTyped /\ at'[r] = "carry next" /\ mem'[r] = m
    BY <1>5 DEF Moved
  <1>7. RunningOk' /\ OneAtATime'
    <2>1. running' = running /\ \A q \in Requests : at[q] \notin Carrying
      BY DEF CarryStart
    <2> QED BY <1>0, <1>5, <1>6, <2>1, HoldsCarry DEF Held
  <1>8. CopiesKnown(r)
    BY <1>1, <1>3, <1>6, StoredIsKnown DEF CopiesKnown, CopyPlaces
  <1>9. MemOk(r)'
    BY <1>0, <1>3, <1>6 DEF MemOk, CopyPlaces, PendingPlaces
  <1>10. UNCHANGED <<world, kept, keys, ghosts, bounds>>
    BY DEF CarryStart
  <1> QED BY <1>5, <1>6, <1>7, <1>8, <1>9, <1>10, MoveKeeps DEF PendingPlaces

\* The answer for one job: the carry goes to the next, with no copy of its own.
LEMMA AnswerMoves ==
  ASSUME NEW r \in Requests, Typed, MemOk(r), NEW from \in Carrying, Answer(r, from)
  PROVE  /\ at[r] = from /\ Others(r) /\ PlacesTyped /\ at'[r] = "carry next"
         /\ CopiesKnown(r) /\ MemOk(r)'
  <1> DEFINE m == [mem[r] EXCEPT !.name = None, !.job = None]
  <1>1. mem[r] \in Memory
    BY DEF Typed
  <1>2. m \in Memory /\ m.cands = mem[r].cands /\ m.value = mem[r].value
    BY <1>1 DEF Memory, Optional
  <1>3. Goto(r, from, "carry next", m)
    BY DEF Answer
  <1> HIDE DEF m
  <1>4. "carry next" \in Places
    BY DEF Places
  <1>5. at[r] = from /\ Moved(r, "carry next", m)
    BY <1>2, <1>3, <1>4, GotoMoves
  <1>6. Others(r) /\ PlacesTyped /\ at'[r] = "carry next" /\ mem'[r] = m
    BY <1>5 DEF Moved
  <1>7. CopiesKnown(r)
    BY <1>2, <1>6, CandIsKnown DEF CopiesKnown, CopyPlaces
  <1>8. mem[r].value \in Versions
    BY <1>5 DEF MemOk
  <1>9. MemOk(r)'
    BY <1>2, <1>6, <1>8 DEF MemOk, CopyPlaces, PendingPlaces
  <1> QED BY <1>5, <1>6, <1>7, <1>9

\* The copy whose value is compared is of a job nobody guessed at: who did
\* is the carry that stops it.
LEMMA CarryNextKeeps ==
  ASSUME IInv, NEW r \in Requests, NEW n \in Names, CarryNext(r, n)
  PROVE  IInv'
  <1> DEFINE j == mem[r].cands[n]
             c == [mem[r].cands EXCEPT ![n] = None]
  <1>0. Typed /\ mem[r] \in Memory /\ MemOk(r) /\ at[r] = "carry next" /\ j # None
    BY DEF IInv, Typed, CarryNext
  <1>1. mem[r].value \in Versions
    BY <1>0 DEF MemOk, Carrying
  <1>2. /\ mem[r].cands \in [Names -> Optional(Job)] /\ j \in Job /\ j \in Known(n)
        /\ None \in Optional(Job) /\ n \in Optional(Names) /\ j \in Optional(Job)
    BY ZenonT(60), <1>0, MemoryTyped, CandIsKnown DEF Optional
  <1>3. c \in [Names -> Optional(Job)] /\ \A x \in Names : c[x] # None => c[x] = mem[r].cands[x]
    BY <1>2
  <1> DEFINE m1 == [mem[r] EXCEPT !.cands = c]
             m2 == [mem[r] EXCEPT !.cands = c, !.name = n, !.job = j]
  <1> HIDE DEF c, j
  <1>4. /\ m1 \in Memory /\ m1.cands = c /\ m1.value = mem[r].value
        /\ m2 \in Memory /\ m2.cands = c /\ m2.value = mem[r].value /\ m2.name = n /\ m2.job = j
    BY <1>0, <1>2, <1>3 DEF Memory
  <1>5. \/ Goto(r, "carry next", "carry next", m1)
        \/ Goto(r, "carry next", "carry stop", m2)
        \/ /\ Goto(r, "carry next", "carry open", m2)
           /\ jobs[n] # None /\ jobs[n].approval = j.approval /\ jobs[n].stopped = None
    <2>1. /\ m1 = [mem[r] EXCEPT !.cands[n] = None]
          /\ m2 = [mem[r] EXCEPT !.cands[n] = None, !.name = n, !.job = j]
      BY <1>0 DEF c, Memory
    <2> HIDE DEF m1, m2
    <2> QED BY <2>1 DEF CarryNext, j
  <1> HIDE DEF m1, m2
  <1>6. {"carry next", "carry stop", "carry open"} \subseteq Places
    BY DEF Places
  <1>7. /\ Others(r) /\ PlacesTyped
        /\ \/ at'[r] = "carry next" /\ mem'[r] = m1
           \/ at'[r] = "carry stop" /\ mem'[r] = m2
           \/ /\ at'[r] = "carry open" /\ mem'[r] = m2
              /\ jobs[n] # None /\ jobs[n].approval = j.approval /\ jobs[n].stopped = None
    <2>1. CASE Goto(r, "carry next", "carry next", m1)
      <3>1. Moved(r, "carry next", m1)
        BY <1>0, <1>4, <1>6, <2>1, GotoMoves
      <3> QED BY <3>1 DEF Moved
    <2>2. CASE Goto(r, "carry next", "carry stop", m2)
      <3>1. Moved(r, "carry stop", m2)
        BY <1>0, <1>4, <1>6, <2>2, GotoMoves
      <3> QED BY <3>1 DEF Moved
    <2>3. CASE /\ Goto(r, "carry next", "carry open", m2)
               /\ jobs[n] # None /\ jobs[n].approval = j.approval /\ jobs[n].stopped = None
      <3>1. Moved(r, "carry open", m2)
        BY <1>0, <1>4, <1>6, <2>3, GotoMoves
      <3> QED BY <2>3, <3>1 DEF Moved
    <2> QED BY <1>5, <2>1, <2>2, <2>3
  <1>8. CopiesKnown(r)
    <2>1. \A x \in Names : mem'[r].cands[x] # None => mem'[r].cands[x] \in Known(x)
      BY ZenonT(60), <1>3, <1>4, <1>7, CandIsKnown
    <2>2. at'[r] \in CopyPlaces => mem'[r].job \in Known(mem'[r].name)
      BY <1>2, <1>4, <1>7 DEF CopyPlaces, j
    <2> QED BY <2>1, <2>2 DEF CopiesKnown
  <1>9. MemOk(r)'
    <2>1. j \in Job
      BY <1>2 DEF j
    <2> QED BY <1>1, <1>4, <1>7, <2>1 DEF MemOk, CopyPlaces, PendingPlaces, Carrying
  <1>10. at'[r] = "carry open" => guesses[mem'[r].job.approval] = 0
    <2>1. ~Caught(n, "carry stop")
      BY <1>0 DEF IInv, OneAtATime, Caught, Carrying
    <2>2. jobs[n] # None /\ jobs[n].stopped = None => guesses[jobs[n].approval] = 0
      BY <2>1 DEF IInv, TriesOk
    <2> QED BY <1>4, <1>7, <2>2
  <1>11. UNCHANGED <<world, kept, keys, running, ghosts, bounds>>
    BY DEF CarryNext
  <1> QED BY <1>0, <1>7, <1>8, <1>9, <1>10, <1>11, CarryGoesOn DEF Carrying

LEMMA CarryAnswerKeeps ==
  ASSUME IInv, NEW r \in Requests, NEW from \in Carrying, from # "carry stop", Answer(r, from),
         UNCHANGED <<world, kept, keys, running, ghosts, bounds>>
  PROVE  IInv'
  <1>1. Typed /\ MemOk(r)
    BY DEF IInv
  <1>2. /\ at[r] = from /\ Others(r) /\ PlacesTyped /\ at'[r] = "carry next"
        /\ CopiesKnown(r) /\ MemOk(r)'
    BY <1>1, AnswerMoves
  <1> QED BY <1>2, CarryGoesOn DEF Carrying

LEMMA CarryCannotOpenKeeps ==
  ASSUME IInv, NEW r \in Requests, CarryCannotOpen(r)
  PROVE  IInv'
  BY CarryAnswerKeeps DEF CarryCannotOpen, Carrying

LEMMA CarryCheckKeeps ==
  ASSUME IInv, NEW r \in Requests, CarryCheck(r)
  PROVE  IInv'
  <1>0. at[r] = "carry check" /\ UNCHANGED <<world, kept, keys, running, ghosts, bounds>>
    BY DEF CarryCheck
  <1>1. CASE folder = mem[r].job.code /\ setting = mem[r].value
    <2>1. Go(r, "carry check", "carry store") /\ mem' = mem
      BY <1>1 DEF CarryCheck
    <2>2. Typed /\ MemOk(r)
      BY DEF IInv
    <2>3. Others(r) /\ PlacesTyped /\ at'[r] = "carry store" /\ mem'[r] = mem[r]
      BY <2>1, <2>2, GoMoves DEF Moved, Places
    <2>4. CopiesKnown(r)
      BY <1>0, <2>2, <2>3, SameCopyIsKnown DEF SameCopy, CopyPlaces
    <2>5. MemOk(r)'
      BY <1>0, <2>2, <2>3 DEF MemOk, CopyPlaces, PendingPlaces, Carrying
    <2> QED BY <1>0, <2>3, <2>4, <2>5, CarryGoesOn DEF Carrying
  <1>2. CASE ~(folder = mem[r].job.code /\ setting = mem[r].value)
    <2>1. Answer(r, "carry check")
      BY <1>2 DEF CarryCheck
    <2> QED BY <1>0, <2>1, CarryAnswerKeeps DEF Carrying
  <1> QED BY <1>1, <1>2

LEMMA CarryEndKeeps ==
  ASSUME IInv, NEW r \in Requests, CarryEnd(r)
  PROVE  IInv'
  BY EndsKeeps DEF CarryEnd, Held

CarryGuess(r) ==
    /\ at[r] = "carry open" /\ at'[r] = "carry stop"
    /\ OneMore(guesses, guesses', mem[r].job.approval)
    /\ UNCHANGED <<world, kept, keys, running, approved, swaps, undeleted, bounds>>

\* A mismatch is the first of its approval: only this carry had its copy open.
LEMMA CarryGuessKeeps ==
  ASSUME IInv, NEW r \in Requests, CarryGuess(r), Others(r), PlacesTyped, SameCopy(r), MemOk(r)'
  PROVE  IInv'
  <1>0. Typed /\ RunningOk /\ OneAtATime /\ MemOk(r) /\ KnownOk /\ TriesOk
    BY DEF IInv
  <1>1. at[r] = "carry open" /\ at'[r] = "carry stop"
    BY DEF CarryGuess
  <1>2. mem[r].name \in Names /\ mem[r].job \in Job /\ mem[r].job \in Known(mem[r].name)
    BY <1>0, <1>1, CopyIsKnown DEF CopyPlaces
  <1>3. PICK a \in Approvals : a = mem[r].job.approval
    BY <1>2, JobTyped
  <1>4. /\ guesses' \in [Approvals -> Nat] /\ guesses[a] = 0 /\ guesses'[a] = 1
        /\ \A b \in Approvals \ {a} : guesses'[b] = guesses[b]
    <2>1. guesses \in [Approvals -> Nat] /\ guesses[a] = 0
      BY <1>0, <1>1, <1>3 DEF Typed, TriesOk
    <2>2. OneMore(guesses, guesses', a)
      BY <1>3 DEF CarryGuess
    <2>3. guesses' \in [Approvals -> Nat]
      BY <2>1, <2>2, Counted
    <2>4. guesses'[a] = 1
      BY <2>1, <2>2, Counted
    <2>5. \A b \in Approvals \ {a} : guesses'[b] = guesses[b]
      BY <2>1, <2>2, Counted
    <2> QED BY <2>1, <2>3, <2>4, <2>5
  <1>5. RunningOk' /\ OneAtATime'
    BY <1>0, <1>1, CarryHolds DEF CarryGuess, Carrying
  <1>6. Quiet(r)
    <2>1. StoredLike
      BY <1>0, StoredSame DEF CarryGuess
    <2>2. CopiesKnown(r)
      BY <1>0, <1>1, SameCopyIsKnown DEF CopyPlaces
    <2> QED BY <1>1, <2>1, <2>2 DEF Quiet, KeysSame, PendingPlaces, CarryGuess
  <1>7. CountsKnown
    BY <1>2, <1>3, <1>4 DEF CountsKnown, CarryGuess
  <1>8. Typed'
    BY <1>0, <1>4 DEF Typed, PlacesTyped, CarryGuess
  <1>9. swaps' = swaps /\ jobs' = jobs
    BY DEF CarryGuess
  <1>10. TriesOk'
    <2>1. OneTryPerApproval'
      <3>1. ASSUME NEW b \in Approvals PROVE swaps'[b] <= 1 /\ guesses'[b] <= 1
        <4>1. swaps'[b] <= 1 /\ guesses[b] <= 1
          BY <1>0, <1>9 DEF TriesOk, OneTryPerApproval
        <4>2. CASE b = a
          <5>1. guesses'[b] = 1
            BY <1>4, <4>2
          <5>2. guesses'[b] <= 1
            BY <5>1
          <5> QED BY <4>1, <5>2
        <4>3. CASE b # a
          <5>1. guesses'[b] = guesses[b]
            BY <1>4, <4>3
          <5> QED BY <4>1, <5>1
        <4> QED BY <4>2, <4>3
      <3> QED BY <3>1 DEF OneTryPerApproval
    <2>2. ASSUME NEW q \in Requests
          PROVE  /\ at'[q] = "run on" => swaps'[mem'[q].job.approval] = 0
                 /\ at'[q] = "carry open" => guesses'[mem'[q].job.approval] = 0
      <3>1. CASE q = r
        BY <1>1, <3>1
      <3>2. CASE q # r
        <4>1. at'[q] = at[q] /\ mem'[q] = mem[q]
          BY <3>2 DEF Others
        <4>2. at[q] # "carry open"
          BY <1>0, <1>1, <3>2 DEF OneAtATime, Carrying
        <4> QED BY <1>0, <1>9, <4>1, <4>2 DEF TriesOk
      <3> QED BY <3>1, <3>2
    <2>3. ASSUME NEW n \in Names, jobs'[n] # None, jobs'[n].stopped = None
          PROVE  /\ swaps'[jobs'[n].approval] # 0 => Caught(n, "run refuse")'
                 /\ guesses'[jobs'[n].approval] # 0 => Caught(n, "carry stop")'
      <3>1. jobs[n] # None /\ jobs[n].stopped = None
        BY <1>9, <2>3
      <3>2. jobs[n] \in Known(n) /\ jobs[n] \in Job /\ jobs[n].approval \in Approvals
        BY <1>0, <3>1, StoredIsKnown, KnownTyped, JobTyped
      <3>3. /\ swaps[jobs[n].approval] # 0 => Caught(n, "run refuse")
            /\ guesses[jobs[n].approval] # 0 => Caught(n, "carry stop")
        BY <1>0, <3>1 DEF TriesOk
      <3>4. ASSUME NEW place \in {"run refuse", "carry stop"}, Caught(n, place) PROVE Caught(n, place)'
        <4>1. PICK q \in Requests : at[q] = place /\ mem[q].name = n /\ mem[q].job.approval = jobs[n].approval
          BY <3>4 DEF Caught
        <4>2. at'[q] = at[q] /\ mem'[q] = mem[q]
          BY <1>1, <4>1 DEF Others
        <4> QED BY <1>9, <4>1, <4>2 DEF Caught
      <3>5. CASE jobs[n].approval = a
        <4>1. n = mem[r].name
          <5>1. jobs[n].approval = mem[r].job.approval /\ KnownOk
            BY <1>0, <1>3, <3>5
          <5> QED BY <1>2, <3>2, <5>1, OneName
        <4>2. Caught(n, "carry stop")'
          BY <1>1, <1>3, <1>9, <3>5, <4>1 DEF Caught, SameCopy
        <4> QED BY <1>9, <3>3, <3>4, <4>2
      <3>6. CASE jobs[n].approval # a
        BY <1>4, <1>9, <3>2, <3>3, <3>4, <3>6
      <3> QED BY <3>5, <3>6
    <2> QED BY <2>1, <2>2, <2>3 DEF TriesOk
  <1> QED BY <1>5, <1>6, <1>7, <1>8, <1>10, QuietStepKeeps

LEMMA CarryCompareKeeps ==
  ASSUME IInv, NEW r \in Requests, CarryCompare(r)
  PROVE  IInv'
  <1> DEFINE same == mem[r].value = mem[r].job.secret
             why == IF same THEN None ELSE "not as approved"
             to == IF same THEN "carry check" ELSE "carry stop"
             m == [mem[r] EXCEPT !.why = why]
  <1>0. Typed /\ mem[r] \in Memory /\ MemOk(r) /\ at[r] = "carry open"
    BY DEF IInv, Typed, CarryCompare
  <1>1. why \in Optional(Reasons) /\ to \in Places /\ None \in Optional(Versions)
    BY DEF Optional, Reasons, Places
  <1>2. Goto(r, "carry open", to, m)
    BY DEF CarryCompare
  <1> HIDE DEF why
  <1>3. /\ m \in Memory /\ m.name = mem[r].name /\ m.job = mem[r].job
        /\ m.cands = mem[r].cands /\ m.value = mem[r].value
    BY <1>0, <1>1, MemEdited
  <1> HIDE DEF m, to
  <1>4. Moved(r, to, m)
    BY <1>0, <1>1, <1>2, <1>3, GotoMoves
  <1>5. Others(r) /\ PlacesTyped /\ SameCopy(r) /\ at'[r] = to /\ mem'[r] = m
    BY <1>3, <1>4 DEF Moved, SameCopy
  <1>6. mem[r].name \in Names /\ mem[r].job \in Job /\ mem[r].value \in Versions
    BY <1>0 DEF MemOk, CopyPlaces, Carrying
  <1>7. MemOk(r)'
    BY <1>3, <1>5, <1>6 DEF MemOk, CopyPlaces, PendingPlaces, Carrying, to
  <1>8. CASE same
    <2>1. to = "carry check"
      BY <1>8 DEF to
    <2>2. UNCHANGED <<world, kept, keys, running, ghosts, bounds>>
      BY <1>8 DEF CarryCompare
    <2>3. CopiesKnown(r)
      BY <1>0, <1>5, SameCopyIsKnown DEF CopyPlaces
    <2> QED BY <1>0, <1>5, <1>7, <2>1, <2>2, <2>3, CarryGoesOn DEF Carrying
  <1>9. CASE ~same
    <2>1. to = "carry stop"
      BY <1>9 DEF to
    <2>2. CarryGuess(r)
      BY <1>0, <1>5, <1>9, <2>1 DEF CarryCompare, CarryGuess, OneMore
    <2> QED BY <1>5, <1>7, <2>2, CarryGuessKeeps
  <1> QED BY <1>8, <1>9

\* A step that answers a carry and changes jobs, disk and faults at most.
LEMMA CarryStoredKeeps ==
  ASSUME IInv, NEW r \in Requests, NEW from \in Carrying, Answer(r, from), StoredLike,
         faults' \in 0 .. MaxFaults,
         \A n \in Names : jobs'[n] # None /\ jobs'[n].stopped = None =>
             ~(from = "carry stop" /\ mem[r].name = n /\ mem[r].job.approval = jobs[n].approval),
         UNCHANGED <<world, keys, running, ghosts, given, restarts, changes>>
  PROVE  IInv'
  <1>0. Typed /\ RunningOk /\ OneAtATime /\ MemOk(r) /\ TriesOk
    BY DEF IInv
  <1>1. /\ at[r] = from /\ Others(r) /\ PlacesTyped /\ at'[r] = "carry next"
        /\ CopiesKnown(r) /\ MemOk(r)'
    BY <1>0, AnswerMoves
  <1>2. RunningOk' /\ OneAtATime'
    BY <1>0, <1>1, CarryHolds DEF Carrying
  <1>3. Quiet(r)
    BY <1>1 DEF Quiet, KeysSame, Carrying, PendingPlaces
  <1>4. CountsSame /\ CountsKnown
    BY DEF CountsSame, CountsKnown
  <1>5. Typed'
    BY <1>0, <1>1 DEF Typed, PlacesTyped, StoredLike, StoredTyped
  <1>6. TriesOk'
    <2>1. at[r] # "run refuse"
      BY <1>1 DEF Carrying
    <2> QED BY <1>0, <1>1, <1>4, <2>1, TriesKept DEF StoredLike
  <1> QED BY <1>1, <1>2, <1>3, <1>4, <1>5, <1>6, QuietStepKeeps

\* The carry that guessed stops the job, if it is still the one it compared.
LEMMA CarryStopKeeps ==
  ASSUME IInv, NEW r \in Requests, CarryStop(r)
  PROVE  IInv' /\ StoredLike
  <1>0. Typed /\ MemOk(r) /\ at[r] = "carry stop" /\ "carry stop" \in Carrying
    BY DEF IInv, CarryStop, Answer, Goto, Go, Carrying
  <1>1. Answer(r, "carry stop") /\ UNCHANGED <<world, keys, running, ghosts, given, restarts, changes>>
    BY DEF CarryStop
  <1>2. PICK n \in Names : n = mem[r].name
    BY <1>0, CurrentIs DEF CopyPlaces
  <1>3. Going(r) <=> /\ jobs[n] # None /\ jobs[n].approval = mem[r].job.approval
                     /\ jobs[n].stopped = None
    BY <1>2 DEF Current, Going
  <1>4. /\ StoredLike /\ faults' \in 0 .. MaxFaults
        /\ jobs[n] # None /\ jobs[n].approval = mem[r].job.approval => jobs'[n].stopped # None
    <2>1. CASE Going(r)
      <3>1. StopJob(r, "not as approved") /\ SaveOrNot /\ "not as approved" \in Reasons
        BY <2>1 DEF CarryStop, Reasons
      <3> QED BY <1>0, <1>2, <1>3, <2>1, <3>1, StopStores
    <2>2. CASE ~Going(r)
      <3>1. UNCHANGED kept /\ faults' = faults
        BY <2>2 DEF CarryStop
      <3>2. faults' \in 0 .. MaxFaults
        BY <1>0, <3>1 DEF Typed
      <3> QED BY <1>0, <1>3, <2>2, <3>1, <3>2, StoredSame
    <2> QED BY <2>1, <2>2
  <1>5. ASSUME NEW x \in Names, jobs'[x] # None, jobs'[x].stopped = None
        PROVE  ~(mem[r].name = x /\ mem[r].job.approval = jobs[x].approval)
    <2>1. jobs[x] # None
      BY <1>4, <1>5 DEF StoredLike, JobsLike
    <2> QED BY <1>2, <1>4, <1>5, <2>1
  <1> QED BY <1>0, <1>1, <1>4, <1>5, CarryStoredKeeps

\* The setting's value, which is the one approved, goes into the stored job.
LEMMA CarryStoreKeeps ==
  ASSUME IInv, NEW r \in Requests, CarryStore(r)
  PROVE  IInv' /\ StoredLike
  <1>0. Typed /\ MemOk(r) /\ KnownOk /\ at[r] = "carry store" /\ "carry store" \in Carrying
    BY DEF IInv, CarryStore, Answer, Goto, Go, Carrying
  <1>1. Answer(r, "carry store") /\ UNCHANGED <<world, keys, running, ghosts, given, restarts, changes>>
    BY DEF CarryStore
  <1>2. mem[r].name \in Names /\ mem[r].job \in Job /\ mem[r].job \in Known(mem[r].name)
    BY <1>0, CopyIsKnown DEF CopyPlaces
  <1>3. PICK n \in Names : n = mem[r].name
    BY <1>2
  <1>4. mem[r].value \in Versions /\ mem[r].value = mem[r].job.secret
    BY <1>0 DEF MemOk, Carrying
  <1>5. StoredLike /\ faults' \in 0 .. MaxFaults
    <2>1. CASE /\ Going(r)
               /\ \E saved \in Flags :
                    SaveOrRollBack([jobs EXCEPT ![mem[r].name].carried = mem[r].value], saved)
      <3> DEFINE j == [jobs[n] EXCEPT !.carried = mem[r].value]
      <3>1. jobs[n] # None /\ jobs[n].approval = mem[r].job.approval
        BY <1>3, <2>1 DEF Going, Current
      <3>2. jobs[n] \in Job /\ jobs[n] \in Known(n)
        BY <1>0, <3>1, StoredIsKnown, KnownTyped
      <3>3. mem[r].value = jobs[n].secret
        <4>1. jobs[n].secret = approved[jobs[n].approval].value
          BY <1>0, <3>2 DEF KnownOk, AsShown
        <4>2. mem[r].job.secret = approved[mem[r].job.approval].value
          BY <1>0, <1>2 DEF KnownOk, AsShown
        <4> QED BY <1>4, <3>1, <4>1, <4>2
      <3>4. j \in Job /\ Like(j, jobs[n])
        BY <1>4, <3>2, <3>3, CarriedTyped
      <3>5. PICK saved \in Flags : SaveOrRollBack([jobs EXCEPT ![n] = j], saved)
        BY <1>3, <2>1
      <3> HIDE DEF j
      <3>6. CASE saved
        <4>1. jobs' = [jobs EXCEPT ![n] = j] /\ disk' = jobs' /\ faults' = faults
          BY <3>5, <3>6 DEF SaveOrRollBack
        <4>2. StoredLike
          BY <1>0, <3>2, <3>4, <4>1, StoredChanged
        <4>3. faults' \in 0 .. MaxFaults
          BY <1>0, <4>1 DEF Typed
        <4> QED BY <4>2, <4>3
      <3>7. CASE ~saved
        <4>1. Fault /\ UNCHANGED kept
          BY <3>5, <3>7 DEF SaveOrRollBack
        <4> QED BY <1>0, <4>1, FaultTyped, StoredSame
      <3> QED BY <3>6, <3>7
    <2>2. CASE UNCHANGED <<kept, faults>>
      <3>1. faults' \in 0 .. MaxFaults
        BY <1>0, <2>2 DEF Typed
      <3> QED BY <1>0, <2>2, <3>1, StoredSame
    <2> QED BY <2>1, <2>2 DEF CarryStore
  <1> QED BY <1>0, <1>1, <1>5, CarryStoredKeeps

-------------------------------------------------------------------------------
(* job_allow and job_remove                                                *)

LEMMA AllowRefusedKeeps ==
  ASSUME IInv, NEW r \in Requests, AllowRefused(r)
  PROVE  IInv'
  <1>1. End(r, at[r]) /\ UNCHANGED <<world, kept, keys, running, ghosts, bounds>>
    BY DEF AllowRefused
  <1>2. at[r] \notin Held /\ at[r] \notin {"allow save", "delete key", "carry stop"}
    BY DEF AllowRefused, Held
  <1> QED BY <1>1, <1>2, EndsKeeps

\* A request of job_allow moves: neither name nor carry is held.
LEMMA AllowHolds ==
  ASSUME NEW r \in Requests, RunningOk, OneAtATime, Others(r), running' = running,
         at[r] \notin Held, at'[r] \notin Held, at'[r] \notin Carrying
  PROVE  RunningOk' /\ OneAtATime'
  BY HoldsKept

\* The jobs known, while r is not at a copy and nothing is stored: all known before.
LEMMA KnownShrinks ==
  ASSUME NEW r \in Requests, Others(r), UNCHANGED kept, at'[r] \notin CopyPlaces,
         \A n \in Names : mem'[r].cands[n] # None => mem'[r].cands[n] = mem[r].cands[n],
         NEW n \in Names, NEW j \in Known(n)'
  PROVE  j \in Known(n)
  <1>1. \A q \in Requests : at'[q] \in CopyPlaces => at[q] = at'[q] /\ mem'[q] = mem[q]
    BY DEF Others
  <1>2. \A q \in Requests : mem'[q].cands[n] # None => mem'[q].cands[n] = mem[q].cands[n]
    BY DEF Others
  <1> QED BY <1>1, <1>2, KnownIs, KnownIsNext

\* Nobody is caught or tried by a step that leaves runs and carries alone.
LEMMA TriesUntouched ==
  ASSUME NEW r \in Requests, Others(r), TriesOk, CountsSame,
         at[r] \notin {"run refuse", "carry stop"}, at'[r] \notin {"run on", "carry open"},
         \A n \in Names : jobs'[n] # None /\ jobs'[n].stopped = None =>
            \/ jobs'[n] = jobs[n]
            \/ swaps[jobs'[n].approval] = 0 /\ guesses[jobs'[n].approval] = 0
  PROVE  TriesOk'
  <1>1. OneTryPerApproval'
    BY DEF TriesOk, OneTryPerApproval, CountsSame
  <1>2. ASSUME NEW q \in Requests
        PROVE  /\ at'[q] = "run on" => swaps'[mem'[q].job.approval] = 0
               /\ at'[q] = "carry open" => guesses'[mem'[q].job.approval] = 0
    BY DEF TriesOk, CountsSame, Others
  <1>3. ASSUME NEW n \in Names, jobs'[n] # None, jobs'[n].stopped = None
        PROVE  /\ swaps'[jobs'[n].approval] # 0 => Caught(n, "run refuse")'
               /\ guesses'[jobs'[n].approval] # 0 => Caught(n, "carry stop")'
    <2>1. CASE jobs'[n] = jobs[n]
      <3>1. ASSUME NEW place \in {"run refuse", "carry stop"}, Caught(n, place)
            PROVE  Caught(n, place)'
        <4>1. PICK q \in Requests : at[q] = place /\ mem[q].name = n /\ mem[q].job.approval = jobs[n].approval
          BY <3>1 DEF Caught
        <4>2. at'[q] = at[q] /\ mem'[q] = mem[q]
          BY <4>1 DEF Others
        <4> QED BY <2>1, <4>1, <4>2 DEF Caught
      <3>2. /\ swaps[jobs[n].approval] # 0 => Caught(n, "run refuse")
            /\ guesses[jobs[n].approval] # 0 => Caught(n, "carry stop")
        BY <1>3, <2>1 DEF TriesOk
      <3> QED BY <2>1, <3>1, <3>2 DEF CountsSame
    <2>2. CASE swaps[jobs'[n].approval] = 0 /\ guesses[jobs'[n].approval] = 0
      BY <2>2 DEF CountsSame
    <2> QED BY <1>3, <2>1, <2>2
  <1> QED BY <1>1, <1>2, <1>3 DEF TriesOk

\* What stays unused: nothing of that approval becomes known, caught or is
\* about to lose its key.
LEMMA StaysUnused ==
  ASSUME NEW r \in Requests, Others(r), CountsSame, NEW a \in Approvals, Unused(a),
         \A n \in Names : \A j \in Known(n)' : j.approval # a,
         at'[r] = "delete key" => mem'[r].key # a
  PROVE  Unused(a)'
  BY DEF Others, CountsSame, Unused

LEMMA StaysPending ==
  ASSUME NEW r \in Requests, PendingIs(r), mem'[r] = mem[r], at'[r] = at[r],
         NEW a \in Approvals, a = mem[r].job.approval, Unused(a)',
         given \in Nat, given' \in Nat, given <= given',
         approved'[a] = approved[a], a \in keys <=> a \in keys'
  PROVE  PendingIs(r)'
  <1>1. a <= given'
    <2>1. a <= given
      BY DEF PendingIs
    <2> QED BY <2>1 DEF Approvals
  <1>2. a = mem'[r].job.approval
    OBVIOUS
  <1>3. /\ at'[r] = "allow prompt" => a \notin keys'
        /\ at'[r] = "allow save" => AsShown(mem[r].job) /\ (a \in keys' <=> mem[r].job.never)
    BY DEF PendingIs
  <1>4. at'[r] = "allow save" => AsShown(mem[r].job)'
    BY <1>3 DEF AsShown
  <1> QED BY <1>1, <1>2, <1>3, <1>4 DEF PendingIs

LEMMA PendingTyped ==
  ASSUME NEW r \in Requests, MemOk(r), at[r] \in PendingPlaces
  PROVE  /\ mem[r].name \in Names /\ mem[r].job \in Job /\ mem[r].job.approval \in Approvals
         /\ mem[r].job.stopped = None /\ mem[r].job.carried = None
  BY JobTyped DEF MemOk

\* The keys and the jobs as they were, and nobody to lose one changes.
LEMMA StrayKept ==
  ASSUME NEW r \in Requests, Others(r), NoStrayKey, at[r] \notin {"allow save", "delete key"},
         UNCHANGED <<kept, keys, undeleted>>
  PROVE  NoStrayKey'
  <1>1. ASSUME NEW k \in keys', ~Named(k, jobs)', k \notin undeleted'
        PROVE  \E q \in Requests : \/ at'[q] = "allow save" /\ mem'[q].job.approval = k
                                   \/ at'[q] = "delete key" /\ mem'[q].key = k
    <2>1. k \in keys /\ ~Named(k, jobs) /\ k \notin undeleted
      BY <1>1 DEF Named
    <2>2. PICK q \in Requests : \/ at[q] = "allow save" /\ mem[q].job.approval = k
                                \/ at[q] = "delete key" /\ mem[q].key = k
      BY <2>1 DEF NoStrayKey
    <2>3. at'[q] = at[q] /\ mem'[q] = mem[q]
      BY <2>2 DEF Others
    <2> QED BY <2>2, <2>3
  <1> QED BY <1>1 DEF NoStrayKey

\* Of what a step of job_allow does, what the others see.
LEMMA AllowTyped ==
  ASSUME NEW r \in Requests, Typed, PlacesTyped, StoredTyped, keys' \subseteq Approvals,
         undeleted' \subseteq Approvals, approved' \in [Approvals -> Optional([code : Contents, value : Versions])],
         CountsSame, given' \in 0 .. MaxApprovals, faults' \in 0 .. MaxFaults,
         UNCHANGED <<world, restarts, changes>>
  PROVE  Typed'
  BY DEF Typed, PlacesTyped, StoredTyped, CountsSame

\* The next approval is nobody's.
LEMMA AllowStartKeeps ==
  ASSUME IInv, NEW r \in Requests, NEW n \in Names, NEW replace \in Flags, NEW never \in Flags,
         AllowStart(r, n, replace, never)
  PROVE  IInv'
  <1> DEFINE j == [approval |-> given + 1, code |-> folder, secret |-> vault,
                   never |-> never, carried |-> None, stopped |-> None]
             m == [Blank EXCEPT !.name = n, !.job = j]
  <1>0. /\ Typed /\ RunningOk /\ OneAtATime /\ KnownOk /\ FreshOk /\ PendingOk /\ DeletedOk
        /\ TriesOk /\ KeyOfAJobIsKept /\ NoStrayKey /\ \A q \in Requests : MemOk(q)
    BY DEF IInv
  <1>1. PICK a \in Approvals : a = given + 1 /\ a > given /\ given' = a
    <2>1. given < MaxApprovals /\ given' = given + 1
      BY DEF AllowStart
    <2>2. given \in 0 .. MaxApprovals
      BY <1>0 DEF Typed
    <2> QED BY <2>1, <2>2 DEF Approvals
  <1>2. j \in Job /\ j.approval = a /\ j.stopped = None /\ j.carried = None
    <2>1. folder \in Contents /\ vault \in Versions
      BY <1>0 DEF Typed, AllowStart, Optional
    <2> QED BY <1>1, <2>1 DEF Job, Flags, Optional
  <1>3. Goto(r, "idle", "allow prompt", m)
    BY DEF AllowStart
  <1> HIDE DEF j
  <1>4. m \in Memory /\ m.name = n /\ m.job = j /\ \A x \in Names : m.cands[x] = None
    BY <1>2, BlankTyped DEF Memory, Blank, Optional, NoCands
  <1> HIDE DEF m
  <1>5. "allow prompt" \in Places
    BY DEF Places
  <1>6. at[r] = "idle" /\ Moved(r, "allow prompt", m)
    BY <1>0, <1>3, <1>4, <1>5, GotoMoves
  <1>7. Others(r) /\ PlacesTyped /\ at'[r] = "allow prompt" /\ mem'[r] = m
    BY <1>6 DEF Moved
  <1>8. /\ UNCHANGED <<world, kept, keys, running, ghosts, faults, restarts, changes>>
        /\ CountsSame
    BY DEF AllowStart, CountsSame
  <1>9. Unused(a) /\ a \notin keys
    BY <1>0, <1>1 DEF FreshOk
  <1>10. ASSUME NEW x \in Names, NEW i \in Known(x)' PROVE i \in Known(x)
    BY <1>4, <1>7, <1>8, KnownShrinks DEF CopyPlaces
  <1>11. ASSUME NEW b \in Approvals, Unused(b) PROVE Unused(b)'
    <2>1. \A x \in Names : \A i \in Known(x)' : i.approval # b
      BY <1>10, <1>11 DEF Unused
    <2> QED BY <1>7, <1>8, <1>11, <2>1, StaysUnused
  <1>12. RunningOk' /\ OneAtATime'
    BY <1>0, <1>6, <1>7, <1>8, AllowHolds DEF Held, Carrying
  <1>13. \A q \in Requests : MemOk(q)'
    <2>1. MemOk(r)'
      BY <1>2, <1>4, <1>7 DEF MemOk, CopyPlaces, PendingPlaces, Carrying
    <2> QED BY <1>0, <1>7, <2>1, MemsKept
  <1>14. KnownOk'
    <2>1. ASSUME NEW x \in Names, NEW i \in Known(x)' PROVE i.approval <= given' /\ AsShown(i)'
      <3>1. i.approval <= given /\ AsShown(i) /\ i \in Job
        BY <1>0, <1>10, <2>1, KnownTyped DEF KnownOk
      <3>2. i.approval \in Nat /\ given \in Nat
        BY <1>0, <3>1, JobTyped DEF Approvals, Typed
      <3>3. i.approval <= given'
        BY <1>1, <3>1, <3>2
      <3>4. AsShown(i)'
        BY <1>8, <3>1 DEF AsShown
      <3> QED BY <3>3, <3>4
    <2>2. \A x, y \in Names : \A i \in Known(x)', k \in Known(y)' : i.approval = k.approval => x = y
      BY <1>0, <1>10 DEF KnownOk
    <2> QED BY <2>1, <2>2 DEF KnownOk
  <1>15. FreshOk'
    <2>1. ASSUME NEW b \in Approvals, b > given' PROVE Unused(b)' /\ b \notin keys'
      <3>1. b > given
        BY <1>0, <1>1, <2>1 DEF Approvals, Typed
      <3>2. Unused(b) /\ b \notin keys
        BY <1>0, <3>1 DEF FreshOk
      <3> QED BY <1>8, <1>11, <3>2
    <2> QED BY <2>1 DEF FreshOk
  <1>16. ASSUME NEW q \in Requests \ {r}, at'[q] \in PendingPlaces
         PROVE  at[q] \in PendingPlaces /\ mem'[q] = mem[q] /\ PendingIs(q)' /\ mem[q].job.approval # a
    <2>1. at'[q] = at[q] /\ mem'[q] = mem[q]
      BY <1>7 DEF Others
    <2>2. PendingIs(q) /\ mem[q].job.approval \in Approvals
      BY <1>0, <1>16, <2>1, PendingTyped DEF PendingOk
    <2>3. PICK b \in Approvals : b = mem[q].job.approval
      BY <2>2
    <2>4. Unused(b) /\ b <= given
      BY <2>2, <2>3 DEF PendingIs
    <2>5. Unused(b)' /\ b # a
      <3>1. b # a
        BY <1>0, <1>1, <2>4 DEF Approvals, Typed
      <3> QED BY <1>11, <2>4, <3>1
    <2>6. given \in Nat /\ given' \in Nat /\ given <= given' /\ approved' = approved /\ keys' = keys
      BY <1>0, <1>1, <1>8 DEF Typed
    <2>7. PendingIs(q)'
      BY <2>1, <2>2, <2>3, <2>5, <2>6, StaysPending
    <2> QED BY <1>16, <2>1, <2>3, <2>5, <2>7
  <1>17. PendingIs(r)'
    <2>1. a = mem'[r].job.approval /\ a <= given'
      <3>1. a = mem'[r].job.approval
        BY <1>2, <1>4, <1>7
      <3>2. a <= given'
        BY <1>1 DEF Approvals
      <3> QED BY <3>1, <3>2
    <2>2. Unused(a)' /\ a \notin keys'
      BY <1>8, <1>9, <1>11
    <2> QED BY <1>7, <2>1, <2>2 DEF PendingIs
  <1>18. PendingOk'
    <2>1. ASSUME NEW p \in Requests, NEW q \in Requests, at'[p] \in PendingPlaces, at'[q] \in PendingPlaces,
                 mem'[p].job.approval = mem'[q].job.approval
          PROVE  p = q
      <3>1. mem'[r].job.approval = a
        BY <1>2, <1>4, <1>7
      <3>2. CASE p = r \/ q = r
        BY <1>16, <2>1, <3>1, <3>2
      <3>3. CASE p # r /\ q # r
        <4>1. /\ at[p] \in PendingPlaces /\ mem'[p] = mem[p]
              /\ at[q] \in PendingPlaces /\ mem'[q] = mem[q]
          BY <1>16, <2>1, <3>3
        <4> QED BY <1>0, <2>1, <4>1 DEF PendingOk
      <3> QED BY <3>2, <3>3
    <2> QED BY <1>16, <1>17, <2>1 DEF PendingOk
  <1>19. DeletedOk'
    <2>1. \A q \in Requests : at'[q] = "delete key" => at[q] = "delete key" /\ mem'[q] = mem[q]
      BY <1>7 DEF Others
    <2> QED BY <1>0, <1>8, <2>1 DEF DeletedOk
  <1>20. KeyOfAJobIsKept'
    BY <1>0, <1>8 DEF KeyOfAJobIsKept
  <1>21. NoStrayKey'
    <2>1. at[r] \notin {"allow save", "delete key"}
      BY <1>6
    <2>2. UNCHANGED <<kept, keys, undeleted>>
      BY <1>8
    <2> QED BY <1>0, <1>7, <2>1, <2>2, StrayKept
  <1>22. TriesOk'
    <2>1. at[r] \notin {"run refuse", "carry stop"} /\ at'[r] \notin {"run on", "carry open"}
      BY <1>6, <1>7
    <2> QED BY <1>0, <1>7, <1>8, <2>1, TriesUntouched
  <1>23. Typed'
    <2>1. given' \in 0 .. MaxApprovals
      BY <1>1 DEF Approvals
    <2>2. StoredTyped /\ keys' \subseteq Approvals /\ undeleted' \subseteq Approvals
          /\ approved' \in [Approvals -> Optional([code : Contents, value : Versions])]
      BY <1>0, <1>8 DEF Typed, StoredTyped
    <2>3. faults' \in 0 .. MaxFaults
      BY <1>0, <1>8 DEF Typed
    <2> QED BY <1>0, <1>7, <1>8, <2>1, <2>2, <2>3, AllowTyped
  <1> QED BY <1>12, <1>13, <1>14, <1>15, <1>18, <1>19, <1>20, <1>21, <1>22, <1>23 DEF IInv

\* The finger, and the key of the new job before the job.
LEMMA AllowGivenKeeps ==
  ASSUME IInv, NEW r \in Requests, AllowGiven(r)
  PROVE  IInv'
  <1> DEFINE j == mem[r].job
  <1>0. /\ Typed /\ RunningOk /\ OneAtATime /\ KnownOk /\ FreshOk /\ PendingOk /\ DeletedOk
        /\ TriesOk /\ KeyOfAJobIsKept /\ NoStrayKey /\ \A q \in Requests : MemOk(q)
        /\ at[r] = "allow prompt"
    BY DEF IInv, AllowGiven
  <1>1. /\ mem[r].name \in Names /\ j \in Job /\ j.approval \in Approvals
        /\ j.stopped = None /\ j.carried = None /\ at[r] \in PendingPlaces
    BY <1>0, PendingTyped DEF PendingPlaces
  <1>2. PICK a \in Approvals : a = j.approval
    BY <1>1
  <1>3. Unused(a) /\ a <= given /\ a \notin keys
    BY <1>0, <1>1, <1>2 DEF PendingOk, PendingIs
  <1>4. /\ UNCHANGED <<world, kept, running, mem, swaps, guesses, undeleted, given, restarts, changes>>
        /\ CountsSame
    BY DEF AllowGiven, CountsSame
  <1>5. /\ Others(r) /\ PlacesTyped /\ at'[r] \in {"allow save", "allow failed"} /\ mem'[r] = mem[r]
        /\ faults' \in 0 .. MaxFaults
        /\ at'[r] = "allow save" => keys' = keys \union {b \in {a} : j.never}
        /\ at'[r] = "allow failed" => keys' = keys
    <2>1. CASE keys' = keys \union {b \in {a} : j.never} /\ at' = [at EXCEPT ![r] = "allow save"]
               /\ UNCHANGED faults
      <3>1. faults' \in 0 .. MaxFaults
        BY <1>0, <2>1 DEF Typed
      <3> QED BY <1>0, <1>4, <2>1, <3>1 DEF Typed, Others, PlacesTyped, Places
    <2>2. CASE keys' = keys /\ at' = [at EXCEPT ![r] = "allow failed"] /\ Fault
      <3>1. faults' \in 0 .. MaxFaults
        BY <1>0, <2>2, FaultTyped
      <3> QED BY <1>0, <1>4, <2>2, <3>1 DEF Typed, Others, PlacesTyped, Places
    <2> QED BY <1>2, <2>1, <2>2 DEF AllowGiven, MakeKey
  <1>6. /\ approved' \in [Approvals -> Optional([code : Contents, value : Versions])]
        /\ approved'[a].code = j.code /\ approved'[a].value = j.secret
        /\ \A b \in Approvals \ {a} : approved'[b] = approved[b]
    <2>1. approved' = [approved EXCEPT ![a] = [code |-> j.code, value |-> j.secret]]
      BY <1>2 DEF AllowGiven, Approve
    <2>2. j.code \in Contents /\ j.secret \in Versions
      BY <1>1, JobTyped
    <2> QED BY <1>0, <2>1, <2>2 DEF Typed, Optional
  <1>7. ASSUME NEW x \in Names, NEW i \in Known(x)'
        PROVE  i \in Known(x) /\ i \in Job /\ i.approval \in Approvals \ {a} /\ i.approval <= given
    <2>1. i \in Known(x)
      BY <1>4, <1>5, KnownShrinks DEF CopyPlaces
    <2> QED BY <1>0, <1>3, <2>1, KnownTyped, JobTyped DEF Unused, KnownOk
  <1>8. ASSUME NEW b \in Approvals, Unused(b) PROVE Unused(b)'
    <2>1. \A x \in Names : \A i \in Known(x)' : i.approval # b
      BY <1>7, <1>8 DEF Unused
    <2> QED BY <1>4, <1>5, <1>8, <2>1, StaysUnused
  <1>9. \A b \in Approvals \ {a} : b \in keys' <=> b \in keys
    BY <1>5
  <1>10. RunningOk' /\ OneAtATime'
    BY <1>0, <1>4, <1>5, AllowHolds DEF Held, Carrying
  <1>11. \A q \in Requests : MemOk(q)'
    <2>1. MemOk(r)'
      BY <1>1, <1>5 DEF MemOk, CopyPlaces, PendingPlaces, Carrying
    <2> QED BY <1>0, <1>5, <2>1, MemsKept
  <1>12. KnownOk'
    <2>1. ASSUME NEW x \in Names, NEW i \in Known(x)' PROVE i.approval <= given' /\ AsShown(i)'
      <3>1. AsShown(i)
        BY <1>0, <1>7, <2>1 DEF KnownOk
      <3>2. AsShown(i)'
        BY <1>6, <1>7, <3>1 DEF AsShown
      <3> QED BY <1>4, <1>7, <3>2
    <2>2. \A x, y \in Names : \A i \in Known(x)', k \in Known(y)' : i.approval = k.approval => x = y
      BY ZenonT(60), <1>0, <1>7 DEF KnownOk
    <2> QED BY <2>1, <2>2 DEF KnownOk
  <1>13. FreshOk'
    <2>1. ASSUME NEW b \in Approvals, b > given' PROVE Unused(b)' /\ b \notin keys'
      <3>1. b > given /\ b # a
        <4>1. Typed /\ given' = given
          BY <1>4 DEF IInv
        <4> QED BY <1>3, <2>1, <4>1 DEF Approvals, Typed
      <3>2. Unused(b) /\ b \notin keys
        BY <1>0, <3>1 DEF FreshOk
      <3> QED BY <1>8, <1>9, <3>1, <3>2
    <2> QED BY <2>1 DEF FreshOk
  <1>14. ASSUME NEW q \in Requests \ {r}, at'[q] \in PendingPlaces
         PROVE  at[q] \in PendingPlaces /\ mem'[q] = mem[q] /\ PendingIs(q)'
    <2>1. at'[q] = at[q] /\ mem'[q] = mem[q]
      BY <1>5 DEF Others
    <2>2. PendingIs(q) /\ mem[q].job.approval \in Approvals
      BY <1>0, <1>14, <2>1, PendingTyped DEF PendingOk
    <2>3. PICK b \in Approvals : b = mem[q].job.approval
      BY <2>2
    <2>4. b # a /\ Unused(b)
      BY <1>0, <1>1, <1>2, <1>14, <2>1, <2>2, <2>3 DEF PendingOk, PendingIs
    <2>5. Unused(b)' /\ approved'[b] = approved[b] /\ (b \in keys <=> b \in keys')
      BY <1>6, <1>8, <1>9, <2>4
    <2>6. given \in Nat /\ given' \in Nat /\ given <= given'
      <3>1. Typed /\ given' = given
        BY <1>4 DEF IInv
      <3> QED BY <3>1 DEF Typed
    <2>7. PendingIs(q)'
      BY <2>1, <2>2, <2>3, <2>5, <2>6, StaysPending
    <2> QED BY <1>14, <2>1, <2>7
  <1>15. at'[r] \in PendingPlaces => PendingIs(r)'
    <2>1. SUFFICES ASSUME at'[r] = "allow save" PROVE PendingIs(r)'
      BY <1>5 DEF PendingPlaces
    <2>2. a = mem'[r].job.approval /\ a <= given' /\ Unused(a)'
      BY <1>2, <1>3, <1>4, <1>5, <1>8
    <2>3. AsShown(mem[r].job)'
      BY <1>1, <1>2, <1>4, <1>6 DEF AsShown
    <2>4. a \in keys' <=> mem'[r].job.never
      BY <1>3, <1>5, <2>1
    <2> QED BY <1>5, <2>1, <2>2, <2>3, <2>4 DEF PendingIs
  <1>16. PendingOk'
    <2>1. ASSUME NEW p \in Requests, NEW q \in Requests, at'[p] \in PendingPlaces, at'[q] \in PendingPlaces,
                 mem'[p].job.approval = mem'[q].job.approval
          PROVE  p = q
      <3>1. /\ at[p] \in PendingPlaces /\ mem'[p] = mem[p]
            /\ at[q] \in PendingPlaces /\ mem'[q] = mem[q]
        BY <1>1, <1>5, <1>14, <2>1
      <3> QED BY <1>0, <2>1, <3>1 DEF PendingOk
    <2> QED BY <1>14, <1>15, <2>1 DEF PendingOk
  <1>17. DeletedOk'
    <2>1. \A q \in Requests : at'[q] = "delete key" => at[q] = "delete key" /\ mem'[q] = mem[q]
      BY <1>5 DEF Others
    <2> QED BY <1>0, <1>4, <2>1 DEF DeletedOk
  <1>18. keys \subseteq keys' /\ keys' \subseteq keys \union {a}
    BY <1>5
  <1>19. KeyOfAJobIsKept'
    BY <1>0, <1>4, <1>18 DEF KeyOfAJobIsKept
  <1>20. NoStrayKey'
    <2>1. ASSUME NEW k \in keys', ~Named(k, jobs)', k \notin undeleted'
          PROVE  \E q \in Requests : \/ at'[q] = "allow save" /\ mem'[q].job.approval = k
                                     \/ at'[q] = "delete key" /\ mem'[q].key = k
      <3>1. CASE k = a
        <4>1. at'[r] = "allow save"
          BY <1>3, <1>5, <2>1, <3>1
        <4> QED BY <1>2, <1>5, <3>1, <4>1
      <3>2. CASE k # a
        <4>1. k \in keys /\ ~Named(k, jobs) /\ k \notin undeleted
          BY <1>4, <1>18, <2>1, <3>2 DEF Named
        <4>2. PICK q \in Requests : \/ at[q] = "allow save" /\ mem[q].job.approval = k
                                    \/ at[q] = "delete key" /\ mem[q].key = k
          BY <1>0, <4>1 DEF NoStrayKey
        <4>3. at'[q] = at[q] /\ mem'[q] = mem[q]
          BY <1>0, <1>5, <4>2 DEF Others
        <4> QED BY <4>2, <4>3
      <3> QED BY <3>1, <3>2
    <2> QED BY <2>1 DEF NoStrayKey
  <1>21. TriesOk'
    <2>1. at[r] \notin {"run refuse", "carry stop"} /\ at'[r] \notin {"run on", "carry open"}
      BY <1>0, <1>5
    <2> QED BY <1>0, <1>4, <1>5, <2>1, TriesUntouched
  <1>22. Typed'
    <2>1. StoredTyped /\ keys' \subseteq Approvals /\ undeleted' \subseteq Approvals
      BY <1>0, <1>4, <1>18 DEF Typed, StoredTyped
    <2>2. given' \in 0 .. MaxApprovals
      BY <1>0, <1>4 DEF Typed
    <2> QED BY <1>0, <1>4, <1>5, <1>6, <2>1, <2>2, AllowTyped
  <1> QED BY <1>10, <1>11, <1>12, <1>13, <1>16, <1>17, <1>19, <1>20, <1>21, <1>22 DEF IInv

\* What AllowSave and Remove do to the lists, and to the copies of r.
\* The jobs known once j is stored as n's: those known before, and j.
StoredGrow(n, j) ==
    \A x \in Names : /\ jobs'[x] \in {None, jobs[x]} \/ (x = n /\ jobs'[x] = j)
                     /\ disk'[x] \in {disk[x], jobs'[x]}
CandsGone(r) == \A x \in Names : mem'[r].cands[x] = None

LEMMA KnownGrows ==
  ASSUME NEW r \in Requests, Others(r), at'[r] \notin CopyPlaces, CandsGone(r),
         NEW n, NEW j, StoredGrow(n, j),
         NEW x \in Names, NEW i \in Known(x)'
  PROVE  i \in Known(x) \/ (x = n /\ i = j)
  <1>1. \A q \in Requests : at'[q] \in CopyPlaces => at[q] = at'[q] /\ mem'[q] = mem[q]
    BY DEF Others
  <1>2. \A q \in Requests : mem'[q].cands[x] # None => mem'[q].cands[x] = mem[q].cands[x]
    BY DEF Others, CandsGone
  <1>3. i # None
    BY KnownIsNext
  <1>4. CASE i = jobs'[x] \/ i = disk'[x]
    <2>1. i = jobs[x] \/ i = disk[x] \/ (x = n /\ i = j)
      BY <1>3, <1>4 DEF StoredGrow
    <2> QED BY <1>3, <2>1, KnownIs
  <1>5. CASE \E q \in Requests : at'[q] \in CopyPlaces /\ mem'[q].name = x /\ mem'[q].job = i
    BY <1>1, <1>3, <1>5, KnownIs
  <1>6. CASE \E q \in Requests : mem'[q].cands[x] = i
    BY <1>2, <1>3, <1>6, KnownIs
  <1> QED BY <1>4, <1>5, <1>6, KnownIsNext

LEMMA KeyedMemory ==
  ASSUME NEW k \in 0 .. MaxApprovals
  PROVE  /\ [Blank EXCEPT !.key = k] \in Memory
         /\ [Blank EXCEPT !.key = k].key = k
         /\ \A n \in Names : [Blank EXCEPT !.key = k].cands[n] = None
  BY BlankTyped DEF Memory, Blank, Optional, NoCands

LEMMA DeletingHoldsNothing ==
  ASSUME NEW r \in Requests, at'[r] = "delete key"
  PROVE  MemOk(r)' /\ at'[r] \notin Held /\ at'[r] \notin Carrying /\ at'[r] \notin CopyPlaces
         /\ at'[r] \notin PendingPlaces
  BY DEF MemOk, CopyPlaces, PendingPlaces, Carrying, Held

\* A save with its way back: what it does to the two lists.
LEMMA RollBackIs ==
  ASSUME Typed, NEW new \in [Names -> Optional(Job)], NEW saved \in Flags, SaveOrRollBack(new, saved)
  PROVE  /\ faults' \in 0 .. MaxFaults /\ StoredTyped
         /\ saved => jobs' = new /\ disk' = new
         /\ ~saved => jobs' = jobs /\ disk' = disk
  <1>1. CASE saved
    <2>1. jobs' = new /\ disk' = new /\ faults' = faults
      BY <1>1 DEF SaveOrRollBack
    <2>2. faults' \in 0 .. MaxFaults
      BY <2>1 DEF Typed
    <2> QED BY <1>1, <2>1, <2>2 DEF StoredTyped
  <1>2. CASE ~saved
    <2>1. Fault /\ jobs' = jobs /\ disk' = disk
      BY <1>2 DEF SaveOrRollBack
    <2> QED BY <1>2, <2>1, FaultTyped DEF StoredTyped, Typed
  <1> QED BY <1>1, <1>2 DEF Flags

\* The pending requests other than r, when r stores its own job or none.
LEMMA OthersPend ==
  ASSUME NEW r \in Requests, Typed, Others(r), PendingOk, \A q \in Requests : MemOk(q),
         at'[r] \notin PendingPlaces, given' = given, approved' = approved,
         \A b \in Approvals : \A q \in Requests \ {r} :
             at[q] \in PendingPlaces /\ mem[q].job.approval = b
                => Unused(b)' /\ (b \in keys <=> b \in keys')
  PROVE  PendingOk'
  <1>1. ASSUME NEW q \in Requests, at'[q] \in PendingPlaces
        PROVE  q # r /\ at'[q] = at[q] /\ mem'[q] = mem[q]
    BY <1>1 DEF Others
  <1>2. ASSUME NEW q \in Requests, at'[q] \in PendingPlaces
        PROVE  PendingIs(q)'
    <2>1. q # r /\ at'[q] = at[q] /\ mem'[q] = mem[q]
      BY <1>1, <1>2
    <2>2. PendingIs(q)
      BY <1>2, <2>1 DEF PendingOk
    <2>3. PICK b \in Approvals : b = mem[q].job.approval
      BY <1>2, <2>1, PendingTyped
    <2>4. Unused(b)' /\ (b \in keys <=> b \in keys')
      BY <1>2, <2>1, <2>3
    <2>5. given \in Nat /\ given' \in Nat /\ given <= given'
      BY DEF Typed
    <2> QED BY <2>1, <2>2, <2>3, <2>4, <2>5, StaysPending
  <1> QED BY <1>1, <1>2 DEF PendingOk

\* The job takes its place, and the key that is deleted is nobody's any more.
LEMMA AllowSaveKeeps ==
  ASSUME IInv, NEW r \in Requests, AllowSave(r)
  PROVE  IInv'
  <1> DEFINE j == mem[r].job
             n == mem[r].name
             old == IF jobs[n] # None /\ jobs[n].never THEN jobs[n].approval ELSE 0
             new == IF j.never THEN j.approval ELSE 0
  <1>0. /\ Typed /\ RunningOk /\ OneAtATime /\ KnownOk /\ FreshOk /\ PendingOk /\ DeletedOk
        /\ TriesOk /\ KeyOfAJobIsKept /\ NoStrayKey /\ \A q \in Requests : MemOk(q)
    BY DEF IInv
  <1>1. at[r] = "allow save" /\ at[r] \in PendingPlaces
    BY DEF AllowSave, PendingPlaces
  <1>2. n \in Names /\ j \in Job /\ j.approval \in Approvals /\ j.stopped = None /\ j.carried = None
    BY <1>0, <1>1, PendingTyped
  <1>3. PICK a \in Approvals : a = j.approval
    BY <1>2
  <1>4. Unused(a) /\ a <= given /\ AsShown(j) /\ (a \in keys <=> j.never)
    BY <1>0, <1>1, <1>3 DEF PendingOk, PendingIs
  <1>5. /\ jobs[n] # None => /\ jobs[n] \in Known(n) /\ jobs[n] \in Job
                             /\ jobs[n].approval \in Approvals \ {a}
    BY <1>0, <1>2, <1>4, StoredIsKnown, KnownTyped, JobTyped DEF Unused
  <1>6. old \in 0 .. MaxApprovals /\ new \in 0 .. MaxApprovals /\ old # a
    <2>1. Approvals \subseteq 0 .. MaxApprovals /\ 0 \in 0 .. MaxApprovals /\ 0 \notin Approvals
      BY DEF Approvals
    <2> QED BY <1>2, <1>5, <2>1
  <1>7. PICK saved \in Flags :
          /\ SaveOrRollBack([jobs EXCEPT ![n] = j], saved)
          /\ Goto(r, "allow save", "delete key", [Blank EXCEPT !.key = IF saved THEN old ELSE new])
    BY DEF AllowSave
  <1> DEFINE k == IF saved THEN old ELSE new
             m == [Blank EXCEPT !.key = k]
  <1>8. k \in 0 .. MaxApprovals /\ (k # 0 /\ k # a => jobs[n] # None /\ k = jobs[n].approval)
    BY <1>3, <1>6
  <1>9. Goto(r, "allow save", "delete key", m)
    BY <1>7
  <1>10. saved => k = old
    OBVIOUS
  <1>11. ~saved => k = new
    OBVIOUS
  <1> HIDE DEF k
  <1>12. m \in Memory /\ m.key = k /\ \A x \in Names : m.cands[x] = None
    BY <1>8, KeyedMemory
  <1> HIDE DEF m
  <1>13. "delete key" \in Places
    BY DEF Places
  <1>14. Moved(r, "delete key", m)
    BY <1>0, <1>9, <1>12, <1>13, GotoMoves
  <1>15. /\ Others(r) /\ PlacesTyped /\ at'[r] = "delete key" /\ mem'[r].key = k
         /\ \A x \in Names : mem'[r].cands[x] = None
    BY <1>12, <1>14 DEF Moved
  <1>16. /\ faults' \in 0 .. MaxFaults /\ StoredTyped
         /\ saved => jobs'[n] = j /\ disk' = jobs' /\ \A x \in Names \ {n} : jobs'[x] = jobs[x]
         /\ ~saved => jobs' = jobs /\ disk' = disk
    <2>1. [jobs EXCEPT ![n] = j] \in [Names -> Optional(Job)]
      BY <1>0, <1>2 DEF Typed, Optional
    <2>2. /\ faults' \in 0 .. MaxFaults /\ StoredTyped
          /\ saved => jobs' = [jobs EXCEPT ![n] = j] /\ disk' = [jobs EXCEPT ![n] = j]
          /\ ~saved => jobs' = jobs /\ disk' = disk
      BY <1>0, <1>7, <2>1, RollBackIs
    <2> QED BY <1>0, <1>2, <2>2 DEF Typed
  <1>17. /\ UNCHANGED <<world, keys, running, ghosts, given, restarts, changes>>
         /\ CountsSame
    BY DEF AllowSave, CountsSame
  <1> HIDE DEF j, n, old, new
  <1>18. ASSUME NEW x \in Names, NEW i \in Known(x)'
         PROVE  i \in Known(x) \/ (x = n /\ i = j)
    <2>1. StoredGrow(n, j)
      BY <1>16 DEF Flags, StoredGrow
    <2>2. CandsGone(r)
      BY <1>15 DEF CandsGone
    <2>3. at'[r] \notin CopyPlaces
      BY <1>15, DeletingHoldsNothing
    <2> QED BY <1>15, <1>18, <2>1, <2>2, <2>3, KnownGrows
  <1>19. ASSUME NEW b \in Approvals, Unused(b), b # a PROVE Unused(b)'
    <2>1. \A x \in Names : \A i \in Known(x)' : i.approval # b
      BY <1>3, <1>18, <1>19 DEF Unused, j
    <2>2. k # b
      <3>1. jobs[n] # None => jobs[n].approval # b
        BY <1>2, <1>5, <1>19 DEF Unused, n
      <3>2. b # 0
        BY DEF Approvals
      <3> QED BY <1>8, <1>19, <3>1, <3>2
    <2> QED BY <1>15, <1>17, <1>19, <2>1, <2>2, StaysUnused
  <1>20. RunningOk' /\ OneAtATime'
    <2>1. at[r] \notin Held
      BY <1>1 DEF Held
    <2> QED BY <1>0, <1>15, <1>17, <2>1, AllowHolds, DeletingHoldsNothing
  <1>21. \A q \in Requests : MemOk(q)'
    BY <1>0, <1>15, MemsKept, DeletingHoldsNothing
  <1>22. KnownOk'
    <2>1. ASSUME NEW x \in Names, NEW i \in Known(x)' PROVE i.approval <= given' /\ AsShown(i)'
      <3>1. i.approval <= given /\ AsShown(i)
        BY <1>0, <1>3, <1>4, <1>18, <2>1 DEF KnownOk, j
      <3> QED BY <1>17, <3>1 DEF AsShown
    <2>2. ASSUME NEW x \in Names, NEW y \in Names, NEW i \in Known(x)', NEW h \in Known(y)',
                 i.approval = h.approval
          PROVE  x = y
      <3>1. ASSUME NEW z \in Names, NEW g \in Known(z) PROVE g.approval # a
        BY <1>4 DEF Unused
      <3>2. j.approval = a
        BY <1>3 DEF j
      <3>3. CASE i \in Known(x) /\ h \in Known(y)
        BY <1>0, <2>2, <3>3, OneName
      <3>4. CASE x = n /\ i = j
        BY <1>18, <2>2, <3>1, <3>2, <3>4
      <3>5. CASE y = n /\ h = j
        BY <1>18, <2>2, <3>1, <3>2, <3>5
      <3> QED BY <1>18, <3>3, <3>4, <3>5
    <2> QED BY <2>1, <2>2 DEF KnownOk
  <1>23. FreshOk'
    <2>1. ASSUME NEW b \in Approvals, b > given' PROVE Unused(b)' /\ b \notin keys'
      <3>1. b > given /\ b # a
        <4>1. Typed /\ given' = given
          BY <1>17 DEF IInv
        <4> QED BY <1>4, <2>1, <4>1 DEF Approvals, Typed
      <3>2. Unused(b) /\ b \notin keys
        BY <1>0, <3>1 DEF FreshOk
      <3> QED BY <1>17, <1>19, <3>1, <3>2
    <2> QED BY <2>1 DEF FreshOk
  <1>24. PendingOk'
    <2>1. ASSUME NEW b \in Approvals, NEW q \in Requests \ {r}, at[q] \in PendingPlaces,
                 mem[q].job.approval = b
          PROVE  Unused(b)'
      <3>1. Unused(b) /\ b # a
        BY <1>0, <1>1, <1>3, <2>1 DEF PendingOk, PendingIs, j
      <3> QED BY <1>19, <3>1
    <2>2. at'[r] \notin PendingPlaces
      BY <1>15, DeletingHoldsNothing
    <2> QED BY <1>0, <1>15, <1>17, <2>1, <2>2, OthersPend
  <1>25. DeletedOk'
    <2>1. ASSUME NEW q \in Requests, at'[q] = "delete key", NEW x \in Names
          PROVE  /\ jobs'[x] # None => jobs'[x].approval # mem'[q].key
                 /\ disk'[x] # None => disk'[x].approval # mem'[q].key
      <3>0. /\ jobs[x] # None => jobs[x].approval \in Approvals \ {a} /\ jobs[x] \in Known(x)
            /\ disk[x] # None => disk[x].approval \in Approvals \ {a} /\ disk[x] \in Known(x)
        BY <1>0, <1>4, StoredIsKnown, KnownTyped, JobTyped DEF Unused
      <3>1. CASE q # r
        <4>1. at[q] = "delete key" /\ mem'[q] = mem[q]
          BY <1>15, <2>1, <3>1 DEF Others
        <4>2. /\ jobs[x] # None => jobs[x].approval # mem[q].key
              /\ disk[x] # None => disk[x].approval # mem[q].key
              /\ mem[q].key # a
          BY <1>0, <1>4, <4>1 DEF DeletedOk, Unused
        <4> QED BY <1>3, <1>16, <4>1, <4>2 DEF Flags, j
      <3>2. CASE q = r /\ saved
        <4>1. mem'[q].key = old /\ disk'[x] = jobs'[x]
          BY <1>10, <1>15, <1>16, <3>2
        <4>2. ASSUME jobs'[x] # None PROVE jobs'[x].approval # old
          <5>1. CASE x = n
            BY <1>3, <1>6, <1>16, <3>2, <5>1 DEF j
          <5>2. CASE x # n
            <6>1. jobs'[x] = jobs[x]
              BY <1>16, <3>2, <5>2
            <6>2. jobs[x].approval # 0
              BY <3>0, <4>2, <6>1 DEF Approvals
            <6>3. jobs[n] # None => jobs[x].approval # jobs[n].approval
              BY <1>0, <1>2, <1>5, <3>0, <4>2, <5>2, <6>1, OneName DEF n
            <6> QED BY <6>1, <6>2, <6>3 DEF old
          <5> QED BY <5>1, <5>2
        <4> QED BY <4>1, <4>2
      <3>3. CASE q = r /\ ~saved
        <4>1. mem'[q].key = new /\ jobs'[x] = jobs[x] /\ disk'[x] = disk[x]
          BY <1>11, <1>15, <1>16, <3>3
        <4>2. new \in {0, a} /\ 0 \notin Approvals
          BY <1>3 DEF new, j, Approvals
        <4> QED BY <3>0, <4>1, <4>2
      <3> QED BY <3>1, <3>2, <3>3
    <2> QED BY <2>1 DEF DeletedOk
  <1>26. KeyOfAJobIsKept'
    <2>1. ASSUME NEW x \in Names
          PROVE  /\ jobs[x] # None /\ jobs[x].never => jobs[x].approval \in keys
                 /\ disk[x] # None /\ disk[x].never => disk[x].approval \in keys
      BY <1>0 DEF KeyOfAJobIsKept
    <2>2. ASSUME NEW x \in Names
          PROVE  /\ jobs'[x] # None /\ jobs'[x].never => jobs'[x].approval \in keys
                 /\ disk'[x] # None /\ disk'[x].never => disk'[x].approval \in keys
      BY <1>3, <1>4, <1>16, <2>1 DEF Flags, j
    <2> QED BY <1>17, <2>2 DEF KeyOfAJobIsKept
  <1>27. NoStrayKey'
    <2>1. ASSUME NEW b \in keys', ~Named(b, jobs)', b \notin undeleted'
          PROVE  \E q \in Requests : \/ at'[q] = "allow save" /\ mem'[q].job.approval = b
                                     \/ at'[q] = "delete key" /\ mem'[q].key = b
      <3>1. b \in keys /\ b \notin undeleted /\ ~\E x \in Names : jobs'[x] # None /\ jobs'[x].never
                                                                 /\ jobs'[x].approval = b
        BY <1>17, <2>1 DEF Named
      <3>2. CASE Named(b, jobs)
        <4>1. PICK x \in Names : jobs[x] # None /\ jobs[x].never /\ jobs[x].approval = b
          BY <3>2 DEF Named
        <4>2. saved /\ x = n
          BY <1>16, <3>1, <4>1 DEF Flags
        <4>3. k = b
          BY <1>10, <4>1, <4>2 DEF old
        <4> QED BY <1>15, <4>3
      <3>3. CASE ~Named(b, jobs)
        <4>1. PICK q \in Requests : \/ at[q] = "allow save" /\ mem[q].job.approval = b
                                    \/ at[q] = "delete key" /\ mem[q].key = b
          BY <1>0, <3>1, <3>3 DEF NoStrayKey
        <4>2. CASE q # r
          <5>1. at'[q] = at[q] /\ mem'[q] = mem[q]
            BY <1>15, <4>2 DEF Others
          <5> QED BY <4>1, <5>1
        <4>3. CASE q = r
          <5>1. b = a /\ j.never
            BY <1>1, <1>3, <1>4, <3>1, <4>1, <4>3 DEF j
          <5>2. ~saved
            BY <1>2, <1>3, <1>16, <3>1, <5>1, JobTyped DEF j, n
          <5>3. k = b
            BY <1>3, <1>11, <5>1, <5>2 DEF new, j
          <5> QED BY <1>15, <5>3
        <4> QED BY <4>2, <4>3
      <3> QED BY <3>2, <3>3
    <2> QED BY <2>1 DEF NoStrayKey
  <1>28. TriesOk'
    <2>1. at[r] \notin {"run refuse", "carry stop"} /\ at'[r] \notin {"run on", "carry open"}
      BY <1>1, <1>15
    <2>2. swaps[a] = 0 /\ guesses[a] = 0 /\ j.approval = a
      BY <1>3, <1>4 DEF Unused, j
    <2>3. \A x \in Names : jobs'[x] = jobs[x] \/ jobs'[x] = j
      BY <1>16 DEF Flags
    <2> QED BY <1>0, <1>15, <1>17, <2>1, <2>2, <2>3, TriesUntouched
  <1>29. Typed'
    <2>1. keys' \subseteq Approvals /\ undeleted' \subseteq Approvals
          /\ approved' \in [Approvals -> Optional([code : Contents, value : Versions])]
      BY <1>0, <1>17 DEF Typed
    <2>2. given' \in 0 .. MaxApprovals
      BY <1>0, <1>17 DEF Typed
    <2> QED BY <1>0, <1>15, <1>16, <1>17, <2>1, <2>2, AllowTyped
  <1> QED BY <1>20, <1>21, <1>22, <1>23, <1>24, <1>25, <1>26, <1>27, <1>28, <1>29 DEF IInv

\* The job goes, and its key if it has one.
LEMMA RemoveKeeps ==
  ASSUME IInv, NEW r \in Requests, NEW n \in Names, Remove(r, n)
  PROVE  IInv'
  <1>0. /\ Typed /\ RunningOk /\ OneAtATime /\ KnownOk /\ FreshOk /\ PendingOk /\ DeletedOk
        /\ TriesOk /\ KeyOfAJobIsKept /\ NoStrayKey /\ \A q \in Requests : MemOk(q)
    BY DEF IInv
  <1>1. jobs[n] # None
    BY DEF Remove
  <1>2. jobs[n] \in Known(n) /\ jobs[n] \in Job /\ jobs[n].approval \in Approvals
    BY <1>0, <1>1, StoredIsKnown, KnownTyped, JobTyped
  <1>3. PICK saved \in Flags :
          /\ SaveOrRollBack([jobs EXCEPT ![n] = None], saved)
          /\ Goto(r, "idle", "delete key",
                  [Blank EXCEPT !.key = IF saved /\ jobs[n].never THEN jobs[n].approval ELSE 0])
    BY DEF Remove
  <1> DEFINE k == IF saved /\ jobs[n].never THEN jobs[n].approval ELSE 0
             m == [Blank EXCEPT !.key = k]
  <1>4. k \in 0 .. MaxApprovals /\ (k # 0 => saved /\ k = jobs[n].approval)
    <2>1. Approvals \subseteq 0 .. MaxApprovals /\ 0 \in 0 .. MaxApprovals
      BY DEF Approvals
    <2> QED BY <1>2, <2>1
  <1>5. saved /\ jobs[n].never => k = jobs[n].approval
    OBVIOUS
  <1>6. Goto(r, "idle", "delete key", m)
    BY <1>3
  <1> HIDE DEF k
  <1>7. m \in Memory /\ m.key = k /\ \A x \in Names : m.cands[x] = None
    BY <1>4, KeyedMemory
  <1> HIDE DEF m
  <1>8. "delete key" \in Places
    BY DEF Places
  <1>9. at[r] = "idle" /\ Moved(r, "delete key", m)
    BY <1>0, <1>6, <1>7, <1>8, GotoMoves
  <1>10. /\ Others(r) /\ PlacesTyped /\ at'[r] = "delete key" /\ mem'[r].key = k /\ CandsGone(r)
    BY <1>7, <1>9 DEF Moved, CandsGone
  <1>11. /\ faults' \in 0 .. MaxFaults /\ StoredTyped
         /\ saved => jobs'[n] = None /\ disk' = jobs' /\ \A x \in Names \ {n} : jobs'[x] = jobs[x]
         /\ ~saved => jobs' = jobs /\ disk' = disk
    <2>1. [jobs EXCEPT ![n] = None] \in [Names -> Optional(Job)]
      BY <1>0 DEF Typed, Optional
    <2>2. /\ faults' \in 0 .. MaxFaults /\ StoredTyped
          /\ saved => jobs' = [jobs EXCEPT ![n] = None] /\ disk' = [jobs EXCEPT ![n] = None]
          /\ ~saved => jobs' = jobs /\ disk' = disk
      BY <1>0, <1>3, <2>1, RollBackIs
    <2> QED BY <1>0, <2>2 DEF Typed
  <1>12. /\ UNCHANGED <<world, keys, running, ghosts, given, restarts, changes>>
         /\ CountsSame
    BY DEF Remove, CountsSame
  <1>13. \A x \in Names : /\ jobs'[x] \in {None, jobs[x]}
                          /\ disk'[x] \in {None, disk[x], jobs[x]}
    BY <1>11 DEF Flags
  <1>14. ASSUME NEW x \in Names, NEW i \in Known(x)'
         PROVE  i \in Known(x)
    <2>1. StoredGrow(n, None)
      BY <1>11 DEF Flags, StoredGrow
    <2>2. at'[r] \notin CopyPlaces
      BY <1>10, DeletingHoldsNothing
    <2>3. i \in Known(x) \/ (x = n /\ i = None)
      BY <1>10, <1>14, <2>1, <2>2, KnownGrows
    <2>4. i # None
      BY <1>14, KnownIsNext
    <2> QED BY <2>3, <2>4
  <1>15. ASSUME NEW b \in Approvals, Unused(b) PROVE Unused(b)'
    <2>1. \A x \in Names : \A i \in Known(x)' : i.approval # b
      BY <1>14, <1>15 DEF Unused
    <2>2. k # b
      <3>1. jobs[n].approval # b
        BY <1>2, <1>15 DEF Unused
      <3>2. b # 0
        BY DEF Approvals
      <3> QED BY <1>4, <3>1, <3>2
    <2> QED BY <1>10, <1>12, <1>15, <2>1, <2>2, StaysUnused
  <1>16. RunningOk' /\ OneAtATime'
    <2>1. at[r] \notin Held
      BY <1>9 DEF Held
    <2> QED BY <1>0, <1>10, <1>12, <2>1, AllowHolds, DeletingHoldsNothing
  <1>17. \A q \in Requests : MemOk(q)'
    BY <1>0, <1>10, MemsKept, DeletingHoldsNothing
  <1>18. KnownOk'
    <2>1. ASSUME NEW x \in Names, NEW i \in Known(x)' PROVE i.approval <= given' /\ AsShown(i)'
      <3>1. i.approval <= given /\ AsShown(i)
        BY <1>0, <1>14, <2>1 DEF KnownOk
      <3> QED BY <1>12, <3>1 DEF AsShown
    <2>2. \A x, y \in Names : \A i \in Known(x)', h \in Known(y)' : i.approval = h.approval => x = y
      BY <1>0, <1>14 DEF KnownOk
    <2> QED BY <2>1, <2>2 DEF KnownOk
  <1>19. FreshOk'
    <2>1. given' = given /\ keys' = keys
      BY <1>12
    <2> QED BY <1>0, <1>15, <2>1 DEF FreshOk
  <1>20. PendingOk'
    <2>1. ASSUME NEW b \in Approvals, NEW q \in Requests \ {r}, at[q] \in PendingPlaces,
                 mem[q].job.approval = b
          PROVE  Unused(b)'
      BY <1>0, <1>15, <2>1 DEF PendingOk, PendingIs
    <2>2. at'[r] \notin PendingPlaces
      BY <1>10, DeletingHoldsNothing
    <2> QED BY <1>0, <1>10, <1>12, <2>1, <2>2, OthersPend
  <1>21. DeletedOk'
    <2>1. ASSUME NEW q \in Requests, at'[q] = "delete key", NEW x \in Names
          PROVE  /\ jobs'[x] # None => jobs'[x].approval # mem'[q].key
                 /\ disk'[x] # None => disk'[x].approval # mem'[q].key
      <3>0. /\ jobs[x] # None => jobs[x].approval \in Approvals /\ jobs[x] \in Known(x)
            /\ disk[x] # None => disk[x].approval \in Approvals /\ disk[x] \in Known(x)
        BY <1>0, StoredIsKnown, KnownTyped, JobTyped
      <3>1. CASE q # r
        <4>1. at[q] = "delete key" /\ mem'[q] = mem[q]
          BY <1>10, <2>1, <3>1 DEF Others
        <4>2. /\ jobs[x] # None => jobs[x].approval # mem[q].key
              /\ disk[x] # None => disk[x].approval # mem[q].key
          BY <1>0, <4>1 DEF DeletedOk
        <4> QED BY <1>13, <4>1, <4>2
      <3>2. CASE q = r /\ k = 0
        <4>1. 0 \notin Approvals
          BY DEF Approvals
        <4> QED BY <1>10, <1>13, <3>0, <3>2, <4>1
      <3>3. CASE q = r /\ k # 0
        <4>1. saved /\ k = jobs[n].approval /\ disk'[x] = jobs'[x]
          BY <1>4, <1>11, <3>3
        <4>2. ASSUME jobs'[x] # None PROVE jobs'[x].approval # k
          <5>1. x # n /\ jobs'[x] = jobs[x]
            BY <1>11, <4>1, <4>2
          <5>2. jobs[x].approval # jobs[n].approval
            BY <1>0, <1>2, <3>0, <4>2, <5>1, OneName
          <5> QED BY <4>1, <5>1, <5>2
        <4> QED BY <1>10, <3>3, <4>1, <4>2
      <3> QED BY <3>1, <3>2, <3>3
    <2> QED BY <2>1 DEF DeletedOk
  <1>22. KeyOfAJobIsKept'
    <2>1. ASSUME NEW x \in Names
          PROVE  /\ jobs[x] # None /\ jobs[x].never => jobs[x].approval \in keys
                 /\ disk[x] # None /\ disk[x].never => disk[x].approval \in keys
      BY <1>0 DEF KeyOfAJobIsKept
    <2>2. ASSUME NEW x \in Names
          PROVE  /\ jobs'[x] # None /\ jobs'[x].never => jobs'[x].approval \in keys
                 /\ disk'[x] # None /\ disk'[x].never => disk'[x].approval \in keys
      BY <1>13, <2>1
    <2> QED BY <1>12, <2>2 DEF KeyOfAJobIsKept
  <1>23. NoStrayKey'
    <2>1. ASSUME NEW b \in keys', ~Named(b, jobs)', b \notin undeleted'
          PROVE  \E q \in Requests : \/ at'[q] = "allow save" /\ mem'[q].job.approval = b
                                     \/ at'[q] = "delete key" /\ mem'[q].key = b
      <3>1. b \in keys /\ b \notin undeleted /\ ~\E x \in Names : jobs'[x] # None /\ jobs'[x].never
                                                                 /\ jobs'[x].approval = b
        BY <1>12, <2>1 DEF Named
      <3>2. CASE Named(b, jobs)
        <4>1. PICK x \in Names : jobs[x] # None /\ jobs[x].never /\ jobs[x].approval = b
          BY <3>2 DEF Named
        <4>2. saved /\ x = n
          BY <1>11, <3>1, <4>1 DEF Flags
        <4> QED BY <1>5, <1>10, <4>1, <4>2
      <3>3. CASE ~Named(b, jobs)
        <4>1. PICK q \in Requests : \/ at[q] = "allow save" /\ mem[q].job.approval = b
                                    \/ at[q] = "delete key" /\ mem[q].key = b
          BY <1>0, <3>1, <3>3 DEF NoStrayKey
        <4>2. at'[q] = at[q] /\ mem'[q] = mem[q]
          BY <1>9, <1>10, <4>1 DEF Others
        <4> QED BY <4>1, <4>2
      <3> QED BY <3>2, <3>3
    <2> QED BY <2>1 DEF NoStrayKey
  <1>24. TriesOk'
    <2>1. at[r] \notin {"run refuse", "carry stop"} /\ at'[r] \notin {"run on", "carry open"}
      BY <1>9, <1>10
    <2>2. \A x \in Names : jobs'[x] # None => jobs'[x] = jobs[x]
      BY <1>13
    <2> QED BY <1>0, <1>10, <1>12, <2>1, <2>2, TriesUntouched
  <1>25. Typed'
    <2>1. keys' \subseteq Approvals /\ undeleted' \subseteq Approvals
          /\ approved' \in [Approvals -> Optional([code : Contents, value : Versions])]
      BY <1>0, <1>12 DEF Typed
    <2>2. given' \in 0 .. MaxApprovals
      BY <1>0, <1>12 DEF Typed
    <2> QED BY <1>0, <1>10, <1>11, <1>12, <2>1, <2>2, AllowTyped
  <1> QED BY <1>16, <1>17, <1>18, <1>19, <1>20, <1>21, <1>22, <1>23, <1>24, <1>25 DEF IInv

\* The key goes, or is known to have stayed.
LEMMA DeleteKeyKeeps ==
  ASSUME IInv, NEW r \in Requests, DeleteKey(r)
  PROVE  IInv'
  <1> DEFINE k == mem[r].key
  <1>0. /\ Typed /\ RunningOk /\ OneAtATime /\ KnownOk /\ FreshOk /\ PendingOk /\ DeletedOk
        /\ TriesOk /\ KeyOfAJobIsKept /\ NoStrayKey /\ \A q \in Requests : MemOk(q)
    BY DEF IInv
  <1>1. at[r] = "delete key" /\ Moved(r, "idle", Blank)
    BY <1>0, EndMoves DEF DeleteKey
  <1>2. Others(r) /\ PlacesTyped /\ at'[r] = "idle" /\ mem'[r] = Blank
    BY <1>1 DEF Moved
  <1>3. /\ UNCHANGED <<world, kept, running, approved, swaps, guesses, given, restarts, changes>>
        /\ CountsSame
    BY DEF DeleteKey, CountsSame
  <1>4. k \in 0 .. MaxApprovals
    BY <1>0, MemoryTyped DEF Typed
  <1>5. /\ keys \ {k} \subseteq keys' /\ keys' \subseteq keys
        /\ undeleted \subseteq undeleted' /\ (k \in keys' => k \in undeleted')
        /\ keys' \subseteq Approvals /\ undeleted' \subseteq Approvals /\ faults' \in 0 .. MaxFaults
    <2>1. CASE keys' = keys \ {k} /\ UNCHANGED <<undeleted, faults>>
      <3>1. faults' \in 0 .. MaxFaults
        BY <1>0, <2>1 DEF Typed
      <3> QED BY <1>0, <2>1, <3>1 DEF Typed
    <2>2. CASE k # 0 /\ Fault /\ undeleted' = undeleted \union {k} /\ UNCHANGED keys
      <3>1. k \in Approvals
        BY <1>4, <2>2 DEF Approvals
      <3>2. faults' \in 0 .. MaxFaults
        BY <1>0, <2>2, FaultTyped
      <3> QED BY <1>0, <2>2, <3>1, <3>2 DEF Typed
    <2> QED BY <2>1, <2>2 DEF DeleteKey
  <1> HIDE DEF k
  <1>6. ASSUME NEW x \in Names, NEW i \in Known(x)'
        PROVE  i \in Known(x)
    <2>1. \A y \in Names : mem'[r].cands[y] = None
      BY <1>2, BlankTyped
    <2> QED BY <1>2, <1>3, <2>1, IdleIsNowhere, KnownShrinks
  <1>7. ASSUME NEW b \in Approvals, Unused(b) PROVE Unused(b)' /\ b # k
    <2>1. \A x \in Names : \A i \in Known(x)' : i.approval # b
      BY <1>6, <1>7 DEF Unused
    <2>2. b # k
      BY <1>1, <1>7 DEF Unused, k
    <2> QED BY <1>2, <1>3, <1>7, <2>1, <2>2, StaysUnused
  <1>8. RunningOk' /\ OneAtATime'
    <2>1. at[r] \notin Held
      BY <1>1 DEF Held
    <2> QED BY <1>0, <1>2, <1>3, <2>1, AllowHolds, IdleIsNowhere
  <1>9. \A q \in Requests : MemOk(q)'
    BY <1>0, <1>2, MemsKept, BlankHoldsNothing
  <1>10. KnownOk'
    <2>1. ASSUME NEW x \in Names, NEW i \in Known(x)' PROVE i.approval <= given' /\ AsShown(i)'
      <3>1. i.approval <= given /\ AsShown(i)
        BY <1>0, <1>6, <2>1 DEF KnownOk
      <3> QED BY <1>3, <3>1 DEF AsShown
    <2>2. \A x, y \in Names : \A i \in Known(x)', h \in Known(y)' : i.approval = h.approval => x = y
      BY <1>0, <1>6 DEF KnownOk
    <2> QED BY <2>1, <2>2 DEF KnownOk
  <1>11. FreshOk'
    <2>1. given' = given
      BY <1>3
    <2> QED BY <1>0, <1>5, <1>7, <2>1 DEF FreshOk
  <1>12. PendingOk'
    <2>1. ASSUME NEW b \in Approvals, NEW q \in Requests \ {r}, at[q] \in PendingPlaces,
                 mem[q].job.approval = b
          PROVE  Unused(b)' /\ (b \in keys <=> b \in keys')
      <3>1. Unused(b)
        BY <1>0, <2>1 DEF PendingOk, PendingIs
      <3> QED BY <1>5, <1>7, <3>1
    <2> QED BY <1>0, <1>2, <1>3, <2>1, IdleIsNowhere, OthersPend
  <1>13. DeletedOk'
    <2>1. \A q \in Requests : at'[q] = "delete key" => at[q] = "delete key" /\ mem'[q] = mem[q]
      BY <1>2 DEF Others
    <2> QED BY <1>0, <1>3, <2>1 DEF DeletedOk
  <1>14. KeyOfAJobIsKept'
    <2>1. ASSUME NEW x \in Names
          PROVE  /\ jobs[x] # None /\ jobs[x].never => jobs[x].approval \in keys'
                 /\ disk[x] # None /\ disk[x].never => disk[x].approval \in keys'
      <3>1. /\ jobs[x] # None /\ jobs[x].never => jobs[x].approval \in keys
            /\ disk[x] # None /\ disk[x].never => disk[x].approval \in keys
        BY <1>0 DEF KeyOfAJobIsKept
      <3>2. /\ jobs[x] # None => jobs[x].approval # k
            /\ disk[x] # None => disk[x].approval # k
        BY <1>0, <1>1 DEF DeletedOk, k
      <3> QED BY <1>5, <3>1, <3>2
    <2> QED BY <1>3, <2>1 DEF KeyOfAJobIsKept
  <1>15. NoStrayKey'
    <2>1. ASSUME NEW b \in keys', ~Named(b, jobs)', b \notin undeleted'
          PROVE  \E q \in Requests : \/ at'[q] = "allow save" /\ mem'[q].job.approval = b
                                     \/ at'[q] = "delete key" /\ mem'[q].key = b
      <3>1. b \in keys /\ b # k /\ b \notin undeleted /\ ~Named(b, jobs)
        BY <1>3, <1>5, <2>1 DEF Named
      <3>2. PICK q \in Requests : \/ at[q] = "allow save" /\ mem[q].job.approval = b
                                  \/ at[q] = "delete key" /\ mem[q].key = b
        BY <1>0, <3>1 DEF NoStrayKey
      <3>3. q # r
        BY <1>1, <3>1, <3>2 DEF k
      <3> QED BY <1>2, <3>2, <3>3 DEF Others
    <2> QED BY <2>1 DEF NoStrayKey
  <1>16. TriesOk'
    <2>1. at[r] \notin {"run refuse", "carry stop"} /\ at'[r] \notin {"run on", "carry open"}
      BY <1>1, <1>2
    <2> QED BY <1>0, <1>2, <1>3, <2>1, TriesUntouched
  <1>17. Typed'
    <2>1. StoredTyped /\ approved' \in [Approvals -> Optional([code : Contents, value : Versions])]
      BY <1>0, <1>3 DEF Typed, StoredTyped
    <2>2. given' \in 0 .. MaxApprovals
      BY <1>0, <1>3 DEF Typed
    <2> QED BY <1>0, <1>2, <1>3, <1>5, <2>1, <2>2, AllowTyped
  <1> QED BY <1>8, <1>9, <1>10, <1>11, <1>12, <1>13, <1>14, <1>15, <1>16, <1>17 DEF IInv

-------------------------------------------------------------------------------
(* The service, and all of it                                              *)

\* The folder, the vault and the setting are not what the invariant is about.
LEMMA WorldKeeps ==
  ASSUME IInv, UNCHANGED <<kept, keys, running, at, mem, ghosts, given, faults, restarts>>,
         folder' \in Contents, vault' \in Optional(Versions), setting' \in Optional(Versions),
         changes' \in 0 .. MaxChanges
  PROVE  IInv'
  <1>1. Typed' /\ RunningOk' /\ OneAtATime' /\ KeyOfAJobIsKept' /\ NoStrayKey' /\ DeletedOk'
    <2>1. Typed'
      BY DEF IInv, Typed
    <2>2. RunningOk' /\ OneAtATime' /\ DeletedOk'
      BY DEF IInv, RunningOk, OneAtATime, DeletedOk
    <2>3. KeyOfAJobIsKept' /\ NoStrayKey'
      BY DEF IInv, KeyOfAJobIsKept, NoStrayKey, Named
    <2> QED BY <2>1, <2>2, <2>3
  <1>2. \A r \in Requests : MemOk(r)'
    BY DEF IInv, MemOk
  <1>3. \A n : Known(n)' = Known(n)
    BY DEF Known
  <1>4. KnownOk'
    BY <1>3 DEF IInv, KnownOk, AsShown
  <1>5. \A a : Unused(a)' <=> Unused(a)
    BY <1>3 DEF Unused
  <1>6. FreshOk'
    BY <1>5 DEF IInv, FreshOk
  <1>7. PendingOk'
    BY <1>3 DEF IInv, PendingOk, PendingIs, Unused, AsShown
  <1>8. TriesOk'
    BY ZenonT(60) DEF IInv, TriesOk, OneTryPerApproval, Caught
  <1> QED BY <1>1, <1>2, <1>4, <1>6, <1>7, <1>8 DEF IInv

LEMMA ChangeTyped ==
  ASSUME Typed, Change
  PROVE  changes' \in 0 .. MaxChanges
  BY DEF Typed, Change

LEMMA EditKeeps ==
  ASSUME IInv, Edit \/ ChangeVault \/ ChangeSetting
  PROVE  IInv'
  <1>1. Typed
    BY DEF IInv
  <1>2. changes' \in 0 .. MaxChanges
    BY <1>1, ChangeTyped DEF Edit, ChangeVault, ChangeSetting
  <1>3. folder' \in Contents /\ vault' \in Optional(Versions) /\ setting' \in Optional(Versions)
    BY <1>1 DEF Typed, Edit, ChangeVault, ChangeSetting
  <1>4. UNCHANGED <<kept, keys, running, at, mem, ghosts, given, faults, restarts>>
    BY DEF Edit, ChangeVault, ChangeSetting
  <1> QED BY <1>2, <1>3, <1>4, WorldKeeps

LEMMA NothingKeeps ==
  ASSUME IInv, UNCHANGED vars
  PROVE  IInv'
  <1>1. UNCHANGED <<kept, keys, running, at, mem, ghosts, given, faults, restarts, world, changes>>
    BY DEF vars
  <1>2. /\ folder' \in Contents /\ vault' \in Optional(Versions) /\ setting' \in Optional(Versions)
        /\ changes' \in 0 .. MaxChanges
    BY <1>1 DEF IInv, Typed
  <1> QED BY <1>1, <1>2, WorldKeeps

\* Whatever was saved, or not, jobs.json holds jobs as they were shown, and
\* the keys it names survive.
LEMMA RestartKeeps ==
  ASSUME IInv, Restart
  PROVE  IInv'
  <1>0. Typed /\ KnownOk /\ FreshOk /\ KeyOfAJobIsKept
    BY DEF IInv
  <1>1. /\ jobs' = disk /\ disk' = disk /\ given' = given /\ approved' = approved
        /\ keys' = {k \in keys : Named(k, disk)} /\ undeleted' = {} /\ running' = {}
        /\ swaps' = [a \in Approvals |-> 0] /\ guesses' = [a \in Approvals |-> 0]
    BY DEF Restart
  <1>2. \A r \in Requests : at'[r] = "idle" /\ mem'[r] = Blank
    BY DEF Restart
  <1>3. ASSUME NEW x \in Names, NEW i \in Known(x)' PROVE i \in Known(x)
    <2>1. i # None /\ i = disk[x]
      BY <1>1, <1>2, <1>3, KnownIsNext, BlankTyped, IdleIsNowhere
    <2> QED BY <2>1, KnownIs
  <1>4. Typed'
    <2>1. PlacesTyped
      BY BlankTyped DEF Restart, PlacesTyped, Places
    <2>2. swaps' \in [Approvals -> Nat] /\ guesses' \in [Approvals -> Nat]
      BY <1>1
    <2>3. restarts' \in 0 .. MaxRestarts
      BY <1>0 DEF Typed, Restart
    <2>4. UNCHANGED <<world, faults, changes>>
      BY DEF Restart
    <2> QED BY <1>0, <1>1, <2>1, <2>2, <2>3, <2>4 DEF Typed, PlacesTyped
  <1>5. RunningOk' /\ OneAtATime'
    BY <1>1, <1>2, IdleIsNowhere DEF RunningOk, OneAtATime
  <1>6. \A r \in Requests : MemOk(r)'
    BY <1>2, BlankHoldsNothing
  <1>7. KnownOk'
    BY <1>0, <1>1, <1>3 DEF KnownOk, AsShown
  <1>8. FreshOk'
    <2>1. ASSUME NEW a \in Approvals, a > given' PROVE Unused(a)' /\ a \notin keys'
      <3>1. Unused(a) /\ a \notin keys
        BY <1>0, <1>1, <2>1 DEF FreshOk
      <3>2. \A x \in Names : \A i \in Known(x)' : i.approval # a
        BY <1>3, <3>1 DEF Unused
      <3>3. swaps'[a] = 0 /\ guesses'[a] = 0
        BY <1>1
      <3>4. \A r \in Requests : at'[r] # "delete key"
        BY <1>2
      <3> QED BY <1>1, <3>1, <3>2, <3>3, <3>4 DEF Unused
    <2> QED BY <2>1 DEF FreshOk
  <1>9. PendingOk' /\ DeletedOk'
    BY <1>2, IdleIsNowhere DEF PendingOk, DeletedOk
  <1>10. KeyOfAJobIsKept' /\ NoStrayKey'
    <2>1. ASSUME NEW x \in Names, disk[x] # None, disk[x].never PROVE disk[x].approval \in keys'
      BY <1>0, <1>1, <2>1 DEF KeyOfAJobIsKept, Named
    <2>2. KeyOfAJobIsKept'
      BY <1>1, <2>1 DEF KeyOfAJobIsKept
    <2>3. NoStrayKey'
      BY <1>1 DEF NoStrayKey, Named
    <2> QED BY <2>2, <2>3
  <1>11. TriesOk'
    <2>1. ASSUME NEW a \in Approvals PROVE swaps'[a] = 0 /\ guesses'[a] = 0
      BY <1>1
    <2>2. OneTryPerApproval'
      <3>1. ASSUME NEW a \in Approvals PROVE swaps'[a] <= 1 /\ guesses'[a] <= 1
        BY <2>1
      <3> QED BY <3>1 DEF OneTryPerApproval
    <2>3. ASSUME NEW n \in Names, jobs'[n] # None PROVE jobs'[n].approval \in Approvals
      <3>1. disk[n] \in Job
        BY <1>0, <1>1, <2>3 DEF Typed, Optional
      <3> QED BY <1>1, <3>1, JobTyped
    <2> QED BY <1>2, <2>1, <2>2, <2>3 DEF TriesOk
  <1> QED BY <1>4, <1>5, <1>6, <1>7, <1>8, <1>9, <1>10, <1>11 DEF IInv

LEMMA InitIInv == Init => IInv
  <1> SUFFICES ASSUME Init PROVE IInv
    OBVIOUS
  <1>1. \A r \in Requests : at[r] = "idle" /\ mem[r] = Blank
    BY DEF Init
  <1>2. \A n \in Names : jobs[n] = None /\ disk[n] = None
    BY DEF Init
  <1>3. ASSUME NEW n \in Names, NEW j \in Known(n) PROVE FALSE
    BY <1>1, <1>2, <1>3, KnownIs, BlankTyped, IdleIsNowhere
  <1>4. keys = {} /\ running = {} /\ undeleted = {} /\ given = 0
    BY DEF Init
  <1>5. \A a \in Approvals : swaps[a] = 0 /\ guesses[a] = 0
    BY DEF Init
  <1>6. Typed
    <2>1. at \in [Requests -> Places] /\ mem \in [Requests -> Memory]
      BY BlankTyped DEF Init, Places
    <2>2. swaps \in [Approvals -> Nat] /\ guesses \in [Approvals -> Nat]
      BY DEF Init
    <2>3. faults \in 0 .. MaxFaults /\ restarts \in 0 .. MaxRestarts /\ changes \in 0 .. MaxChanges
          /\ given \in 0 .. MaxApprovals
      BY DEF Init
    <2>4. /\ folder \in Contents /\ vault \in Optional(Versions) /\ setting \in Optional(Versions)
          /\ jobs \in [Names -> Optional(Job)] /\ disk \in [Names -> Optional(Job)]
          /\ approved \in [Approvals -> Optional([code : Contents, value : Versions])]
      BY DEF Init, Optional
    <2> QED BY <1>4, <2>1, <2>2, <2>3, <2>4 DEF Typed
  <1>7. RunningOk /\ OneAtATime
    BY <1>1, <1>4, IdleIsNowhere DEF RunningOk, OneAtATime
  <1>8. \A r \in Requests : MemOk(r)
    BY <1>1, BlankTyped DEF MemOk, CopyPlaces, PendingPlaces, Carrying
  <1>9. KnownOk
    BY <1>3 DEF KnownOk
  <1>10. FreshOk
    BY <1>1, <1>3, <1>4, <1>5 DEF FreshOk, Unused
  <1>11. PendingOk /\ DeletedOk
    BY <1>1, IdleIsNowhere DEF PendingOk, DeletedOk
  <1>12. KeyOfAJobIsKept /\ NoStrayKey
    BY <1>2, <1>4 DEF KeyOfAJobIsKept, NoStrayKey
  <1>13. TriesOk
    <2>1. OneTryPerApproval
      <3>1. ASSUME NEW a \in Approvals PROVE swaps[a] <= 1 /\ guesses[a] <= 1
        BY <1>5
      <3> QED BY <3>1 DEF OneTryPerApproval
    <2> QED BY <1>1, <1>2, <2>1 DEF TriesOk
  <1> QED BY <1>6, <1>7, <1>8, <1>9, <1>10, <1>11, <1>12, <1>13 DEF IInv

LEMMA StepKeeps ==
  ASSUME IInv, [Next]_vars
  PROVE  IInv'
  <1>1. ASSUME NEW r \in Requests, Allow(r) PROVE IInv'
    BY <1>1, AllowStartKeeps, AllowRefusedKeeps, AllowGivenKeeps, AllowSaveKeeps, DeleteKeyKeeps
    DEF Allow
  <1>2. ASSUME NEW r \in Requests, Run(r) PROVE IInv'
    BY <1>2, RunStartKeeps, RunEnterKeeps, RunSecretKeeps, RunOpenKeeps, RunSkipKeeps,
       RunPromptKeeps, RunLiveKeeps, RunnerFailsKeeps, RunEndKeeps, RunRefuseKeeps DEF Run
  <1>3. ASSUME NEW r \in Requests, Carry(r) PROVE IInv'
    BY <1>3, CarryStartKeeps, CarryNextKeeps, CarryCannotOpenKeeps, CarryCompareKeeps,
       CarryStopKeeps, CarryCheckKeeps, CarryStoreKeeps, CarryEndKeeps DEF Carry
  <1>4. ASSUME NEW r \in Requests, NEW n \in Names, Remove(r, n) PROVE IInv'
    BY <1>4, RemoveKeeps
  <1>5. CASE UNCHANGED vars
    BY <1>5, NothingKeeps
  <1>6. CASE Next
    BY <1>1, <1>2, <1>3, <1>4, <1>6, EditKeeps, RestartKeeps DEF Next
  <1> QED BY <1>5, <1>6

LEMMA IInvAlways == Spec => []IInv
  BY InitIInv, StepKeeps, PTL DEF Spec

\* What is stored for the same approval is the same job, or a version of it.
LEMMA AllowSaveSticks ==
  ASSUME IInv, NEW r \in Requests, AllowSave(r), NEW n \in Names,
         jobs[n] # None, jobs'[n].approval = jobs[n].approval
  PROVE  jobs'[n] = jobs[n]
  <1>0. Typed /\ at[r] \in PendingPlaces /\ MemOk(r) /\ PendingIs(r)
    BY DEF IInv, PendingOk, AllowSave, PendingPlaces
  <1>1. mem[r].job \in Job /\ mem[r].job.approval \in Approvals
    BY <1>0, PendingTyped
  <1>2. PICK saved \in Flags : SaveOrRollBack([jobs EXCEPT ![mem[r].name] = mem[r].job], saved)
    BY DEF AllowSave
  <1>3. [jobs EXCEPT ![mem[r].name] = mem[r].job] \in [Names -> Optional(Job)]
    BY <1>0, <1>1 DEF Typed, Optional
  <1>4. \/ jobs' = jobs
        \/ jobs' = [jobs EXCEPT ![mem[r].name] = mem[r].job]
    BY <1>0, <1>2, <1>3, RollBackIs DEF Flags
  <1>5. jobs[n].approval # mem[r].job.approval
    BY <1>0, StoredIsKnown DEF PendingIs, Unused
  <1> QED BY <1>0, <1>4, <1>5 DEF Typed

LEMMA RemoveSticks ==
  ASSUME IInv, NEW r \in Requests, NEW m \in Names, Remove(r, m), NEW n \in Names, jobs'[n] # None
  PROVE  jobs'[n] = jobs[n]
  <1>0. Typed
    BY DEF IInv
  <1>1. PICK saved \in Flags : SaveOrRollBack([jobs EXCEPT ![m] = None], saved)
    BY DEF Remove
  <1>2. [jobs EXCEPT ![m] = None] \in [Names -> Optional(Job)]
    BY <1>0 DEF Typed, Optional
  <1>3. jobs' = jobs \/ jobs' = [jobs EXCEPT ![m] = None]
    BY <1>0, <1>1, <1>2, RollBackIs DEF Flags
  <1> QED BY <1>0, <1>3 DEF Typed

Stopped(n) == jobs[n] # None /\ jobs[n].stopped # None
SameJob(n) == jobs'[n] # None /\ jobs'[n].approval = jobs[n].approval

LEMMA VersionSticks ==
  ASSUME NEW n \in Names, Stopped(n), StoredLike
  PROVE  jobs'[n].stopped # None
  BY DEF Stopped, StoredLike, JobsLike, Like

LEMMA StepSticks ==
  ASSUME IInv, Next, NEW n \in Names, Stopped(n), SameJob(n)
  PROVE  jobs'[n].stopped # None \/ restarts' # restarts
  <1>1. ASSUME NEW r \in Requests, Allow(r) PROVE jobs'[n].stopped # None
    <2>1. CASE AllowSave(r)
      <3>1. jobs'[n] = jobs[n]
        BY <2>1, AllowSaveSticks DEF Stopped, SameJob
      <3> QED BY <3>1 DEF Stopped
    <2>2. CASE UNCHANGED jobs
      BY <2>2 DEF Stopped
    <2> QED BY <1>1, <2>1, <2>2 DEF Allow, AllowStart, AllowRefused, AllowGiven, DeleteKey
  <1>2. ASSUME NEW r \in Requests, Run(r) PROVE jobs'[n].stopped # None
    <2>1. CASE RunRefuse(r)
      BY <2>1, RunRefuseKeeps, VersionSticks
    <2>2. CASE UNCHANGED jobs
      BY <2>2 DEF Stopped
    <2> QED BY <1>2, <2>1, <2>2
        DEF Run, RunStart, RunEnter, RunSecret, RunOpen, RunSkip, RunPrompt, RunLive, RunnerFails, RunEnd
  <1>3. ASSUME NEW r \in Requests, Carry(r) PROVE jobs'[n].stopped # None
    <2>1. CASE CarryStop(r)
      BY <2>1, CarryStopKeeps, VersionSticks
    <2>2. CASE CarryStore(r)
      BY <2>2, CarryStoreKeeps, VersionSticks
    <2>3. CASE UNCHANGED jobs
      BY <2>3 DEF Stopped
    <2> QED BY <1>3, <2>1, <2>2, <2>3
        DEF Carry, CarryStart, CarryNext, CarryCannotOpen, CarryCompare, CarryCheck, CarryEnd
  <1>4. ASSUME NEW r \in Requests, NEW m \in Names, Remove(r, m) PROVE jobs'[n].stopped # None
    <2>1. jobs'[n] = jobs[n]
      BY <1>4, RemoveSticks DEF SameJob
    <2> QED BY <2>1 DEF Stopped
  <1>5. CASE Edit \/ ChangeVault \/ ChangeSetting
    BY <1>5 DEF Edit, ChangeVault, ChangeSetting, Stopped
  <1>6. CASE Restart
    <2>1. Typed
      BY DEF IInv
    <2> QED BY <1>6, <2>1 DEF Restart, Typed
  <1> QED BY <1>1, <1>2, <1>3, <1>4, <1>5, <1>6 DEF Next

-------------------------------------------------------------------------------

\* The agent's jobs, their keys and its requests keep their types, and the
\* names in jobRunning are those of the runs that hold them.
THEOREM JobsTyped == Spec => []TypeOK
  <1>1. IInv => TypeOK
    BY DEF IInv, Typed, RunningOk, TypeOK
  <1> QED BY <1>1, IInvAlways, PTL

\* A stored job runs the folder its human was shown and reads the value they
\* approved, although both may be rewritten while they are checked
\* (prepareJob, storeCarried).
THEOREM JobsAreWhatWasApproved == Spec => []JobIsWhatWasApproved
  <1>1. IInv => JobIsWhatWasApproved
    <2> SUFFICES ASSUME IInv, NEW n \in Names, jobs[n] # None
                 PROVE  LET shown == approved[jobs[n].approval]
                        IN /\ jobs[n].code = shown.code
                           /\ (IF HasSecret(jobs[n]) THEN jobs[n].secret ELSE jobs[n].carried) = shown.value
      BY DEF JobIsWhatWasApproved
    <2>1. AsShown(jobs[n])
      BY StoredIsKnown DEF IInv, KnownOk
    <2> QED BY <2>1 DEF AsShown, HasSecret
  <1> QED BY <1>1, IInvAlways, PTL

\* A job that never asks has its key, in memory and in jobs.json, at whatever
\* moment the service dies, and no key outlives its job but in the hands of
\* the request that is about to delete it (handleJobAllow, removeJob).
THEOREM JobsKeysFollow == Spec => []KeysFollowJobs
  <1>1. IInv => KeyOfAJobIsKept /\ NoStrayKey
    BY DEF IInv
  <1> QED BY <1>1, JobsTyped, IInvAlways, PTL DEF KeysFollowJobs

\* However many requests a caller overlaps, one approval buys one caught swap
\* and one guess, and a stopped job stays stopped until it is approved again
\* or the service restarts (refuseJob, stopCarried, storeCarried).
THEOREM JobsOneTryAndStopped == Spec => OneTryAndStopped
  <1>1. IInv => OneTryPerApproval
    BY DEF IInv, TriesOk
  <1>2. IInv /\ [Next]_vars =>
          [\A n \in Names :
             /\ jobs[n] # None /\ jobs[n].stopped # None
             /\ jobs'[n] # None /\ jobs'[n].approval = jobs[n].approval
             => jobs'[n].stopped # None \/ restarts' # restarts]_vars
    BY StepSticks DEF Stopped, SameJob
  <1> QED BY <1>1, <1>2, IInvAlways, PTL DEF Spec, OneTryAndStopped, StopIsSticky
===============================================================================
