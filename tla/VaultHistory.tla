----------------------------- MODULE VaultHistory -----------------------------
(***************************************************************************)
(* One secret and the versions it replaced: `jit vault set` archives the   *)
(* outgoing envelope under _history/<path>/<stamp>.enc before it writes    *)
(* the new one and prunes to the newest HistoryKeep; `restore` renames a   *)
(* version back; `rm` deletes the secret and then its history.  Each is    *)
(* several steps on files with no lock around them; each may fail, and a   *)
(* command may be killed between any two.  An envelope is a version here:  *)
(* files move whole, and AtomicWriteFile is one step.                      *)
(* Sources: src/internal/vault/vault.go, history.go, lostkey.go.           *)
(***************************************************************************)
EXTENDS Naturals, FiniteSets, FiniteSetsExt, Functions

CONSTANTS
    Processes,     \* command-line processes
    Versions, None,
    HistoryKeep,   \* versions kept of one secret
    MaxStamp,      \* bound: archived stamps 1 .. MaxStamp
    MaxKills,      \* bound: commands killed between two steps
    MaxFails,      \* bound: failures that leave a version that should go
    MaxSteps       \* bound: times the wall clock is set back

ASSUME KeepAssumption == HistoryKeep \in Nat \ {0}
ASSUME HistoryBoundsAreNaturals == {MaxStamp, MaxKills, MaxFails, MaxSteps} \subseteq Nat
ASSUME NoneIsNoVersion == None \notin Versions

VARIABLES
    live,      \* the envelope at the secret's path
    history,   \* stamp |-> the envelope archived under it
    lost,      \* versions sealed to a lost enclave key
    recorded,  \* those of them whose hash a lost key's record lists
    upTo,      \* when the last record was made that could not list everything
    clock,     \* the wall clock, as archive stamps see it
    stage, knows,   \* where each command is, and what it holds
    kills, fails, steps

historyVars == <<live, history, lost, recorded, upTo, clock, stage, knows, kills, fails, steps>>
files == <<live, history>>
sealing == <<lost, recorded, upTo>>
limits == <<kills, fails, steps>>

Stamps == 1 .. MaxStamp   \* a command starts only while its stamp will be one
VersionOrNone == Versions \union {None}
Stages == {"idle", "set archive", "set prune", "set drop", "set write",
           "restore archive", "restore rename", "restore prune", "restore drop", "rm history"}
\* old: the live envelope a set read; new: the one it will write; from: the
\* stamp a restore was asked for; doomed: the stamps a prune found too old;
\* missed: it could not look at all there is, or not remove one of them
Knowledge ==
    [old : VersionOrNone, new : VersionOrNone, from : 0 .. MaxStamp, doomed : SUBSET Stamps,
     missed : BOOLEAN]
KnowsNothing == [old |-> None, new |-> None, from |-> 0, doomed |-> {}, missed |-> FALSE]
Archived == DOMAIN history
Stored == {live} \union {history[s] : s \in Archived}

HistoryInit ==
    /\ live = None /\ history = [s \in {} |-> None]
    /\ lost = {} /\ recorded = {} /\ upTo = 0 /\ clock = 1
    /\ stage = [c \in Processes |-> "idle"] /\ knows = [c \in Processes |-> KnowsNothing]
    /\ kills = 0 /\ fails = 0 /\ steps = 0

-------------------------------------------------------------------------------
Turn(c, from, to) == stage[c] = from /\ stage' = [stage EXCEPT ![c] = to]
Learn(c, m) == knows' = [knows EXCEPT ![c] = m]
Without(s) == Restrict(history, Archived \ {s})
\* A new envelope's data key is new, and so are its bytes.
Fresh(v) == v \notin Stored \union lost \union {knows[c].new : c \in Processes}
                \union {knows[c].old : c \in Processes}

\* archiveVersion's write, at the time it is now.
Archive(v) ==
    /\ history' = [s \in Archived \union {clock} |-> IF s = clock THEN v ELSE history[s]]
    /\ clock' = clock + 1

Fail == fails < MaxFails /\ fails' = fails + 1

\* A record lists the version's bytes, or it could not list everything and the
\* file is from before it.
ProvenLost(s) == history[s] \in recorded
PresumedLost(s) == s < upTo

\* What takes a place in the history: not what is, or may be, a lost key's.
Prunable == {s \in Archived : ~ProvenLost(s) /\ ~PresumedLost(s)}

\* Mutant of TooOld: a lost key's copies take places and are dropped.
TooOldOfAll(prunable) ==
    {s \in Archived : Cardinality({t \in Archived : t > s}) >= HistoryKeep}

\* The oldest of them past HistoryKeep.
TooOld(prunable) == {s \in prunable : Cardinality({t \in prunable : t > s}) >= HistoryKeep}

-------------------------------------------------------------------------------
(* Vault.setEnvelope *)

\* The existing envelope is read; the data key is wrapped after that.
SetRead(c, v) ==
    /\ clock \in Stamps /\ Fresh(v) /\ Turn(c, "idle", "set archive")
    /\ Learn(c, [KnowsNothing EXCEPT !.old = live, !.new = v])
    /\ UNCHANGED <<files, sealing, clock, limits>>

\* The prompt is refused; or the archive's write, or the envelope's, fails.
SetFails(c) ==
    /\ \E from \in {"set archive", "set write"} : Turn(c, from, "idle")
    /\ Learn(c, KnowsNothing)
    /\ UNCHANGED <<files, sealing, clock, limits>>

\* Mutant of SetArchive: the outgoing envelope is not archived.
SetNoArchive(c) ==
    /\ Turn(c, "set archive", "set prune")
    /\ UNCHANGED <<files, sealing, clock, knows, limits>>

SetArchive(c) ==
    /\ Turn(c, "set archive", IF knows[c].old = None THEN "set write" ELSE "set prune")
    /\ IF knows[c].old = None THEN UNCHANGED <<history, clock>> ELSE Archive(knows[c].old)
    /\ UNCHANGED <<live, sealing, knows, limits>>

\* A prune lists what is there, and removes file by file.
Prune(c, from, to) ==
    /\ Turn(c, from, to)
    /\ Learn(c, [knows[c] EXCEPT !.doomed = TooOld(Prunable)])
    /\ UNCHANGED <<files, sealing, clock, limits>>

\* The lost keys' records cannot be read: it keeps everything.  Or one version
\* cannot be read to compare with them: it is spared.
PruneBlind(c, from, to) ==
    /\ Fail /\ Cardinality(Archived) > HistoryKeep
    /\ \E unread \in {Archived} \union {{s} : s \in Prunable} :
          Learn(c, [knows[c] EXCEPT !.doomed = TooOld(Prunable \ unread), !.missed = TRUE])
    /\ Turn(c, from, to)
    /\ UNCHANGED <<files, sealing, clock, kills, steps>>

\* The history cannot be listed: a set stops at it, and a restore is done.
PruneFails(c, from) ==
    /\ Fail /\ Turn(c, from, "idle") /\ Learn(c, KnowsNothing)
    /\ UNCHANGED <<files, sealing, clock, kills, steps>>

Drop(c, from, s) ==
    /\ Turn(c, from, from) /\ s \in knows[c].doomed
    /\ history' = Without(s)
    /\ Learn(c, [knows[c] EXCEPT !.doomed = @ \ {s}])
    /\ UNCHANGED <<live, sealing, clock, limits>>

\* A remove that fails is ignored.
DropFails(c, from, s) ==
    /\ Fail /\ Turn(c, from, from) /\ s \in knows[c].doomed
    /\ Learn(c, [knows[c] EXCEPT !.doomed = @ \ {s}, !.missed = TRUE])
    /\ UNCHANGED <<files, sealing, clock, kills, steps>>

\* All of it, for a set or a restore.
PruneHistory(c, prune, drop) ==
    \/ Prune(c, prune, drop) \/ PruneBlind(c, prune, drop) \/ PruneFails(c, prune)
    \/ \E s \in Stamps : Drop(c, drop, s) \/ DropFails(c, drop, s)

SetDropped(c) ==
    /\ knows[c].doomed = {} /\ Turn(c, "set drop", "set write")
    /\ UNCHANGED <<files, sealing, clock, knows, limits>>

SetWrite(c) ==
    /\ Turn(c, "set write", "idle")
    /\ live' = knows[c].new
    /\ Learn(c, KnowsNothing)
    /\ UNCHANGED <<history, sealing, clock, limits>>

Set(c) ==
    \/ \E v \in Versions : SetRead(c, v)
    \/ SetFails(c) \/ SetArchive(c) \/ PruneHistory(c, "set prune", "set drop")
    \/ SetDropped(c) \/ SetWrite(c)

-------------------------------------------------------------------------------
(* Vault.Restore *)

RestoreStart(c, s) ==
    /\ clock \in Stamps /\ s \in Archived /\ Turn(c, "idle", "restore archive")
    /\ Learn(c, [KnowsNothing EXCEPT !.from = s])
    /\ UNCHANGED <<files, sealing, clock, limits>>

\* Mutant of RestoreArchive: it prunes, as archiveVersion does.
RestoreArchivePruned(c) ==
    /\ Turn(c, "restore archive", "restore rename")
    /\ LET kept == {s \in Archived :
               Cardinality({t \in Archived : t > s}) < HistoryKeep - (IF live = None THEN 0 ELSE 1)}
       IN /\ history' = [s \in kept \union (IF live = None THEN {} ELSE {clock}) |->
                            IF s = clock THEN live ELSE history[s]]
          /\ clock' = clock + 1
    /\ UNCHANGED <<live, sealing, knows, limits>>

\* The displaced value is archived and nothing pruned yet.
RestoreArchive(c) ==
    /\ Turn(c, "restore archive", "restore rename")
    /\ IF live = None THEN UNCHANGED <<history, clock>> ELSE Archive(live)
    /\ UNCHANGED <<live, sealing, knows, limits>>

\* The live value cannot be read, or not archived.
RestoreStops(c) ==
    /\ Turn(c, "restore archive", "idle") /\ Learn(c, KnowsNothing)
    /\ UNCHANGED <<files, sealing, clock, limits>>

RestoreRename(c) ==
    LET from == knows[c].from
    IN /\ Turn(c, "restore rename", "restore prune") /\ from \in Archived
       /\ live' = history[from]
       /\ history' = Without(from)
       /\ Learn(c, KnowsNothing)
       /\ UNCHANGED <<sealing, clock, limits>>

\* The rename fails, or the making of the directory before it, and always if
\* another command took the version meanwhile: nothing is pruned.
RestoreRenameFails(c) ==
    /\ Turn(c, "restore rename", "idle") /\ Learn(c, KnowsNothing)
    /\ IF knows[c].from \in Archived THEN Fail ELSE UNCHANGED fails
    /\ UNCHANGED <<files, sealing, clock, kills, steps>>

RestoreDropped(c) ==
    /\ knows[c].doomed = {} /\ Turn(c, "restore drop", "idle")
    /\ UNCHANGED <<files, sealing, clock, knows, limits>>

Restore(c) ==
    \/ \E s \in Stamps : RestoreStart(c, s)
    \/ RestoreArchive(c) \/ RestoreStops(c) \/ RestoreRename(c) \/ RestoreRenameFails(c)
    \/ PruneHistory(c, "restore prune", "restore drop") \/ RestoreDropped(c)

-------------------------------------------------------------------------------
(* Vault.Remove and Vault.ForgetHistory *)

RemoveLive(c) ==
    /\ live # None /\ Turn(c, "idle", "rm history")
    /\ live' = None
    /\ UNCHANGED <<history, sealing, clock, knows, limits>>

RemoveHistory(c) ==
    /\ Turn(c, "rm history", "idle")
    /\ history' = [s \in {} |-> None]
    /\ UNCHANGED <<live, sealing, clock, knows, limits>>

\* os.RemoveAll stops at what it cannot delete, or is cut short.
RemoveHistoryFails(c) ==
    /\ Turn(c, "rm history", "idle")
    /\ \E kept \in SUBSET Archived : history' = Restrict(history, kept)
    /\ UNCHANGED <<live, sealing, clock, knows, limits>>

ForgetHistory(c) ==
    /\ Turn(c, "idle", "rm history")
    /\ UNCHANGED <<files, sealing, clock, knows, limits>>

Remove(c) ==
    RemoveLive(c) \/ RemoveHistory(c) \/ RemoveHistoryFails(c) \/ ForgetHistory(c)

-------------------------------------------------------------------------------
\* SetAsideLostSealedKey records the hash of every envelope it can read, and
\* says so when that is not every one.
KeyLost ==
    /\ \A c \in Processes : stage[c] = "idle"
    /\ lost' = lost \union (Stored \ {None})
    /\ \E hashed \in SUBSET (Stored \ {None}) :
          /\ recorded' = recorded \union hashed
          /\ upTo' = IF hashed = Stored \ {None} \/ clock < upTo THEN upTo ELSE clock
    /\ <<lost, recorded, upTo>>' # sealing
    /\ UNCHANGED <<files, clock, stage, knows, limits>>

Kill(c) ==
    /\ kills < MaxKills /\ kills' = kills + 1
    /\ stage[c] # "idle" /\ stage' = [stage EXCEPT ![c] = "idle"]
    /\ Learn(c, KnowsNothing)
    /\ UNCHANGED <<files, sealing, clock, fails, steps>>

\* The wall clock is corrected, or set by hand.
ClockSetBack ==
    /\ steps < MaxSteps /\ steps' = steps + 1
    /\ clock' \in 1 .. clock - 1
    /\ UNCHANGED <<files, sealing, stage, knows, kills, fails>>

HistoryNext ==
    \/ \E c \in Processes : Set(c) \/ Restore(c) \/ Remove(c) \/ Kill(c)
    \/ KeyLost

HistorySpec == HistoryInit /\ [][HistoryNext]_historyVars
SteppedSpec == HistoryInit /\ [][HistoryNext \/ ClockSetBack]_historyVars

-------------------------------------------------------------------------------
HistoryTypeOK ==
    /\ live \in VersionOrNone
    /\ Archived \subseteq Stamps /\ \A s \in Archived : history[s] \in Versions
    /\ lost \subseteq Versions /\ recorded \subseteq lost /\ upTo \in 0 .. MaxStamp + 1
    /\ clock \in 1 .. MaxStamp + 1 /\ \A s \in Archived : s < clock \/ steps > 0
    /\ stage \in [Processes -> Stages] /\ knows \in [Processes -> Knowledge]
    /\ kills \in 0 .. MaxKills /\ fails \in 0 .. MaxFails /\ steps \in 0 .. MaxSteps


(* Whatever replaces the live value, a set or a restore, leaves the value it *)
(* replaced as the newest version: `jit vault restore` brings it back        *)
(* (history.go:20, :173).                                                    *)
NewestIsWhatWasReplaced ==
    [][live \notin {None, live'} /\ live' # None =>
         Archived' # {} /\ history'[Max(Archived')] = live]_historyVars

(* From the moment a restore is asked for a version until it is live, that   *)
(* version is in history, at capacity and with a lost key's copies too       *)
(* (history.go:202).                                                         *)
RequestedVersionStays ==
    \A c \in Processes :
        stage[c] \in {"restore archive", "restore rename"} => knows[c].from \in Archived

(* A version leaves the vault only by rm or by a forgotten history, or with  *)
(* HistoryKeep newer ones that take a place and stay; what is known, or      *)
(* presumed, to be a lost key's never for room (history.go:84-88).           *)
OnlyOldVersionsGo ==
    [][\A s \in Archived : history[s] \notin Stored' =>
         \/ \E c \in Processes : stage[c] = "rm history" /\ stage'[c] = "idle"
         \/ s \in Prunable /\ Cardinality({t \in Prunable : t > s}) >= HistoryKeep
     ]_historyVars

(* Between commands the history is at its bound, but for one version each    *)
(* killed command and each failure may have left until the next prune ("a    *)
(* leftover extra version is untidy, not wrong", history.go:82) ...          *)
HistoryBounded ==
    (\A c \in Processes : stage[c] = "idle") =>
        Cardinality(Prunable) <= HistoryKeep + kills + fails

(* ... which takes them all, whatever failed before, if nothing fails in it. *)
PruneTidies ==
    \A c \in Processes :
        (/\ stage[c] \in {"set drop", "restore drop"}
         /\ knows[c].doomed = {} /\ ~knows[c].missed)
            => Cardinality(Prunable) <= HistoryKeep

(* What is kept: enough, and not too much.                                   *)
HistoryHolds == HistoryTypeOK /\ RequestedVersionStays /\ HistoryBounded /\ PruneTidies

-------------------------------------------------------------------------------
(* What comments say and the code does not do. *)

(* "rm means gone" (vault.go:621): between commands, a secret that is not    *)
(* stored has no version left to restore.                                    *)
RmMeansGone ==
    (\A c \in Processes : stage[c] = "idle") /\ live = None => Archived = {}

(* "A version that is, or may be, sealed to a lost Secure Enclave key is     *)
(* never pruned" (history.go:84-86), the one the record could not list, live *)
(* then and archived since, included.                                        *)
LostCopiesStay ==
    [][\A s \in Archived : history[s] \in lost \ Stored' =>
          \E c \in Processes : stage[c] = "rm history" /\ stage'[c] = "idle"]_historyVars
===============================================================================
