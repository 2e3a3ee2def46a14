----------------------------- MODULE Migration -----------------------------
(***************************************************************************)
(* What `jit migrate`, `jit migrate undo`, `jit migrate remove`,           *)
(* `jit unmount` and `jit vault prune` do to a file that held a secret:    *)
(* the file itself, the vault entry its value moves to, the profile        *)
(* manifest that names the entry, the encrypted backup, the undo index     *)
(* (backups.yaml) and the mount registry (mounts.yaml).                    *)
(*                                                                         *)
(* Each of them is written on its own, so a command is a row of steps and  *)
(* may stop between any two: it is killed, or the step fails and the       *)
(* command returns.  Nothing is rolled back.  Meanwhile the user edits the *)
(* file with an editor that knows nothing of jit.                          *)
(*                                                                         *)
(* A file holds one variable.  Its content is what matters of it: the      *)
(* user's text (a version number, new with every edit), a live mount's     *)
(* pipe, a text of jit's own that only names the vault entry (a pointer    *)
(* file or a redacted tfvars), or nothing.                                 *)
(***************************************************************************)
EXTENDS Naturals, FiniteSets, FiniteSetsExt

CONSTANTS
    Paths,           \* files of distinct projects that derive the same names
    NoPath,
    Invocations,     \* jit commands that may run at the same time
    MaxNames,        \* candidates tried for one profile name
    MaxStarts,       \* commands started in one behaviour
    MaxEdits,        \* texts the user writes: by editor or `jit vault set`
    MaxStops,        \* commands that stop half way
    Liberties        \* what may happen besides: the editor saves while a
                     \* command works on the file or over a registered mount
                     \* ("edits"), the user removes a project whose file is no
                     \* longer what jit made of it ("removes"), a removal stops
                     \* between its deletions ("stops")

ASSUME MigrationAssumption ==
    /\ NoPath \notin Paths /\ IsFiniteSet(Paths)
    /\ {MaxNames, MaxStarts, MaxEdits, MaxStops} \subseteq Nat
    /\ Liberties \subseteq {"edits", "removes", "stops"}

VARIABLES
    kind,       \* kind[f]: "live" (.env), "bak" (.env.bak) or "tfvars"
    disk,       \* disk[f]: the content at f's path
    secret,     \* secret[n]: the vault's value at n/<VAR>, and whose it is
    manifests,  \* manifests[f]: the profile names of f's own .jit store
    registry,   \* registry[f]: the profile f is mounted from
    entry,      \* entry[i]: the bytes of the i-th backup, while the vault has it
    index,      \* the undo index's records
    cmd,        \* cmd[c]: what command c is doing
    latest,     \* history: the text the user last wrote, or went back to
    took,       \* history: the text jit last took from f's path
    edits, starts, stops

stored == <<secret, manifests, registry, entry, index>>
ghosts == <<latest, took, edits, starts, stops>>
migrationVars == <<kind, disk, stored, cmd, ghosts>>

Kinds == {"live", "bak", "tfvars"}
Base(f) == IF kind[f] = "tfvars" THEN "tfvars" ELSE "env"
Names == {"tfvars", "env"} \X (1..MaxNames)
NoName == <<"none", 0>>
Texts == 1..(Cardinality(Paths) + MaxEdits)

Text(v) == [kind |-> "text", val |-> v, name |-> NoName]
Pipe == [kind |-> "pipe", val |-> 0, name |-> NoName]
Refers(n) == [kind |-> "refers", val |-> 0, name |-> n]
Absent == [kind |-> "absent", val |-> 0, name |-> NoName]
IsText(x) == x.kind = "text"
IsRegular(x) == x.kind \in {"text", "refers"}
Contents == {Text(v) : v \in Texts} \cup {Refers(n) : n \in Names} \cup {Pipe, Absent}

NoSecret == [val |-> 0, owner |-> NoPath]
Records == [id : 1..MaxStarts, file : Paths, snapshot : BOOLEAN]

Idle == [op |-> "none", file |-> NoPath, pc |-> "none", content |-> Absent,
         name |-> NoName, id |-> 0, saved |-> 0, mounted |-> FALSE, drop |-> {}, delete |-> {}]

\* Mutant of BackupsOf: an undo goes back to any record, a snapshot too.
BackupsAndSnapshotsOf(f) == {r \in index : r.file = f}

(* The newest record of f that is not a snapshot (migrate.LatestBackups);  *)
(* ids grow with the timestamps.                                           *)
BackupsOf(f) == {r \in index : r.file = f /\ ~r.snapshot}
HasBackup(f) == BackupsOf(f) # {}
LatestBackup(f) == Max({r.id : r \in BackupsOf(f)})

(* "Bump until the path is free": later than every backup there is.        *)
NextId == 1 + Max({0} \cup DOMAIN entry \cup {r.id : r \in index}
                      \cup {cmd[c].saved : c \in Invocations})

MigrationTypeOK ==
    /\ kind \in [Paths -> Kinds]
    /\ disk \in [Paths -> Contents]
    /\ secret \in [Names -> [val : {0} \cup Texts, owner : Paths \cup {NoPath}]]
    /\ manifests \in [Paths -> SUBSET Names]
    /\ registry \in [Paths -> Names \cup {NoName}]
    /\ DOMAIN entry \subseteq 1..MaxStarts
    /\ \A i \in DOMAIN entry : IsRegular(entry[i]) /\ entry[i] \in Contents
    /\ index \subseteq Records
    /\ \A c \in Invocations :
          /\ cmd[c].file \in Paths \cup {NoPath}
          /\ cmd[c].content \in Contents
          /\ cmd[c].name \in Names \cup {NoName}
          /\ cmd[c].drop \subseteq Records
          /\ cmd[c].delete \subseteq Names
    /\ latest \in [Paths -> {0} \cup Texts]
    /\ took \in [Paths -> {0} \cup Texts]
    /\ edits \in 0..MaxEdits /\ starts \in 0..MaxStarts /\ stops \in 0..MaxStops

MigrationInit ==
    /\ kind \in [Paths -> Kinds]
    /\ latest \in {l \in [Paths -> 1..Cardinality(Paths)] :
                      \A f, g \in Paths : f # g => l[f] # l[g]}
    /\ disk = [f \in Paths |-> Text(latest[f])]
    /\ secret = [n \in Names |-> NoSecret]
    /\ manifests = [f \in Paths |-> {}]
    /\ registry = [f \in Paths |-> NoName]
    /\ entry = << >>
    /\ index = {}
    /\ cmd = [c \in Invocations |-> Idle]
    /\ took = [f \in Paths |-> 0]
    /\ edits = 0 /\ starts = 0 /\ stops = 0

-----------------------------------------------------------------------------
(* How commands begin, go on and end.                                      *)
Begin(c, what) ==
    /\ cmd[c] = Idle
    /\ starts < MaxStarts
    /\ starts' = starts + 1
    /\ cmd' = [cmd EXCEPT ![c] = what]
    /\ UNCHANGED <<kind, disk, stored, latest, took, edits, stops>>

At(c, ops, pc) == cmd[c].op \in ops /\ cmd[c].pc = pc
GoesTo(c, pc) == cmd' = [cmd EXCEPT ![c].pc = pc]
Ends(c) == cmd' = [cmd EXCEPT ![c] = Idle]

(* The file comes first on a removal's way, the deletions last.            *)
GoesOn(c) == IF cmd[c].op = "remove" THEN GoesTo(c, "secrets") ELSE Ends(c)

(* `jit migrate` of a regular file that holds the user's own text: what    *)
(* discovery finds and parseEnvFile understands.                           *)
StartMigrate(c, f) ==
    /\ IsText(disk[f])
    /\ Begin(c, [Idle EXCEPT !.op = "migrate", !.file = f, !.pc = "claim", !.content = disk[f]])

(* The plan is made before the confirmation and the fingerprint: the       *)
(* newest record, and whether the path is a registered mount.              *)
StartUndo(c, f) ==
    /\ HasBackup(f)
    /\ Begin(c, [Idle EXCEPT !.op = "undo", !.file = f, !.id = LatestBackup(f),
                     !.mounted = registry[f] # NoName,
                     !.pc = IF registry[f] # NoName THEN "unregister" ELSE "get"])

(* sharedOutside: a name another project's profile or pointer file uses.   *)
SharedOutside(f, n) == \E g \in Paths \ {f} : n \in manifests[g] \/ disk[g] = Refers(n)

(* What the removal of f's project will delete from the vault: what its    *)
(* profiles name and what was born in its tree, less what others use.      *)
DeletePaths(f) == {n \in Names : /\ n \in manifests[f] \/ secret[n].owner = f
                                 /\ ~SharedOutside(f, n)}

(* A careful user removes a project that is still as jit left it, or whose *)
(* file already reads as its newest backup.                                *)
AsJitLeftIt(f) ==
    \/ registry[f] # NoName
    \/ disk[f].kind = "refers"
    \/ HasBackup(f) /\ LatestBackup(f) \in DOMAIN entry /\ entry[LatestBackup(f)] = disk[f]

StartRemove(c, f) ==
    /\ manifests[f] # {} \/ registry[f] # NoName \/ HasBackup(f)
    /\ "removes" \in Liberties \/ AsJitLeftIt(f)
    /\ LET mounted == registry[f] # NoName
           inPlace == ~mounted /\ kind[f] = "bak" /\ disk[f].kind = "refers"
           rewritten == ~mounted /\ ~inPlace /\ IsRegular(disk[f]) /\ HasBackup(f)
           plan == [Idle EXCEPT !.op = "remove", !.file = f, !.mounted = mounted,
                                !.drop = {r \in index : r.file = f}, !.delete = DeletePaths(f)]
       IN  Begin(c, CASE mounted   -> [plan EXCEPT !.pc = "resolve", !.name = registry[f]]
                      [] inPlace   -> [plan EXCEPT !.pc = "resolve", !.name = disk[f].name]
                      [] rewritten -> [plan EXCEPT !.pc = "get", !.id = LatestBackup(f)]
                      [] OTHER     -> [plan EXCEPT !.pc = "secrets"])

StartUnmount(c, f) ==
    /\ registry[f] # NoName
    /\ Begin(c, [Idle EXCEPT !.op = "unmount", !.file = f, !.mounted = TRUE,
                     !.name = registry[f], !.pc = "resolve"])

(* `jit vault prune`: every record but each file's newest backup.          *)
StaleRecords == {r \in index : ~(HasBackup(r.file) /\ r.id = LatestBackup(r.file))}

StartPrune(c) ==
    /\ StaleRecords # {}
    /\ Begin(c, [Idle EXCEPT !.op = "prune", !.drop = StaleRecords, !.pc = "entries"])

-----------------------------------------------------------------------------
(* jit migrate.                                                            *)

\* Mutant of Claimable: any candidate is taken, whoever wrote its vault path.
ClaimableAnyway(f) == {n \in Names : n[1] = Base(f)}

(* claimNamespace: the first candidate whose vault path is free or already *)
(* ours, that is, named by the manifest of that name in our own store.     *)
Claimable(f) == {n \in Names : n[1] = Base(f) /\ (secret[n].val = 0 \/ n \in manifests[f])}
Claimed(f) == <<Base(f), Min({n[2] : n \in Claimable(f)})>>

Claim(c) ==
    /\ At(c, {"migrate"}, "claim")
    /\ cmd' = [cmd EXCEPT ![c] =
                 IF Claimable(cmd[c].file) = {} THEN Idle
                 ELSE [@ EXCEPT !.name = Claimed(cmd[c].file), !.pc = "store"]]
    /\ UNCHANGED <<kind, disk, stored, ghosts>>

Store(c) ==
    /\ At(c, {"migrate"}, "store")
    /\ secret' = [secret EXCEPT ![cmd[c].name] =
                     [val |-> cmd[c].content.val, owner |-> cmd[c].file]]
    /\ GoesTo(c, "manifest")
    /\ UNCHANGED <<kind, disk, manifests, registry, entry, index, ghosts>>

WriteManifest(c) ==
    /\ At(c, {"migrate"}, "manifest")
    /\ manifests' = [manifests EXCEPT ![cmd[c].file] = @ \cup {cmd[c].name}]
    /\ GoesTo(c, "backup")
    /\ UNCHANGED <<kind, disk, secret, registry, entry, index, ghosts>>

(* storeSecretBackup puts the bytes that are at the path NOW into the      *)
(* vault, under a path no backup has, and then appends the index record.   *)
(* A command that finds no regular file there stops (backup) or has        *)
(* nothing to save (snapshot).                                             *)
Backup(c) ==
    /\ At(c, {"migrate", "undo", "remove"}, "backup")
    /\ LET x == disk[cmd[c].file] IN
       IF IsRegular(x)
       THEN /\ entry' = [i \in DOMAIN entry \cup {NextId} |-> IF i = NextId THEN x ELSE entry[i]]
            /\ cmd' = [cmd EXCEPT ![c].pc = "record", ![c].saved = NextId]
       ELSE /\ IF cmd[c].op = "migrate" THEN Ends(c) ELSE GoesTo(c, "clear")
            /\ UNCHANGED entry
    /\ UNCHANGED <<kind, disk, secret, manifests, registry, index, ghosts>>

Record(c) ==
    /\ At(c, {"migrate", "undo", "remove"}, "record")
    /\ index' = index \cup {[id |-> cmd[c].saved, file |-> cmd[c].file,
                             snapshot |-> cmd[c].op # "migrate"]}
    /\ GoesTo(c, "clear")
    /\ UNCHANGED <<kind, disk, secret, manifests, registry, entry, ghosts>>

(* The path is emptied: CreateFIFO's and RetireFIFO's remove, os.WriteFile's truncate. *)
Clear(c) ==
    /\ At(c, {"migrate", "undo", "remove", "unmount"}, "clear")
    /\ LET f == cmd[c].file IN
       /\ disk' = [disk EXCEPT ![f] = Absent]
       /\ took' = [took EXCEPT ![f] =
                      IF cmd[c].op = "migrate" /\ IsText(disk[f]) THEN disk[f].val ELSE @]
    /\ GoesTo(c, IF cmd[c].op = "migrate" THEN "place" ELSE "write")
    /\ UNCHANGED <<kind, stored, latest, edits, starts, stops>>

(* The pipe, or jit's own text.  Mkfifo fails where a file has appeared.   *)
Place(c) ==
    /\ At(c, {"migrate"}, "place")
    /\ LET f == cmd[c].file IN
       IF kind[f] = "live"
       THEN IF disk[f] = Absent
            THEN disk' = [disk EXCEPT ![f] = Pipe] /\ GoesTo(c, "register")
            ELSE UNCHANGED disk /\ Ends(c)
       ELSE disk' = [disk EXCEPT ![f] = Refers(cmd[c].name)] /\ Ends(c)
    /\ UNCHANGED <<kind, stored, ghosts>>

(* mount.AddMount, after ApplyEnvFileSplit has returned.                   *)
Register(c) ==
    /\ At(c, {"migrate"}, "register")
    /\ registry' = [registry EXCEPT ![cmd[c].file] = cmd[c].name]
    /\ Ends(c)
    /\ UNCHANGED <<kind, disk, secret, manifests, entry, index, ghosts>>

-----------------------------------------------------------------------------
(* Going back: undo restores a backup, unmount and remove write what the   *)
(* vault holds now; remove restores a rewritten file from its backup.      *)

(* StopMount and mount.RemoveMount: undo's first step, after the file is   *)
(* back for the other two.                                                 *)
Unregister(c) ==
    /\ At(c, {"undo", "remove", "unmount"}, "unregister")
    /\ registry' = [registry EXCEPT ![cmd[c].file] = NoName]
    /\ IF cmd[c].op = "undo" THEN GoesTo(c, "get") ELSE GoesOn(c)
    /\ UNCHANGED <<kind, disk, secret, manifests, entry, index, ghosts>>

\* Mutant of Get: a restore overwrites the file without a snapshot of it.
GetNoSnapshot(c) ==
    /\ At(c, {"undo", "remove"}, "get")
    /\ LET i == cmd[c].id IN
       IF i \notin DOMAIN entry
       THEN GoesOn(c)
       ELSE cmd' = [cmd EXCEPT ![c].content = entry[i], ![c].pc = "clear"]
    /\ UNCHANGED <<kind, disk, stored, ghosts>>

(* v.Get of the backup.  Remove takes one that is gone, or that the file   *)
(* already reads as, for nothing to do.                                    *)
Get(c) ==
    /\ At(c, {"undo", "remove"}, "get")
    /\ LET i == cmd[c].id IN
       IF i \notin DOMAIN entry \/ (cmd[c].op = "remove" /\ disk[cmd[c].file] = entry[i])
       THEN GoesOn(c)
       ELSE cmd' = [cmd EXCEPT ![c].content = entry[i],
                               ![c].pc = "backup"]
    /\ UNCHANGED <<kind, disk, stored, ghosts>>

(* UnmountFile and RestorePointerFile resolve the value, or stop.          *)
Resolve(c) ==
    /\ At(c, {"remove", "unmount"}, "resolve")
    /\ LET n == cmd[c].name IN
       cmd' = [cmd EXCEPT ![c] = IF secret[n].val = 0 THEN Idle
                                 ELSE [@ EXCEPT !.content = Text(secret[n].val), !.pc = "clear"]]
    /\ UNCHANGED <<kind, disk, stored, ghosts>>

(* RestoreFromBackup creates the file anew (O_EXCL): a file that has       *)
(* appeared meanwhile stays and the command stops.  What was resolved from *)
(* the vault is written over anything.  An undone file's text is the one   *)
(* the user went back to.                                                  *)
WriteBack(c) ==
    /\ At(c, {"undo", "remove", "unmount"}, "write")
    /\ LET f == cmd[c].file IN
       IF disk[f] = Absent \/ cmd[c].name # NoName
       THEN /\ disk' = [disk EXCEPT ![f] = cmd[c].content]
            /\ latest' = [latest EXCEPT ![f] =
                             IF cmd[c].op = "undo" THEN cmd[c].content.val ELSE @]
            /\ IF cmd[c].mounted /\ cmd[c].op # "undo" THEN GoesTo(c, "unregister") ELSE GoesOn(c)
       ELSE Ends(c) /\ UNCHANGED <<disk, latest>>
    /\ UNCHANGED <<kind, stored, took, edits, starts, stops>>

-----------------------------------------------------------------------------
(* Deletions: the rest of a removal, and prune.                            *)
DeleteSecrets(c) ==
    /\ At(c, {"remove"}, "secrets")
    /\ secret' = [n \in Names |-> IF n \in cmd[c].delete THEN NoSecret ELSE secret[n]]
    /\ GoesTo(c, "entries")
    /\ UNCHANGED <<kind, disk, manifests, registry, entry, index, ghosts>>

(* Where text v of f can be got from, with the undo index and backups given. *)
Recoverable(f, v, ix, e) ==
    \/ disk[f] = Text(v)
    \/ \E n \in manifests[f] : secret[n] = [val |-> v, owner |-> f]
    \/ \E r \in ix : r.file = f /\ r.id \in DOMAIN e /\ e[r.id] = Text(v)

WithoutEntries(e, gone) == [i \in DOMAIN e \ {r.id : r \in gone} |-> e[i]]

(* The bytes go before the records.  What the user gave up by agreeing to  *)
(* prune a snapshot is no longer the text to keep.                         *)
DeleteEntries(c) ==
    /\ At(c, {"remove", "prune"}, "entries")
    /\ entry' = WithoutEntries(entry, cmd[c].drop)
    /\ latest' = [f \in Paths |->
                    IF /\ cmd[c].op = "prune"
                       /\ Recoverable(f, latest[f], {r \in cmd[c].drop : r.snapshot}, entry)
                       /\ ~Recoverable(f, latest[f], index, entry')
                    THEN 0 ELSE latest[f]]
    /\ GoesTo(c, "records")
    /\ UNCHANGED <<kind, disk, secret, manifests, registry, index, took, edits, starts, stops>>

DropRecords(c) ==
    /\ At(c, {"remove", "prune"}, "records")
    /\ index' = index \ cmd[c].drop
    /\ IF cmd[c].op = "prune" THEN Ends(c) ELSE GoesTo(c, "stragglers")
    /\ UNCHANGED <<kind, disk, secret, manifests, registry, entry, ghosts>>

(* Whatever is still indexed under the tree goes too: the snapshot the     *)
(* removal took itself.                                                    *)
DropStragglers(c) ==
    /\ At(c, {"remove"}, "stragglers")
    /\ LET late == {r \in index : r.file = cmd[c].file} IN
       /\ entry' = WithoutEntries(entry, late)
       /\ index' = index \ late
    /\ GoesTo(c, "store")
    /\ UNCHANGED <<kind, disk, secret, manifests, registry, ghosts>>

(* os.RemoveAll of the project's .jit.                                     *)
RemoveStore(c) ==
    /\ At(c, {"remove"}, "store")
    /\ manifests' = [manifests EXCEPT ![cmd[c].file] = {}]
    /\ Ends(c)
    /\ UNCHANGED <<kind, disk, secret, registry, entry, index, ghosts>>

-----------------------------------------------------------------------------
Deletions == {"entries", "records", "stragglers", "store"}

(* The command is killed, or a step fails and it returns.                  *)
Stops(c) ==
    /\ cmd[c] # Idle
    /\ stops < MaxStops
    /\ "stops" \in Liberties \/ cmd[c].op # "remove" \/ cmd[c].pc \notin Deletions
    /\ stops' = stops + 1
    /\ Ends(c)
    /\ UNCHANGED <<kind, disk, stored, latest, took, edits, starts>>

(* Where a save cannot fall between a command's reading of the file and    *)
(* its emptying of the path.                                               *)
Untouched(f) ==
    /\ registry[f] = NoName
    /\ \A c \in Invocations : cmd[c].file = f =>
          \/ cmd[c].op = "migrate" /\ kind[f] = "live" /\ cmd[c].pc = "place"
          \/ cmd[c].op = "undo" /\ cmd[c].pc \in {"get", "backup", "write"}
          \/ cmd[c].op = "remove" /\ cmd[c].pc \in {"secrets"} \cup Deletions

(* An editor puts a whole new text at the path.                            *)
NewText == Cardinality(Paths) + edits + 1

Edit(f) ==
    /\ edits < MaxEdits
    /\ "edits" \in Liberties \/ Untouched(f)
    /\ edits' = edits + 1
    /\ disk' = [disk EXCEPT ![f] = Text(NewText)]
    /\ latest' = [latest EXCEPT ![f] = NewText]
    /\ UNCHANGED <<kind, stored, cmd, took, starts, stops>>

(* `jit vault set` of a migrated file's value: what its mount now serves,  *)
(* what its pointer file now names.                                        *)
VaultSet(c, f) ==
    /\ edits < MaxEdits
    /\ cmd[c] = Idle
    /\ \E n \in manifests[f] :
          /\ secret[n].val # 0
          /\ \/ registry[f] = n /\ disk[f] = Pipe
             \/ kind[f] = "bak" /\ disk[f] = Refers(n)
          /\ secret' = [secret EXCEPT ![n].val = NewText]
    /\ edits' = edits + 1
    /\ latest' = [latest EXCEPT ![f] = NewText]
    /\ UNCHANGED <<kind, disk, manifests, registry, entry, index, cmd, took, starts, stops>>

-----------------------------------------------------------------------------
MigrationNext ==
    \/ \E c \in Invocations, f \in Paths :
          \/ StartMigrate(c, f) \/ StartUndo(c, f) \/ StartRemove(c, f)
          \/ StartUnmount(c, f) \/ VaultSet(c, f)
    \/ \E c \in Invocations :
          \/ StartPrune(c)
          \/ Claim(c) \/ Store(c) \/ WriteManifest(c) \/ Backup(c) \/ Record(c)
          \/ Clear(c) \/ Place(c) \/ Register(c)
          \/ Unregister(c) \/ Get(c) \/ Resolve(c) \/ WriteBack(c)
          \/ DeleteSecrets(c) \/ DeleteEntries(c) \/ DropRecords(c)
          \/ DropStragglers(c) \/ RemoveStore(c)
          \/ Stops(c)
    \/ \E f \in Paths : Edit(f)

MigrationSpec == MigrationInit /\ [][MigrationNext]_migrationVars

-----------------------------------------------------------------------------
(* The text the user last wrote, or went back to by an undo, is never only *)
(* a memory: between any two steps, and after a command that stopped, it   *)
(* is at the path, or in the vault under a name of the file's own profile, *)
(* or in a backup the undo index still reaches ("nothing is ever simply    *)
(* destroyed").                                                            *)
LastTextKept == \A f \in Paths : latest[f] # 0 => Recoverable(f, latest[f], index, entry)

(* A registered mount serves its own file's newest text: its profile is in *)
(* the file's own store and the vault path it names was written from this  *)
(* file, not by a project whose files derive the same name.                *)
MountServesItsOwn ==
    \A f \in Paths : registry[f] # NoName =>
        /\ registry[f] \in manifests[f]
        /\ secret[registry[f]] = [val |-> latest[f], owner |-> f]

(* A path that does not read as the user's text can be undone: its newest  *)
(* record is one of the user's own texts and the vault still has it, at    *)
(* every step of every command ("a failure partway through never leaves    *)
(* the source file gone with nothing usable in its place").                *)
UndoReachesIt ==
    \A f \in Paths : ~IsText(disk[f]) =>
        /\ HasBackup(f)
        /\ LatestBackup(f) \in DOMAIN entry
        /\ IsText(entry[LatestBackup(f)])

(* Wherever a command stops, the text is kept and the way back is open.      *)
NothingIsLost == MigrationTypeOK /\ LastTextKept /\ UndoReachesIt

(* An undo never re-applies the migration, however often it is repeated:   *)
(* what it writes is a text of the user's, none older than the one jit     *)
(* last took from the path.                                                *)
UndoGivesBackTheUsersText ==
    [][\A f \in Paths, c \in Invocations :
          At(c, {"undo"}, "write") /\ cmd[c].file = f /\ disk'[f] # disk[f] /\ cmd' # cmd
             => IsText(disk'[f]) /\ disk'[f].val >= took[f]]_migrationVars

=============================================================================
