-------------------------- MODULE StandingGrants ---------------------------
(***************************************************************************)
(* Standing grants (internal/agent/standing.go): a grant with no deadline  *)
(* is a key of its own in the key store and a record in the ledger, its    *)
(* secrets sealed to that key.  It survives locks, restarts and crashes,   *)
(* and ends when it is revoked.  With it the two things the service does   *)
(* to grant keys when it starts: moving them to where the vault's key is   *)
(* (grantmove.go) and deleting the ones nothing names (grantorphans.go).   *)
(* Requests:                                                               *)
(*   "create"  createStandingGrant, after the disclosed prompt             *)
(*   "serve"   standingUnwrap, of bytes one grant covers, from its app     *)
(*   "revoke"  revokeStanding                                              *)
(*   "stop"    Server.Close, then the process exits                        *)
(* One action is one critical section on grantMu, ledgerMu or a grant's    *)
(* keyMu, one call of the key store, or one write of the ledger.  A record *)
(* stands for all the secrets of its grant, sealed to one key; which       *)
(* creation of the key that is, is its gen.  Records and entries of a      *)
(* newer jit, kept unread, are not modelled.                               *)
(***************************************************************************)
EXTENDS Naturals, FiniteSets

CONSTANTS
    Grants,          \* grant ids
    Old,             \* those in the ledger at first
    Requests,
    NoOne,
    OpsOf,           \* what each request may ask for
    MaxCrashes,      \* bound: crashes of the service
    MaxMoves,        \* bound: moves of the vault's own key
    MaxFaults        \* bound: failed writes and deletes, and starts that
                     \* cannot read a file or reach the enclave

ASSUME StandingGrantsAssumption == Grants # {}
ASSUME StandingOldAssumption == Old \subseteq Grants
ASSUME StandingOpsAssumption ==
    OpsOf \in [Requests -> SUBSET {"create", "serve", "revoke", "stop"}]
ASSUME StandingNoOneAssumption == NoOne \notin Requests
ASSUME StandingBoundsAssumption ==
    MaxCrashes \in Nat /\ MaxMoves \in Nat /\ MaxFaults \in Nat

VARIABLES
    ledger, keys, made,              \* on disk, in the two key stores
    vaultKind,                       \* where the vault's own key is
    phase,                           \* of the service's life
    loaded, jobsLoaded, reach,       \* what this start could read and reach
    standing,                        \* Server.standing
    names,                           \* Server.ledgerNames
    todo, moving, target,            \* locals of the steps of a start
    cached, dead,                    \* standingGrant.key and .dead
    ledgerMu, dirty,                 \* and Server.ledgerDirty
    local,                           \* each request's place and variables
    told,                            \* what the human last heard of a grant
    saveFailed,                      \* did a save of this service fail?
    crashes, moves, faults, faultsAtStart

diskVars == <<ledger, keys, made>>
startVars == <<loaded, jobsLoaded, reach, names, todo, moving, target, faultsAtStart>>
bounds == <<crashes, moves>>
vars == <<diskVars, vaultKind, phase, startVars, standing, cached, dead,
          ledgerMu, dirty, local, told, saveFailed, bounds, faults>>

Kinds == {"keychain", "enclave"}
Record == [wrap : Kinds \cup {"none"}, gen : Nat, serves : Nat]
NoRecord == [wrap |-> "none", gen |-> 0, serves |-> 0]
NoRecords == [g \in Grants |-> NoRecord]
Named(records) == {g \in Grants : records[g].wrap # "none"}

Places == {"idle", "key", "seal", "publish", "save", "write", "unpublish",
           "remove", "retire", "delete", "check", "open", "count", "bookkeep",
           "flush", "collect", "retireAll", "exit", "done"}
Local == [pc : Places, op : {"none", "create", "serve", "revoke", "stop"},
          g : Grants, sealed : Record, snap : [Grants -> Record],
          left : SUBSET Grants]

TypeOK ==
    /\ ledger \in [Grants -> Record] /\ standing \in [Grants -> Record]
    /\ keys \in [Grants -> [Kinds -> Nat]] /\ made \in [Grants -> Nat]
    /\ vaultKind \in Kinds /\ target \in Kinds
    /\ phase \in {"down", "move", "drop", "list", "clean", "up"}
    /\ loaded \in BOOLEAN /\ jobsLoaded \in BOOLEAN /\ reach \in BOOLEAN
    /\ names \subseteq Grants /\ todo \subseteq Grants /\ moving \subseteq Grants
    /\ cached \in [Grants -> Nat] /\ dead \subseteq Grants
    /\ ledgerMu \in Requests \cup {NoOne} /\ dirty \in BOOLEAN
    /\ local \in [Requests -> Local]
    /\ told \in [Grants -> {"none", "granted", "failed", "ending", "revoked"}]
    /\ saveFailed \in BOOLEAN
    /\ crashes \in Nat /\ moves \in Nat
    /\ faults \in 0 .. MaxFaults /\ faultsAtStart \in 0 .. MaxFaults

\* A service that is up, with the old grants loaded.
Init ==
    /\ ledger = [g \in Grants |-> IF g \in Old
                                  THEN [wrap |-> "keychain", gen |-> 1, serves |-> 0]
                                  ELSE NoRecord]
    /\ standing = ledger
    /\ keys = [g \in Grants |-> [k \in Kinds |->
                  IF g \in Old /\ k = "keychain" THEN 1 ELSE 0]]
    /\ made = [g \in Grants |-> IF g \in Old THEN 1 ELSE 0]
    /\ vaultKind = "keychain" /\ target = "keychain"
    /\ phase = "up"
    /\ loaded = TRUE /\ jobsLoaded = TRUE /\ reach = TRUE
    /\ names = Old /\ todo = {} /\ moving = {}
    /\ cached = [g \in Grants |-> 0] /\ dead = {}
    /\ ledgerMu = NoOne /\ dirty = FALSE
    /\ local = [r \in Requests |->
                  [pc |-> "idle", op |-> "none", g |-> CHOOSE g \in Grants : TRUE,
                   sealed |-> NoRecord, snap |-> NoRecords, left |-> {}]]
    /\ told = [g \in Grants |-> IF g \in Old THEN "granted" ELSE "none"]
    /\ saveFailed = FALSE
    /\ crashes = 0 /\ moves = 0 /\ faults = 0 /\ faultsAtStart = 0

-----------------------------------------------------------------------------
(* The key store (the CLI's grantKeyStore) and the bookkeeping of faults.  *)

At(r, place) == phase = "up" /\ local[r].pc = place
Goto(r, place) == local' = [local EXCEPT ![r].pc = place]

Fault(n) == faults' = faults + n /\ faults' <= MaxFaults

Reachable(kind) == kind = "keychain" \/ reach

\* The keys of id of these kinds go, but for the ones the store fails to
\* delete and the ones in an enclave this service cannot reach.
DeleteKeys(id, kinds) ==
    LET held == {k \in kinds : keys[id][k] # 0}
    IN  \E kept \in SUBSET held :
          /\ \A k \in held : ~Reachable(k) => k \in kept
          /\ keys' = [keys EXCEPT ![id] =
                [k \in Kinds |-> IF k \in held \ kept THEN 0 ELSE keys[id][k]]]
          /\ Fault(Cardinality({k \in kept : Reachable(k)}))

-----------------------------------------------------------------------------
(* createStandingGrant.                                                    *)

\* A new key, of the kind the vault's key is.
CreateKey(r) ==
    LET g == local[r].g
    IN  /\ At(r, "key")
        /\ \/ /\ Reachable(vaultKind)
              /\ made' = [made EXCEPT ![g] = @ + 1]
              /\ keys' = [keys EXCEPT ![g][vaultKind] = made[g] + 1]
              /\ local' = [local EXCEPT ![r].pc = "seal",
                    ![r].sealed = [wrap |-> vaultKind, gen |-> made[g] + 1,
                                   serves |-> 0]]
              /\ UNCHANGED told
           \/ /\ Goto(r, "done")
              /\ told' = [told EXCEPT ![g] = "failed"]
              /\ UNCHANGED <<keys, made>>
        /\ UNCHANGED <<ledger, vaultKind, phase, startVars, standing, cached,
                       dead, ledgerMu, dirty, saveFailed, bounds, faults>>

\* Every secret is sealed to it, or the key goes again.
CreateSeal(r) ==
    /\ At(r, "seal")
    /\ \/ Goto(r, "publish") /\ UNCHANGED <<keys, told, faults>>
       \/ /\ DeleteKeys(local[r].g, Kinds)
          /\ Goto(r, "done")
          /\ told' = [told EXCEPT ![local[r].g] = "failed"]
    /\ UNCHANGED <<ledger, made, vaultKind, phase, startVars, standing, cached,
                   dead, ledgerMu, dirty, saveFailed, bounds>>

\* The grant is published with its key cached, then saved.
CreatePublish(r) ==
    LET g == local[r].g
    IN  /\ At(r, "publish")
        /\ standing' = [standing EXCEPT ![g] = local[r].sealed]
        /\ cached' = [cached EXCEPT ![g] = local[r].sealed.gen]
        /\ Goto(r, "save")
        /\ UNCHANGED <<diskVars, vaultKind, phase, startVars, dead, ledgerMu,
                       dirty, told, saveFailed, bounds, faults>>

\* It could not be saved: withdrawn.
CreateUnpublish(r) ==
    /\ At(r, "unpublish")
    /\ standing' = [standing EXCEPT ![local[r].g] = NoRecord]
    /\ Goto(r, "retire")
    /\ UNCHANGED <<diskVars, vaultKind, phase, startVars, cached, dead,
                   ledgerMu, dirty, told, saveFailed, bounds, faults>>

-----------------------------------------------------------------------------
(* saveLedger: snapshot and write under ledgerMu.                          *)

\* Mutant of SaveBegin: the snapshot is taken before the lock.
SaveBeginUnlocked(r) ==
    /\ At(r, "save")
    /\ ledgerMu' = r
    /\ local' = [local EXCEPT ![r].pc = "write", ![r].snap = standing]
    /\ dirty' = FALSE
    /\ UNCHANGED <<diskVars, vaultKind, phase, startVars, standing, cached,
                   dead, told, saveFailed, bounds, faults>>

SaveBegin(r) ==
    /\ At(r, "save")
    /\ ledgerMu = NoOne
    /\ ledgerMu' = r
    /\ local' = [local EXCEPT ![r].pc = "write", ![r].snap = standing]
    /\ dirty' = FALSE
    /\ UNCHANGED <<diskVars, vaultKind, phase, startVars, standing, cached,
                   dead, told, saveFailed, bounds, faults>>

\* Where a save goes on: only a create looks at its error.
AfterSave(op, ok) ==
    CASE op = "stop" -> "collect"
      [] op = "create" /\ ~ok -> "unpublish"
      [] op = "create" /\ ok -> "done"
      [] op \in {"serve", "revoke"} -> "done"

\* A service whose ledger did not load writes nothing.
SaveWrite(r) ==
    /\ At(r, "write")
    /\ \E ok \in BOOLEAN :
          LET op == local[r].op
              g == local[r].g
          IN  /\ Fault(IF ok THEN 0 ELSE 1)
              /\ ~ok => loaded
              /\ ledger' = IF ok /\ loaded THEN local[r].snap ELSE ledger
              /\ saveFailed' = (saveFailed \/ ~ok)
              /\ local' = [local EXCEPT ![r].pc = AfterSave(op, ok),
                                        ![r].snap = NoRecords]
              /\ told' = IF op = "create" /\ ok /\ told[g] = "none"
                         THEN [told EXCEPT ![g] = "granted"]
                         ELSE IF op = "revoke"
                         THEN [told EXCEPT ![g] = "revoked"] ELSE told
    /\ ledgerMu' = NoOne
    /\ UNCHANGED <<keys, made, vaultKind, phase, startVars, standing, cached,
                   dead, dirty, bounds>>

-----------------------------------------------------------------------------
(* revokeStanding; a create that could not be saved takes the same last    *)
(* two steps.                                                              *)

RevokeRemove(r) ==
    LET g == local[r].g
    IN  /\ At(r, "remove")
        /\ IF g \in Named(standing)
           THEN /\ standing' = [standing EXCEPT ![g] = NoRecord]
                /\ told' = [told EXCEPT ![g] = "ending"]
                /\ Goto(r, "retire")
           ELSE Goto(r, "done") /\ UNCHANGED <<standing, told>>
        /\ UNCHANGED <<diskVars, vaultKind, phase, startVars, cached, dead,
                       ledgerMu, dirty, saveFailed, bounds, faults>>

Retire(r) ==
    /\ At(r, "retire")
    /\ cached' = [cached EXCEPT ![local[r].g] = 0]
    /\ dead' = dead \cup {local[r].g}
    /\ Goto(r, "delete")
    /\ UNCHANGED <<diskVars, vaultKind, phase, startVars, standing, ledgerMu,
                   dirty, told, saveFailed, bounds, faults>>

\* Mutant of DeleteKey: a revoke leaves the key to the next cleanup.
DeleteKeyLater(r) ==
    /\ At(r, "delete")
    /\ IF local[r].op = "create"
       THEN /\ DeleteKeys(local[r].g, Kinds)
            /\ told' = [told EXCEPT ![local[r].g] = "failed"]
            /\ Goto(r, "done")
       ELSE Goto(r, "save") /\ UNCHANGED <<told, keys, faults>>
    /\ UNCHANGED <<ledger, made, vaultKind, phase, startVars, standing, cached,
                   dead, ledgerMu, dirty, saveFailed, bounds>>

\* A key that stays is only told of.
DeleteKey(r) ==
    /\ At(r, "delete")
    /\ DeleteKeys(local[r].g, Kinds)
    /\ IF local[r].op = "create"
       THEN told' = [told EXCEPT ![local[r].g] = "failed"] /\ Goto(r, "done")
       ELSE Goto(r, "save") /\ UNCHANGED told
    /\ UNCHANGED <<ledger, made, vaultKind, phase, startVars, standing, cached,
                   dead, ledgerMu, dirty, saveFailed, bounds>>

-----------------------------------------------------------------------------
(* standingUnwrap.                                                         *)

\* The grant must still be there after the walk of the caller's ancestry.
ServeCheck(r) ==
    LET g == local[r].g
    IN  /\ At(r, "check")
        /\ local' = [local EXCEPT
              ![r].pc = IF g \in Named(standing) THEN "open" ELSE "done",
              ![r].sealed = standing[g]]
        /\ UNCHANGED <<diskVars, vaultKind, phase, startVars, standing, cached,
                       dead, ledgerMu, dirty, told, saveFailed, bounds, faults>>

\* openStanding, under keyMu: a retired grant is refused; else the cached
\* key, or the one loaded of the kind the record names, opens what was sealed
\* to it, or fails for now.
ServeOpen(r) ==
    LET g == local[r].g
        sealed == local[r].sealed
        key == IF cached[g] # 0 THEN cached[g]
               ELSE IF Reachable(sealed.wrap) THEN keys[g][sealed.wrap] ELSE 0
    IN  /\ At(r, "open")
        /\ \/ Goto(r, "done") /\ UNCHANGED cached
           \/ /\ g \notin dead /\ key # 0
              /\ cached' = [cached EXCEPT ![g] = key]
              /\ \/ key = sealed.gen /\ Goto(r, "count")
                 \/ Goto(r, "done")
        /\ UNCHANGED <<diskVars, vaultKind, phase, startVars, standing, dead,
                       ledgerMu, dirty, told, saveFailed, bounds, faults>>

\* The grant object counts the serve, though it may have left the map.
ServeCount(r) ==
    LET g == local[r].g
    IN  /\ At(r, "count")
        /\ standing' = IF g \in Named(standing)
                       THEN [standing EXCEPT ![g].serves = @ + 1] ELSE standing
        /\ Goto(r, "bookkeep")
        /\ UNCHANGED <<diskVars, vaultKind, phase, startVars, cached, dead,
                       ledgerMu, dirty, told, saveFailed, bounds, faults>>

\* saveLedgerAfterServe: at most one save in ten seconds.
ServeBookkeep(r) ==
    /\ At(r, "bookkeep")
    /\ ledgerMu = NoOne
    /\ \/ Goto(r, "save") /\ UNCHANGED dirty
       \/ Goto(r, "done") /\ dirty' = TRUE
    /\ UNCHANGED <<diskVars, vaultKind, phase, startVars, standing, cached,
                   dead, ledgerMu, told, saveFailed, bounds, faults>>

-----------------------------------------------------------------------------
(* The end of a service: Server.Close (closeStanding) and its exit, or a   *)
(* crash.                                                                  *)

StopFlush(r) ==
    /\ At(r, "flush")
    /\ ledgerMu = NoOne
    /\ Goto(r, IF dirty THEN "save" ELSE "collect")
    /\ UNCHANGED <<diskVars, vaultKind, phase, startVars, standing, cached,
                   dead, ledgerMu, dirty, told, saveFailed, bounds, faults>>

StopCollect(r) ==
    /\ At(r, "collect")
    /\ local' = [local EXCEPT ![r].pc = "retireAll", ![r].left = Named(standing)]
    /\ UNCHANGED <<diskVars, vaultKind, phase, startVars, standing, cached,
                   dead, ledgerMu, dirty, told, saveFailed, bounds, faults>>

StopRetire(r) ==
    /\ At(r, "retireAll")
    /\ \E g \in local[r].left :
          /\ cached' = [cached EXCEPT ![g] = 0]
          /\ dead' = dead \cup {g}
          /\ local' = [local EXCEPT ![r].left = @ \ {g}]
    /\ UNCHANGED <<diskVars, vaultKind, phase, startVars, standing, ledgerMu,
                   dirty, told, saveFailed, bounds, faults>>

\* What is in flight gets no answer; the memory of the service is gone.
Gone ==
    /\ phase' = "down"
    /\ standing' = NoRecords
    /\ cached' = [g \in Grants |-> 0] /\ dead' = {}
    /\ ledgerMu' = NoOne /\ dirty' = FALSE /\ saveFailed' = FALSE
    /\ names' = {} /\ todo' = {} /\ moving' = {}
    /\ local' = [r \in Requests |->
          IF local[r].pc = "idle" THEN local[r]
          ELSE [local[r] EXCEPT !.pc = "done", !.snap = NoRecords, !.left = {}]]
    /\ UNCHANGED <<diskVars, vaultKind, loaded, jobsLoaded, reach, target,
                   faultsAtStart, told, moves, faults>>

StopExit(r) ==
    /\ At(r, "retireAll")
    /\ local[r].left = {}
    /\ Gone
    /\ UNCHANGED crashes

Crash ==
    /\ phase # "down" /\ crashes < MaxCrashes
    /\ crashes' = crashes + 1
    /\ Gone

-----------------------------------------------------------------------------
(* A start: SetGrantLedger and SetJobStore, MoveGrantKeys,                 *)
(* DeleteOrphanGrantKeys, Listen.  No request runs meanwhile.              *)

\* A ledger that cannot be read is disowned, and nothing in it is known.
Load ==
    /\ phase = "down"
    /\ \E l, j, e \in BOOLEAN :
          /\ loaded' = l /\ jobsLoaded' = j /\ reach' = e
          /\ Fault(Cardinality({x \in {<<1, l>>, <<2, j>>, <<3, e>>} : ~x[2]}))
          /\ standing' = IF l THEN ledger ELSE NoRecords
          /\ names' = IF l THEN Named(ledger) ELSE {}
          /\ todo' = names'
    /\ faultsAtStart' = faults
    /\ target' = vaultKind
    /\ moving' = {}
    /\ phase' = "move"
    /\ UNCHANGED <<diskVars, vaultKind, cached, dead, ledgerMu, dirty, local,
                   told, saveFailed, bounds>>

startKeeps == <<cached, dead, ledgerMu, dirty, local, told, saveFailed, bounds,
                vaultKind, loaded, jobsLoaded, reach, names, target,
                faultsAtStart>>
Settled(g) == standing[g].wrap = target

\* A grant on the target already: a key of the other kind is a leftover.
Settle ==
    /\ phase = "move"
    /\ \E g \in todo :
          /\ Settled(g)
          /\ DeleteKeys(g, Kinds \ {target})
          /\ todo' = todo \ {g}
    /\ UNCHANGED <<ledger, made, phase, standing, moving, startKeeps>>

\* reseal, of one grant: with a new key of the target kind, or the one a
\* crashed move left.  When the secrets cannot be resealed, a key made for it
\* goes again.
Reseal ==
    /\ phase = "move" /\ \A g \in todo : ~Settled(g)
    /\ \E g \in todo :
          LET old == standing[g].wrap
              existed == keys[g][target] # 0
              new == [keys EXCEPT ![g][target] = made[g] + 1]
          IN  /\ todo' = todo \ {g}
              /\ \/ UNCHANGED <<keys, made, moving, faults>>
                 \/ /\ Reachable(target) /\ ~existed
                    /\ keys' = new /\ made' = [made EXCEPT ![g] = @ + 1]
                    /\ Fault(1) /\ UNCHANGED moving
                 \/ /\ Reachable(target) /\ Reachable(old)
                    /\ keys[g][old] = standing[g].gen
                    /\ IF existed THEN UNCHANGED <<keys, made>>
                       ELSE keys' = new /\ made' = [made EXCEPT ![g] = @ + 1]
                    /\ moving' = moving \cup {g}
                    /\ UNCHANGED faults
    /\ UNCHANGED <<ledger, phase, standing, startKeeps>>

\* Mutant of MoveWrite: a failed write is not noticed.
MoveWriteUnchecked ==
    /\ phase = "move" /\ todo = {}
    /\ \E ok \in BOOLEAN :
          LET moved == [g \in Grants |->
                  IF g \in moving THEN [standing[g] EXCEPT !.wrap = target,
                                                           !.gen = keys[g][target]]
                  ELSE standing[g]]
          IN  /\ Fault(IF ok THEN 0 ELSE 1)
              /\ ~ok => moving # {}
              /\ standing' = moved
              /\ ledger' = IF ok /\ loaded THEN moved ELSE ledger
              /\ todo' = moving
    /\ phase' = "drop"
    /\ moving' = {}
    /\ UNCHANGED <<keys, made, startKeeps>>

\* One durable write for all that moved; if it fails, memory is put back.
MoveWrite ==
    /\ phase = "move" /\ todo = {}
    /\ \E ok \in BOOLEAN :
          LET moved == [g \in Grants |->
                  IF g \in moving THEN [standing[g] EXCEPT !.wrap = target,
                                                           !.gen = keys[g][target]]
                  ELSE standing[g]]
          IN  /\ Fault(IF ok THEN 0 ELSE 1)
              /\ ~ok => moving # {}
              /\ standing' = IF ok THEN moved ELSE standing
              /\ ledger' = IF ok /\ moving # {} THEN moved ELSE ledger
              /\ todo' = IF ok THEN moving ELSE {}
    /\ phase' = "drop"
    /\ moving' = {}
    /\ UNCHANGED <<keys, made, startKeeps>>

\* Only now do the old keys go.
DropOld ==
    /\ phase = "drop"
    /\ IF todo = {}
       THEN phase' = "list" /\ UNCHANGED <<keys, todo, faults>>
       ELSE \E g \in todo : /\ DeleteKeys(g, Kinds \ {target})
                            /\ todo' = todo \ {g}
                            /\ UNCHANGED phase
    /\ UNCHANGED <<ledger, made, standing, moving, startKeeps>>

Listed == {g \in Grants : \E k \in Kinds : Reachable(k) /\ keys[g][k] # 0}

\* Mutant of ListOrphans: only the keychain's keys.
ListOrphansOfTheKeychain ==
    /\ phase = "list"
    /\ todo' = IF loaded /\ jobsLoaded
               THEN {g \in Grants : keys[g]["keychain"] # 0}
                       \ (names \cup Named(standing))
               ELSE {}
    /\ phase' = "clean"
    /\ UNCHANGED <<diskVars, standing, moving, startKeeps, faults>>

\* Only when both files loaded can a key be judged unused; the names are
\* those the ledger held when it was read.
ListOrphans ==
    /\ phase = "list"
    /\ todo' = IF loaded /\ jobsLoaded
               THEN Listed \ (names \cup Named(standing)) ELSE {}
    /\ phase' = "clean"
    /\ UNCHANGED <<diskVars, standing, moving, startKeeps, faults>>

DeleteOrphan ==
    /\ phase = "clean"
    /\ \E g \in todo : DeleteKeys(g, Kinds) /\ todo' = todo \ {g}
    /\ UNCHANGED <<ledger, made, phase, standing, moving, startKeeps>>

Listen ==
    /\ phase = "clean" /\ todo = {}
    /\ phase' = "up"
    /\ UNCHANGED <<diskVars, standing, todo, moving, startKeeps, faults>>

-----------------------------------------------------------------------------
(* The clients, and the vault.                                             *)

Entry(op) ==
    CASE op = "create" -> "key"
      [] op = "serve" -> "check"
      [] op = "revoke" -> "remove"
      [] op = "stop" -> "flush"

\* A create, refused without a ledger, mints an id of its own.
Fresh == {g \in Grants \ Old :
            \A r \in Requests : local[r].op = "create" => local[r].g # g}
Ask(r) ==
    /\ At(r, "idle")
    /\ \E op \in OpsOf[r], g \in Grants :
          /\ op = "create" => g \in Fresh
          /\ local' = [local EXCEPT ![r].op = op, ![r].g = g,
                ![r].pc = IF op = "create" /\ ~loaded THEN "done" ELSE Entry(op)]
    /\ UNCHANGED <<diskVars, vaultKind, phase, startVars, standing, cached,
                   dead, ledgerMu, dirty, told, saveFailed, bounds, faults>>

\* Another process moves the vault's own key.
VaultMoves ==
    /\ moves < MaxMoves
    /\ moves' = moves + 1
    /\ vaultKind' = CHOOSE k \in Kinds : k # vaultKind
    /\ UNCHANGED <<diskVars, phase, startVars, standing, cached, dead,
                   ledgerMu, dirty, local, told, saveFailed, crashes, faults>>

Request(r) ==
    \/ CreateKey(r) \/ CreateSeal(r) \/ CreatePublish(r) \/ CreateUnpublish(r)
    \/ SaveBegin(r) \/ SaveWrite(r)
    \/ RevokeRemove(r) \/ Retire(r) \/ DeleteKey(r)
    \/ ServeCheck(r) \/ ServeOpen(r) \/ ServeCount(r) \/ ServeBookkeep(r)
    \/ StopFlush(r) \/ StopCollect(r) \/ StopRetire(r) \/ StopExit(r)

Start == \/ Load \/ Settle \/ Reseal \/ MoveWrite \/ DropOld
         \/ ListOrphans \/ DeleteOrphan \/ Listen

\* Up, with nobody left to ask.
Finished ==
    /\ phase = "up" /\ \A r \in Requests : local[r].pc = "done"
    /\ UNCHANGED vars

Next ==
    \/ \E r \in Requests : Ask(r) \/ Request(r)
    \/ Start \/ Crash \/ VaultMoves \/ Finished

Spec == Init /\ [][Next]_vars

-----------------------------------------------------------------------------
(* Properties.                                                             *)

Opened(r) == At(r, "open") /\ local'[r].pc = "count"

\* With one fault, what was revoked or refused never opens a secret again:
\* not by a serve that looked before the revoke, not after a restart that
\* loads an old ledger or finds the key still there.
EndedIsNeverOpened ==
    [][\A r \in Requests :
          Opened(r) => told[local[r].g] \notin {"failed", "revoked"}]_vars

\* "At no point is a grant's only key gone" (grantmove.go): across saves,
\* crashes, moves and cleanups the ledger names a grant the human was given,
\* and the very key its secrets are sealed to exists.
KeyOfAGrantIsKept ==
    \A g \in Grants :
        told[g] = "granted" =>
            /\ ledger[g].wrap # "none"
            /\ keys[g][ledger[g].wrap] = ledger[g].gen

\* Saves are ordered: when nobody is about to save and no save failed, the
\* ledger names the grants there are, sealed as they are
\* ("Snapshotting inside the same lock is what makes a revoke durable").
OwesASave(r) ==
    \/ local[r].pc \in {"save", "write", "unpublish"}
    \/ local[r].op = "revoke" /\ local[r].pc \in {"retire", "delete"}
LedgerFollows ==
    (/\ phase = "up" /\ loaded /\ ~saveFailed
     /\ \A r \in Requests : ~OwesASave(r))
      => \A g \in Grants : /\ ledger[g].wrap = standing[g].wrap
                           /\ ledger[g].gen = standing[g].gen

\* No serve leaves a key cached on a grant that ended: closeStanding would
\* not see it (standingGrant.dead).
NoKeyLeftCached ==
    \A g \in Grants : told[g] \in {"failed", "revoked"} => cached[g] = 0

\* What follows a grant that was made or ended follows it: the ledger and the
\* keys kept open.
LedgerAndCacheFollow == TypeOK /\ LedgerFollows /\ NoKeyLeftCached

\* A start without a fault leaves no key that no grant names: not of an
\* approval that failed, a crash, a revoke that did not reach it, or a move.
LeftoversGo ==
    [][(phase = "clean" /\ phase' = "up" /\ faults = faultsAtStart) =>
          \A g \in Grants :
              (\E k \in Kinds : keys[g][k] # 0) => g \in Named(standing)]_vars

-----------------------------------------------------------------------------
(* What comments say and the code does not do.                             *)

\* "The record is gone either way, so nothing names the key and the next
\* start's cleanup (grantorphans.go) tries it again" (keyNoteOf): what was
\* revoked is never served again.
RevokedIsNeverServed ==
    [][\A r \in Requests : Opened(r) => told[local[r].g] # "revoked"]_vars

\* "the grant could not be recorded (%s), no grant created"
\* (createStandingGrant): no such grant is ever listed.
ListedWasNotRefused ==
    \A g \in Named(standing) : phase = "up" => told[g] # "failed"

\* "a clean stop never loses a count it could have kept" (flushLedger): what
\* is not marked dirty is in the ledger.
UnsavedIsMarked ==
    (/\ phase = "up" /\ loaded /\ ~dirty
     /\ \A r \in Requests : ~OwesASave(r) /\ local[r].pc # "bookkeep")
      => \A g \in Named(standing) : ledger[g].serves = standing[g].serves
=============================================================================
