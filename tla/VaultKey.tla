------------------------------- MODULE VaultKey -------------------------------
(***************************************************************************)
(* The vault's master key: where it rests, and the commands that change    *)
(* that.  `jit vault rekey` rotates a keychain key (stage a new one,       *)
(* re-wrap every envelope, promote it); `--wrapper` moves a key into the   *)
(* Secure Enclave or back; `jit vault init` starts over after the enclave  *)
(* lost it; and other commands seal envelopes meanwhile.  They share the   *)
(* file rekey.inprogress (marker), which makes every other vault command   *)
(* refuse, and each is a sequence of steps on files and keychain items     *)
(* that may be killed or fail between any two.                             *)
(* Sources: src/internal/cli/vaultrekey.go, vaultmove.go, vault.go,        *)
(* vault/rekey.go, vault/lostkey.go, keychainwrap/rekey.go,                *)
(* keystore/keystore.go, secureenclave/wrapper.go.                         *)
(***************************************************************************)
EXTENDS Naturals, FiniteSets

CONSTANTS
    Commands,     \* command-line processes
    Files,        \* the envelope files under vault/, history and backups too
    Keys,         \* bound: master keys about at one time
    NoKey, NoFile,
    MaxCrashes,   \* bound: commands killed between two steps
    MaxFaults,    \* bound: keychain, enclave or file operations that fail
    MaxLosses     \* bound: times the enclave loses its keys

ASSUME BoundsAreNaturals ==
    {MaxCrashes, MaxFaults, MaxLosses} \subseteq Nat
ASSUME NoneIsNone == NoFile \notin Files /\ NoKey \notin Keys

VARIABLES
    primary,      \* the login keychain's item
    staged,       \* the keychain's staged item (account + ".rekey-next")
    sealed,       \* vault-key.sealed: the key in it, and whether the enclave opens it
    next,         \* vault-key.sealed.next, a move's unverified file
    marker,       \* rekey.inprogress
    under,        \* the key each envelope's data key is wrapped under
    listed,       \* envelopes whose bytes a lost key's record lists
    agentKey,     \* the key in the service's session
    gone,         \* keys only the enclave held when it lost them
    at,           \* where each command is
    mem,          \* what each command holds in memory
    crashes, faults, losses

places == <<primary, staged, sealed, next>>
bounds == <<crashes, faults, losses>>
vars == <<places, marker, under, listed, agentKey, gone, at, mem, bounds>>

KeyOrNone == Keys \union {NoKey}
SealedFile == [key : KeyOrNone, opens : BOOLEAN]
NoSealedFile == [key |-> NoKey, opens |-> FALSE]
Markers == {"none", "rotation", "in", "back"}
RekeyPlaces == {"rekey ask", "rekey mark", "rekey stage", "rekey walk", "rekey write",
    "rekey delete", "rekey add", "rekey verify", "rekey drop", "rekey unmark", "rekey return"}
InPlaces == {"in mark", "in fetch", "in seal", "in check", "in promote", "in drop", "in finish"}
BackPlaces == {"back mark", "back open", "back install", "back unfile", "back delete",
    "back finish"}
OtherPlaces == {"idle", "abort", "copy open", "copy match", "write keychain",
    "write enclave", "write agent", "write", "init key"}
Places == RekeyPlaces \union InPlaces \union BackPlaces \union OtherPlaces
\* old: a key read from the keychain or the enclave; new: the staged key the
\* walk wraps with; todo: the envelopes it has left; file: the one in hand
Memory == [old : KeyOrNone, new : KeyOrNone, todo : SUBSET Files, file : Files \union {NoFile}]
Blank == [old |-> NoKey, new |-> NoKey, todo |-> {}, file |-> NoFile]

Present == {f \in Files : under[f] # NoKey}
IsEnclaveVault == sealed # NoSealedFile
Opened(file) == IF file.opens THEN file.key ELSE NoKey
\* what keystore.Open's store hands out now
CurrentKey == IF IsEnclaveVault THEN Opened(sealed) ELSE primary
Held == {primary, staged, Opened(sealed), Opened(next)} \ {NoKey}

Init ==
    /\ primary \in KeyOrNone
    /\ staged = NoKey /\ sealed = NoSealedFile /\ next = NoSealedFile
    /\ marker = "none"
    /\ under = [f \in Files |-> NoKey]
    /\ listed = {} /\ agentKey = NoKey /\ gone = {}
    /\ at = [c \in Commands |-> "idle"]
    /\ mem = [c \in Commands |-> Blank]
    /\ crashes = 0 /\ faults = 0 /\ losses = 0

-------------------------------------------------------------------------------
(* Steps of a command *)

Go(c, from, to) == at[c] = from /\ at' = [at EXCEPT ![c] = to]
Remember(c, m) == mem' = [mem EXCEPT ![c] = m]
Forget(c) == Remember(c, Blank)
Works == UNCHANGED <<crashes, faults, losses>>
Fails == faults < MaxFaults /\ faults' = faults + 1 /\ UNCHANGED <<crashes, losses>>
LockAgent == agentKey' = NoKey
InUse ==
    {primary, staged, sealed.key, next.key, agentKey} \union gone
        \union {under[f] : f \in Files}
        \union {mem[c].old : c \in Commands} \union {mem[c].new : c \in Commands}
\* SecRandomCopyBytes: a key nothing has seen
NewKey == CHOOSE k \in Keys : k \notin InUse
-------------------------------------------------------------------------------
(* jit vault rekey: the rotation *)

\* Mutant of RekeyStart: no rotation without a key, not even to resume.
RekeyStartNeedsKey(c) ==
    /\ marker \in {"none", "rotation"} /\ ~IsEnclaveVault /\ primary # NoKey
    /\ Go(c, "idle", "rekey ask")
    /\ Works /\ Remember(c, [Blank EXCEPT !.old = primary])
    /\ UNCHANGED <<places, marker, under, listed, agentKey, gone>>

\* Refused over a move's marker and on an enclave vault, and without a key
\* unless it resumes.  HasMEK counts a read that failed as no key.
RekeyStart(c) ==
    /\ marker \in {"none", "rotation"} /\ ~IsEnclaveVault
    /\ Go(c, "idle", "rekey ask")
    /\ \/ Works /\ Remember(c, [Blank EXCEPT !.old = primary])
       \/ Fails /\ Forget(c)
    /\ mem'[c].old # NoKey \/ marker = "rotation"
    /\ UNCHANGED <<places, marker, under, listed, agentKey, gone>>

\* The one challenge.  With a primary it fetches it again and caches it for
\* the whole run; without one it is a bare prompt.
RekeyApprove(c) ==
    /\ LET bare == mem[c].old = NoKey
           approved == bare \/ primary # NoKey
       IN /\ Go(c, "rekey ask", IF approved THEN "rekey mark" ELSE "idle")
          /\ Remember(c, [Blank EXCEPT !.old = IF bare THEN NoKey ELSE primary])
    /\ UNCHANGED <<places, marker, under, listed, agentKey, gone, bounds>>

\* The service is locked, then the marker written.
RekeyMark(c) ==
    /\ Go(c, "rekey mark", "rekey stage")
    /\ LockAgent
    /\ marker' = "rotation"
    /\ UNCHANGED <<places, under, listed, gone, mem, bounds>>

\* Mutant of RekeyStage: a new staged key replaces the one an interrupted run left.
RekeyStageAgain(c) ==
    /\ Go(c, "rekey stage", "rekey walk")
    /\ staged' = NewKey
    /\ Remember(c, [mem[c] EXCEPT !.new = staged', !.todo = Present])
    /\ UNCHANGED <<primary, sealed, next, marker, under, listed, agentKey, gone, bounds>>

\* EnsureStagedRekeyMEK keeps a staged key that is there; the walk then lists
\* the envelope files.
RekeyStage(c) ==
    /\ Go(c, "rekey stage", "rekey walk")
    /\ staged' = IF staged = NoKey THEN NewKey ELSE staged
    /\ Remember(c, [mem[c] EXCEPT !.new = staged', !.todo = Present])
    /\ UNCHANGED <<primary, sealed, next, marker, under, listed, agentKey, gone, bounds>>

\* rewrapFile's reading half.  An envelope opens under the new key, or under
\* the old one, or is provably a lost key's copy and is kept; anything else
\* stops the rotation with its marker in place.
RekeyRead(c, f) ==
    /\ at[c] = "rekey walk" /\ f \in mem[c].todo
    /\ \/ /\ under[f] = mem[c].old /\ under[f] \notin {mem[c].new, NoKey}
          /\ at' = [at EXCEPT ![c] = "rekey write"]
          /\ Remember(c, [mem[c] EXCEPT !.file = f])
       \/ /\ under[f] = mem[c].new \/ (under[f] # mem[c].old /\ f \in listed)
          /\ at' = [at EXCEPT ![c] = "rekey walk"]
          /\ Remember(c, [mem[c] EXCEPT !.todo = @ \ {f}])
       \/ /\ under[f] \notin {mem[c].new, mem[c].old} /\ f \notin listed
          /\ at' = [at EXCEPT ![c] = "rekey return"] /\ Forget(c)
    /\ UNCHANGED <<places, marker, under, listed, agentKey, gone, bounds>>

\* The verified re-wrap replaces the file; its bytes are no record's any more.
RekeyWrite(c) ==
    /\ Go(c, "rekey write", "rekey walk")
    /\ under' = [under EXCEPT ![mem[c].file] = mem[c].new]
    /\ listed' = listed \ {mem[c].file}
    /\ Remember(c, [mem[c] EXCEPT !.todo = @ \ {mem[c].file}, !.file = NoFile])
    /\ UNCHANGED <<places, marker, agentKey, gone, bounds>>

\* PromoteStagedRekeyMEK: the staged item is read again, ...
RekeyPromote(c) ==
    /\ mem[c].todo = {}
    /\ Go(c, "rekey walk", IF staged # NoKey THEN "rekey delete" ELSE "rekey return")
    /\ Remember(c, [Blank EXCEPT !.new = staged])
    /\ UNCHANGED <<places, marker, under, listed, agentKey, gone, bounds>>

\* ... the primary item deleted ...
RekeyDelete(c) ==
    /\ Go(c, "rekey delete", "rekey add")
    /\ primary' = NoKey
    /\ UNCHANGED <<staged, sealed, next, marker, under, listed, agentKey, gone, mem, bounds>>

\* ... and added with the staged bytes, which fails if another item is there, ...
RekeyAdd(c) ==
    /\ Go(c, "rekey add", IF primary = NoKey THEN "rekey verify" ELSE "rekey return")
    /\ primary' = IF primary = NoKey THEN mem[c].new ELSE primary
    /\ UNCHANGED <<staged, sealed, next, marker, under, listed, agentKey, gone, mem, bounds>>

\* ... read back by a wrapper that caches nothing ...
RekeyVerify(c) ==
    /\ Go(c, "rekey verify", IF primary = mem[c].new THEN "rekey drop" ELSE "rekey return")
    /\ Forget(c)
    /\ UNCHANGED <<places, marker, under, listed, agentKey, gone, bounds>>

\* ... and only then is the staged item deleted.
RekeyDrop(c) ==
    /\ Go(c, "rekey drop", "rekey unmark")
    /\ staged' = NoKey
    /\ UNCHANGED <<primary, sealed, next, marker, under, listed, agentKey, gone, mem, bounds>>

RekeyUnmark(c) ==
    /\ Go(c, "rekey unmark", "rekey return")
    /\ marker' = "none"
    /\ UNCHANGED <<places, under, listed, agentKey, gone, mem, bounds>>

\* The deferred lock of the service, on every return past the marker.
RekeyReturn(c) ==
    /\ Go(c, "rekey return", "idle")
    /\ LockAgent /\ Forget(c)
    /\ UNCHANGED <<places, marker, under, listed, gone, bounds>>

\* Mutant of RekeyFails: a rotation that stops takes its marker along, as a
\* move that stops early does.
RekeyFailsUnmarked(c) ==
    /\ at[c] \in RekeyPlaces \ {"rekey ask", "rekey return"}
    /\ at' = [at EXCEPT ![c] = "rekey return"]
    /\ marker' = "none"
    /\ Fails /\ Forget(c)
    /\ UNCHANGED <<places, under, listed, agentKey, gone>>

\* A keychain or file operation fails.  Before the service is locked nothing
\* is owed; after it the command returns through the deferred lock.
RekeyFails(c) ==
    /\ \/ Go(c, "rekey ask", "idle")
       \/ /\ at[c] \in RekeyPlaces \ {"rekey ask", "rekey return"}
          /\ at' = [at EXCEPT ![c] = "rekey return"]
    /\ Fails /\ Forget(c)
    /\ UNCHANGED <<places, marker, under, listed, agentKey, gone>>

Rekey(c) ==
    \/ RekeyStart(c) \/ RekeyApprove(c) \/ RekeyMark(c) \/ RekeyStage(c)
    \/ \E f \in Files : RekeyRead(c, f)
    \/ RekeyWrite(c) \/ RekeyPromote(c) \/ RekeyDelete(c) \/ RekeyAdd(c)
    \/ RekeyVerify(c) \/ RekeyDrop(c) \/ RekeyUnmark(c) \/ RekeyReturn(c) \/ RekeyFails(c)
-------------------------------------------------------------------------------
(* jit vault rekey --wrapper secure-enclave: the move in *)

\* planToEnclave: a move, or its resumption; in an enclave vault with an item
\* left under the key's name in the keychain, only the removal of that item.
InStart(c) ==
    /\ \/ /\ marker = "in" \/ (marker = "none" /\ ~IsEnclaveVault)
          /\ Go(c, "idle", "in mark")
       \/ /\ marker = "none" /\ IsEnclaveVault /\ primary # NoKey
          /\ Go(c, "idle", "copy open")
    /\ UNCHANGED <<places, marker, under, listed, agentKey, gone, mem, bounds>>

\* A sealed file under a move's marker was verified before it was renamed
\* into place, so a resumed move goes straight to the keychain copy.
InMark(c) ==
    /\ Go(c, "in mark", IF IsEnclaveVault THEN "in drop" ELSE "in fetch")
    /\ marker' = "in" /\ LockAgent
    /\ UNCHANGED <<places, under, listed, gone, mem, bounds>>

\* A staged file of an interrupted run goes; the keychain's key is read.
InFetch(c) ==
    /\ Go(c, "in fetch", IF primary = NoKey THEN "abort" ELSE "in seal")
    /\ next' = NoSealedFile
    /\ Remember(c, [Blank EXCEPT !.old = primary])
    /\ UNCHANGED <<primary, staged, sealed, marker, under, listed, agentKey, gone, bounds>>

\* Wrapper.Install on the staged file makes the enclave key if there is none.
InSeal(c) ==
    /\ Go(c, "in seal", "in check")
    /\ next' = [key |-> mem[c].old, opens |-> TRUE]
    /\ UNCHANGED <<primary, staged, sealed, marker, under, listed, agentKey, gone, mem, bounds>>

\* The enclave opens it once, and what it gives is compared.
InCheck(c) ==
    /\ Go(c, "in check", IF Opened(next) = mem[c].old THEN "in promote" ELSE "abort")
    /\ Forget(c)
    /\ UNCHANGED <<places, marker, under, listed, agentKey, gone, bounds>>

InPromote(c) ==
    /\ Go(c, "in promote", IF next = NoSealedFile THEN "idle" ELSE "in drop")
    /\ sealed' = IF next = NoSealedFile THEN sealed ELSE next
    /\ next' = NoSealedFile
    /\ UNCHANGED <<primary, staged, marker, under, listed, agentKey, gone, mem, bounds>>

\* A keychain copy that will not go does not stop the move.
InDrop(c) ==
    /\ Go(c, "in drop", "in finish")
    /\ \/ primary' = NoKey /\ Works
       \/ primary # NoKey /\ UNCHANGED primary /\ Fails
    /\ UNCHANGED <<staged, sealed, next, marker, under, listed, agentKey, gone, mem>>

Finish(c, from) ==
    /\ Go(c, from, "idle")
    /\ LockAgent /\ marker' = "none"
    /\ UNCHANGED <<places, under, listed, gone, mem, bounds>>

\* keyMover.abort: before the new copy existed a failure undoes the move.
Abort(c) ==
    /\ Go(c, "abort", "idle")
    /\ next' = NoSealedFile /\ marker' = "none"
    /\ Forget(c)
    /\ UNCHANGED <<primary, staged, sealed, under, listed, agentKey, gone, bounds>>

InFails(c) ==
    /\ \/ at[c] \in {"in mark", "in promote", "in finish"} /\ at' = [at EXCEPT ![c] = "idle"]
       \/ at[c] \in {"in fetch", "in seal", "in check"} /\ at' = [at EXCEPT ![c] = "abort"]
    /\ Fails /\ Forget(c)
    /\ UNCHANGED <<places, marker, under, listed, agentKey, gone>>

\* removeKeychainCopy: the enclave opens first, and only the same key goes.
CopyOpen(c) ==
    /\ Go(c, "copy open", IF Opened(sealed) = NoKey THEN "idle" ELSE "copy match")
    /\ Remember(c, [Blank EXCEPT !.old = Opened(sealed)])
    /\ UNCHANGED <<places, marker, under, listed, agentKey, gone, bounds>>

CopyMatch(c) ==
    /\ Go(c, "copy match", "idle")
    /\ \/ Works /\ primary' = IF primary = mem[c].old THEN NoKey ELSE primary
       \/ Fails /\ UNCHANGED primary
    /\ Forget(c)
    /\ UNCHANGED <<staged, sealed, next, marker, under, listed, agentKey, gone>>

MoveIn(c) ==
    \/ InStart(c) \/ InMark(c) \/ InFetch(c) \/ InSeal(c) \/ InCheck(c) \/ InPromote(c)
    \/ InDrop(c) \/ Finish(c, "in finish") \/ Abort(c) \/ InFails(c)
    \/ CopyOpen(c) \/ CopyMatch(c)
-------------------------------------------------------------------------------
(* jit vault rekey --wrapper keychain: the move back *)

BackStart(c) ==
    /\ marker = "back" \/ (marker = "none" /\ IsEnclaveVault)
    /\ Go(c, "idle", "back mark")
    /\ UNCHANGED <<places, marker, under, listed, agentKey, gone, mem, bounds>>

BackMark(c) ==
    /\ Go(c, "back mark", IF IsEnclaveVault THEN "back open" ELSE "back delete")
    /\ marker' = "back" /\ LockAgent
    /\ UNCHANGED <<places, under, listed, gone, mem, bounds>>

BackOpen(c) ==
    /\ Go(c, "back open", IF Opened(sealed) = NoKey THEN "abort" ELSE "back install")
    /\ Remember(c, [Blank EXCEPT !.old = Opened(sealed)])
    /\ UNCHANGED <<places, marker, under, listed, agentKey, gone, bounds>>

\* Wrapper.InstallMEK: the same key there is success, any other is refused.
BackInstall(c) ==
    /\ Go(c, "back install", IF primary \in {NoKey, mem[c].old} THEN "back unfile" ELSE "abort")
    /\ primary' = IF primary = NoKey THEN mem[c].old ELSE primary
    /\ Forget(c)
    /\ UNCHANGED <<staged, sealed, next, marker, under, listed, agentKey, gone, bounds>>

\* From this removal on the vault is a keychain vault.
BackUnfile(c) ==
    /\ Go(c, "back unfile", "back delete")
    /\ sealed' = NoSealedFile
    /\ UNCHANGED <<primary, staged, next, marker, under, listed, agentKey, gone, mem, bounds>>

\* Wrapper.Delete: the file first, then the enclave's keys, so no file that
\* is left opens.
BackDelete(c) ==
    /\ Go(c, "back delete", "back finish")
    /\ sealed' = NoSealedFile
    /\ next' = [next EXCEPT !.opens = FALSE]
    /\ UNCHANGED <<primary, staged, marker, under, listed, agentKey, gone, mem, bounds>>

BackFails(c) ==
    /\ \/ at[c] \in BackPlaces \ {"back open", "back install"} /\ at' = [at EXCEPT ![c] = "idle"]
       \/ at[c] \in {"back open", "back install"} /\ at' = [at EXCEPT ![c] = "abort"]
    /\ Fails /\ Forget(c)
    /\ UNCHANGED <<places, marker, under, listed, agentKey, gone>>

MoveBack(c) ==
    \/ BackStart(c) \/ BackMark(c) \/ BackOpen(c) \/ BackInstall(c) \/ BackUnfile(c)
    \/ BackDelete(c) \/ Finish(c, "back finish") \/ BackFails(c)
-------------------------------------------------------------------------------
(* jit vault init *)

\* The item left in the keychain opens every envelope there is (the code
\* measures the live secrets; Files does not tell them from history).
LeftoverOpensAll == Present # {} /\ \A f \in Present : under[f] = primary

\* The sealed file goes aside, with a record of the bytes of every envelope.
SetAsideLostSealedKey ==
    /\ sealed' = NoSealedFile
    /\ listed' = listed \union Present

\* A keychain vault gets a key if it has none.  Over a lost enclave key, the
\* sealed file is set aside with a record of every envelope and a new key is
\* made; or an item left in the keychain is adopted, if it opens everything.
InitStart(c) ==
    /\ \/ /\ ~IsEnclaveVault /\ primary = NoKey
          /\ Go(c, "idle", "init key")
          /\ UNCHANGED <<sealed, listed, agentKey>>
       \/ /\ IsEnclaveVault /\ ~sealed.opens /\ primary = NoKey
          /\ Go(c, "idle", "init key")
          /\ SetAsideLostSealedKey /\ LockAgent
       \/ /\ IsEnclaveVault /\ ~sealed.opens /\ LeftoverOpensAll
          /\ Go(c, "idle", "idle")
          /\ sealed' = NoSealedFile /\ LockAgent
          /\ UNCHANGED listed
    /\ UNCHANGED <<primary, staged, next, marker, under, gone, mem, bounds>>

\* EnsureMEK keeps an item it finds; the deferred lock of the service.
InitKey(c) ==
    /\ Go(c, "init key", "idle")
    /\ primary' = IF primary = NoKey THEN NewKey ELSE primary
    /\ LockAgent
    /\ UNCHANGED <<staged, sealed, next, marker, under, listed, gone, mem, bounds>>

-------------------------------------------------------------------------------
(* Commands that seal or remove an envelope *)

\* openVault and openVaultFreshAuth: refused while the marker is there; which
\* store the key will come from is decided now.
WriteStart(c) ==
    /\ marker = "none"
    /\ Go(c, "idle", IF IsEnclaveVault THEN "write enclave" ELSE "write keychain")
    /\ UNCHANGED <<places, marker, under, listed, agentKey, gone, mem, bounds>>

\* The wrapper asks, and reads the key now.
WriteFetch(c) ==
    /\ at[c] \in {"write keychain", "write enclave"}
    /\ LET key == IF at[c] = "write keychain" THEN primary ELSE Opened(sealed)
       IN /\ at' = [at EXCEPT ![c] = IF key = NoKey THEN "idle" ELSE "write"]
          /\ Remember(c, [Blank EXCEPT !.old = key])
    /\ UNCHANGED <<places, marker, under, listed, agentKey, gone, bounds>>

Write(c, f) ==
    /\ Go(c, "write", "idle")
    /\ under' = [under EXCEPT ![f] = mem[c].old]
    /\ listed' = listed \ {f}
    /\ Forget(c)
    /\ UNCHANGED <<places, marker, agentKey, gone, bounds>>

RemoveFile(c, f) ==
    /\ marker = "none" /\ at[c] = "idle" /\ under[f] # NoKey
    /\ under' = [under EXCEPT ![f] = NoKey]
    /\ listed' = listed \ {f}
    /\ UNCHANGED <<places, marker, agentKey, gone, at, mem, bounds>>

Use(c) ==
    \/ InitStart(c) \/ InitKey(c) \/ WriteStart(c) \/ WriteFetch(c)
    \/ \E f \in Files : Write(c, f) \/ RemoveFile(c, f)

-------------------------------------------------------------------------------
(* The service's session, which only a command that reaches it seals through *)

AgentUnlock ==
    /\ agentKey = NoKey /\ CurrentKey # NoKey
    /\ agentKey' = CurrentKey
    /\ UNCHANGED <<places, marker, under, listed, gone, at, mem, bounds>>

AgentLocks ==
    /\ agentKey # NoKey /\ LockAgent
    /\ UNCHANGED <<places, marker, under, listed, gone, at, mem, bounds>>

\* openVault prefers a service it can reach
ReachAgent(c) ==
    /\ marker = "none" /\ Go(c, "idle", "write agent")
    /\ UNCHANGED <<places, marker, under, listed, agentKey, gone, mem, bounds>>

AgentWraps(c) ==
    /\ Go(c, "write agent", IF agentKey = NoKey THEN "idle" ELSE "write")
    /\ Remember(c, [Blank EXCEPT !.old = agentKey])
    /\ UNCHANGED <<places, marker, under, listed, agentKey, gone, bounds>>

ThroughService ==
    \/ AgentUnlock \/ AgentLocks
    \/ \E c \in Commands : ReachAgent(c) \/ AgentWraps(c)

-------------------------------------------------------------------------------
Crash(c) ==
    /\ crashes < MaxCrashes /\ crashes' = crashes + 1
    /\ at[c] # "idle" /\ at' = [at EXCEPT ![c] = "idle"]
    /\ Forget(c)
    /\ UNCHANGED <<places, marker, under, listed, agentKey, gone, faults, losses>>

\* The enclave was reset, or the vault copied to another Mac, and no command
\* outlives either: what the enclave alone held is gone.
EnclaveLoss ==
    /\ losses < MaxLosses /\ losses' = losses + 1
    /\ \A c \in Commands : at[c] = "idle"
    /\ sealed.opens \/ next.opens
    /\ sealed' = [sealed EXCEPT !.opens = FALSE]
    /\ next' = [next EXCEPT !.opens = FALSE]
    /\ gone' = gone \union ({Opened(sealed), Opened(next)} \ {NoKey, primary, staged})
    /\ UNCHANGED <<primary, staged, marker, under, listed, agentKey, at, mem, crashes, faults>>

Step(c) == Rekey(c) \/ MoveIn(c) \/ MoveBack(c) \/ Use(c)
Next ==
    \/ \E c \in Commands : Step(c) \/ Crash(c)
    \/ marker = "none" /\ EnclaveLoss

Spec == Init /\ [][Next]_vars
\* commands that seal through the service
ServedSpec == Init /\ [][Next \/ ThroughService]_vars
\* an enclave lost between a crash and the command that resumes
LossySpec == Init /\ [][Next \/ EnclaveLoss]_vars

\* A command that runs goes on, and whoever finds the marker runs the command
\* that finishes it.
Resume(c) == marker # "none" /\ (RekeyStart(c) \/ InStart(c) \/ BackStart(c))
Running(c) == at[c] # "idle" /\ Step(c)
FairSpec == Spec /\ \A c \in Commands : WF_vars(Running(c)) /\ WF_vars(Resume(c))
-------------------------------------------------------------------------------
TypeOK ==
    /\ {primary, staged, agentKey} \subseteq KeyOrNone
    /\ {sealed, next} \subseteq SealedFile
    /\ marker \in Markers
    /\ under \in [Files -> KeyOrNone] /\ listed \subseteq Files /\ gone \subseteq Keys
    /\ at \in [Commands -> Places] /\ mem \in [Commands -> Memory]
    /\ {crashes, faults, losses} \subseteq Nat
    /\ \A c \in Commands :
         /\ at[c] \in {"write", "in seal", "in check", "back install"} => mem[c].old # NoKey
         /\ at[c] \in {"rekey walk", "rekey write", "rekey delete", "rekey add",
                "rekey verify"} => mem[c].new # NoKey
         /\ at[c] = "rekey write" => mem[c].file \in mem[c].todo

(* Rotation, move, move back, init and their resumptions never destroy a     *)
(* key an envelope is sealed under, nor seal one under a destroyed key,      *)
(* whatever fails or is killed (vaultmove.go:29, keychainwrap/rekey.go:27).  *)
Custody == INSTANCE KeyCustody WITH held <- Held
CustodySpec == Custody!CustodySpec
InCustody == Custody!InCustody

(* Where no marker stops the other commands, the store keystore.Open chooses *)
(* is the one that opens what is stored: all but what a lost key's record    *)
(* lists or the hardware lost (vaultrekey.go:29).                            *)
ChosenKey == IF IsEnclaveVault THEN sealed.key ELSE primary
UnmarkedVaultOpens ==
    marker = "none" => \A f \in Present \ listed : under[f] \in gone \union {ChosenKey}

(* At every step the key places and envelopes are ones the code can be in,   *)
(* and a vault that looks finished is one that opens.                        *)
VaultOpens == TypeOK /\ UnmarkedVaultOpens

(* "Running it again finishes it": a change that was interrupted ends, and   *)
(* with it the refusal of every other command.                               *)
InterruptedChangeFinishes == marker # "none" ~> marker = "none"
===============================================================================
